# Specifications of the EECS482 projects

The repository holds four independent C++ programs: a disk scheduler
(`src/Project1`), a thread library (`src/Project2`), a pager for virtual memory
(`src/Project3`) and a network file server (`src/Project4`).  This directory
specifies them in TLA+, checks the specifications on small instances with TLC
and proves properties of them with TLAPS.  `PROJECT.json` relates every
definition to the lines it models and lists the runs, the hazards and the
theorems.

## 1. The system and its parts

### Thread library (`Project2/thread_lib.cpp`, `mutex.cpp`, `cv.cpp`)
*State*: `running_thread` and `previous_thread` (shared pointers to thread
control blocks), `ready_queue`, a `join_queue` per TCB, `status`,
`occupy_thread` (a weak pointer) and `mutex_queue` per mutex, `cv_queue` per
condition variable; the CPU's interrupt flag and the context it executes.
*Operations*: `cpu::cpu`, thread creation, `yield` (also the timer's handler),
`join`, `lock`, `unlock`, `wait`, `signal`, `broadcast`, and the end of a
thread.
*Hard parts*: context switches in the middle of calls, timer interrupts
wherever interrupts are enabled, the hand-over of a mutex to a thread that runs
later, the moment at which a finished thread's stack may be freed, joins on
threads that are gone.
*Correct if*: mutual exclusion; `unlock` and `wait` throw exactly when the
caller does not own the mutex; a thread is at one place only; nobody waits for
what can no longer happen; the CPU is never on a freed stack and finished
threads are freed; the calls behave as Mesa monitors with first-come
first-served mutexes; such programs get their locks, the CPU and their end.

### Programs on the thread library (`Project2/app.cpp`, `test*.cpp`)
*State*: the place each thread has reached in its function, the shared counters
and flags of the program.
*Interaction*: they call the library; with `cpu::boot(…, true, …)` timer
interrupts call `thread::yield` in between.
*Hard parts*: joins before, while and after a thread ends; wait loops and
signals that come too early; cycles of joins and mutexes; increments that are
two steps.
*Correct if*: each ends with exactly those threads blocked that its text lets
block for ever; no increment made under a mutex is lost.

### File server (`Project4/file_server.cpp`)
*State*: the disk, `free_blocks` under `free_block_lock`, a reader/writer lock
per disk block, and the locals of the request each handler thread serves.
*Operations*: start-up (`init_free_blocks`), create, delete, read block, write
block, each a sequence of `traverse_dir` / `check_existance`, locks, free list
accesses and single block writes.
*Interaction*: one detached thread per connection; threads share the disk, the
locks and the free list.  Clients talk to it by requests and answers.
*Hard parts*: hand-over-hand locking against deletion; blocks freed while
somebody is about to read them; a crash between two writes; reservation of a
block that has to be undone on every failure path; a disk that is full.
*Correct if*: requests are linearizable; the disk is a well-formed tree at every
instant; no block is lost or used twice; no handler waits for ever.

### Connections of the file server (`Project4/file_server.cpp`, `utils.cpp`)
*State*: the listening socket; per connection the header, the block and the
answer as far as they have been received or sent.
*Operations*: `setup_socket`, the accept loop of `main`, the receive loops of
`handle_requests` and `handle_writeblock`, the parsing of a request,
`send_response`, `close`.
*Hard parts*: whatever a client sends, and wherever it stops or its connection
breaks; `recv` and `send` return any part of what is asked for, 0, or -1.
*Correct if*: the request handlers see legal requests and whole blocks only; a
legal request is never turned away or taken for another; every connection is
closed in the end.

### Disk scheduler (`Project1/scheduler.cpp`)
*State*: `disk_queue`, `disk_queue_full`, `requester_num`, `requester_done`,
`cur_track`, all under one mutex with two condition variables; each requester's
remaining tracks.
*Operations*: post a request, serve a request, and the waits of both.
*Hard parts*: signals between two condition variables, the count of active
requesters, which falls only when the last request of one is served.
*Correct if*: a request is served only when the queue is as full as it can get;
the nearest goes first; each file's requests are served in order, once; it ends.

### Pager (`Project3/my_vm_pager.cpp`, `my_utils.cpp`, `my_utils.h`)
*State*: page tables, physical page table, clock queue, free physical pages,
`peer_map` and `peer_in_phys` for pages shared through a file, free swap blocks
and the number of blocks that may still be reserved.
*Operations*: `vm_init`, `vm_create`, `vm_switch`, `vm_fault`, `vm_map`,
`vm_destroy`, called one at a time; between them processes load and store.
*Hard parts*: protection bits that must follow residence, reference and dirty
bits of all peers; eviction in the middle of a call; failing file reads;
process ids that come back.
*Correct if*: a load returns the last value stored to that page or file block;
swap pages are private and start as zeroes; the physical pages are partitioned
into pinned, free and clocked; swap blocks are conserved.

### Outside
The simulated CPU (`libcpu.o`), Project1's own thread library (`libthread.o`),
the disk (`libfs_server.o`), the MMU and files (`libvm_pager.o`),
`boost::shared_mutex` and the C library's contexts are binaries or libraries.
They are modelled, marked external, as the sources use them, or not at all.

## 2. Modules

| module | models | uses |
|---|---|---|
| `ThreadLib` | the thread library, one action per call or part of a call between two context switches | `Monitor` |
| `Monitor` | abstract: mutexes, condition variables and joins as a program sees them | |
| `ThreadPrograms` | `app` and the tests of Project2 as lists of instructions | |
| `ThreadApps` | an interpreter of these programs on the library, with a timer | `ThreadLib`, `ThreadPrograms` |
| `ThreadLibProofs` | theorems about types, mutual exclusion, ownership, waiting, stacks and TCBs, interrupts, that no thread is lost or queued twice, and that the library implements `Monitor` | `ThreadLib` |
| `ThreadAppsProofs` | theorems that programs run on the library as it is proved, and that no increment is lost | `ThreadApps`, `ThreadLibProofs` |
| `FsDisk` | on-disk format, the tree it encodes, `init_free_blocks`, well-formedness | |
| `FileServer` | the request handlers | `FsDisk`, `FileSystem` |
| `FileServerProofs` | theorems about all invariants of the handlers, that what is held is stable, and that the handlers never wait for one another in a circle | `FileServer`, `QueueFacts` |
| `FileServerRefinement` | theorem that the handlers implement `FileSystem` | `FileServerProofs`, `FileSystem` |
| `Connections` | sockets, parsing of requests, receive and send loops | |
| `ConnectionsProofs` | theorems that only legal requests get through, that legal ones are understood, and about the blocks of writes | `Connections`, `QueueFacts` |
| `FileSystem` | abstract: a tree on which requests take effect at once | |
| `DiskScheduler` | requesters and server | |
| `DiskSchedulerProofs` | theorems about its types and its three safety properties, and that never all wait | `DiskScheduler`, `QueueFacts` |
| `Pager` | the pager, the MMU and the processes | `AddressSpace` |
| `AddressSpace` | abstract: the arenas and files as processes see them | |
| `PagerProofs` | theorems about all safety properties of the pager, and that it implements `AddressSpace` | `Pager`, `QueueFacts` |
| `QueueFacts` | lemmas about numbers, sets and sequences that these proofs share | |
| `MCThreadLib`, `MCThreadApps`, `MCFileServer`, `MCConnections`, `MCDiskScheduler`, `MCPager` | TLC instances | |

### ThreadLib
All library code runs with interrupts disabled on one CPU, so a call is atomic
up to the `swapcontext` in it.  A blocking call is three steps: the call up to
the switch (`SwapHelper` has already replaced `running_thread`), `Switch`, and
what runs when the context is resumed (`Return`, `ReturnWithMutex`, `WakeFree`,
`WakeBusy`).  `context` is the code the CPU executes and `switch_to` a switch
about to happen, so that "which stack is in use" can be told from
`running_thread`. A call that does not block is one step, at the end of which
interrupts are enabled again (`ReturnAtOnce`), also if it has nothing else to do
(`YieldAlone`, `JoinExpired`, `NobodyWaits`) or throws (`NotOwner`). A TCB
exists while a `shared_ptr` to it does; `Expired` is computed from the variables
that hold one. `held` is a ghost: the mutexes whose `lock` or `wait` has
returned. Any thread may make any call at any time, correct or not (`NotOwner`,
self-join, ending with a mutex locked). Not modelled: several CPUs (the code
creates the first thread and never uses `interrupt_send`), memory exhaustion.

### ThreadApps and ThreadPrograms
A program is a record of instruction lists, one per thread: `Texts.test9.t1` is
what the function of that thread does in `test9.cpp`.  Loops with a fixed count
are unrolled (`Rounds` times; 5 in the sources), `while (x < n) cv1.wait(m)` is
the instruction `await`, which tests its condition again after each wait.
`x++` is two instructions, since a timer interrupt may come between the read
and the write (`Load`, `Store`).  Printing is left out.  The interpreter adds
nothing to the library: a thread's next instruction enables the corresponding
action of `ThreadLib`, or an assignment of its own, or raises `NotOwner`
(`Throw`), which ends the process unless it is caught.  Where the text joins
through a global pointer to a thread (test4, 5, 11 and 21), the assignment of
the pointer (`point`) and the join (`follow`) are instructions, and a join
through a pointer that is still null ends the process (`FollowNull`).

`LeftBlocked` says how each test ends, as read from its text: in test5 and
test11 a thread joins another while it holds the mutex that one asks for; test10
and test17 wait once more than they are signalled; test18 locks `mutex2` twice;
the rest run to their end, test13 by `exit`, test15 by an exception nobody
catches.  The tests whose increments race or whose end depends on the order of
threads (3, 4, 5, 8, 10 to 14, 16 to 20) run as they are booted, without timer
interrupts.  `early` is test4 with timer interrupts, which it is not booted with
(test4.cpp:77): its parent sets the pointers only when all three children exist
(lines 65-67), so that a child which runs before may join through a null pointer
(line 30 or 39), and the process ends there; otherwise it ends as test4
does.  `contention` is not a test: three threads that take and release a mutex for ever.

### Connections
`stage[c]` is where the thread of connection `c` is: `header`, `data`,
`handling` (inside the file system, which is FileServer's part), `answering`,
`closed`.  `recv` delivers the header one character at a time and a block in
any pieces.  A header is a sequence of characters in which the name of the
request's type is one character; the separators, digits and slashes are what
the code looks at.  `peer` is the client's side: `open`, `finished` (`recv`
returns 0 when the stream is used up) or `reset` (`recv` and `send` return -1).
Where the code looks at `buf[0]` before it looks at the result of `recv`, the
first byte is uninitialized, and the model takes both branches (`HeaderFails`);
`append(buf, -1)` throws in a thread that catches nothing, which ends the server
(`Terminate`).  Whether the file system accepts the request is left open
(`Refuse`, `Answer`).  `Legal` and `Encoded` define, apart from the parser, what
a legal request is and how a client writes it.  Failures of `recv` and `send`
that go away by themselves are left out, as is a failing `accept`, which the
loop of `main` repeats.  `setup_socket` may fail; `init_server` does not notice,
and the server is `deaf` from then on.

### FileServer
A step of a handler is one lock acquisition, one critical section of
`free_block_lock`, one `disk_writeblock`, or the reads and decisions between two
of these; unlocks belong to the step before.  Reads are grouped, e.g. the search
of a directory is one step: `HeldIsStable` is the check that this is sound,
since nothing a handler has locked changes under it.  `pc` names the next step,
`loc` holds the locals, with the struct members the code gives two meanings
(`first_empty_block`: index or block) kept apart except for the value that marks
"none", `Sentinel`, which is the number of a real block, as in the code.  A
request is well formed when it arrives: parsing has no effect on shared state,
and that only such requests get here is `OnlyLegalRequests` of `Connections`.
`Junk` is what an upload that ended early puts on the disk: anything.  `Crash`
is any end of the process (an exception in a detached thread ends it too)
followed by a restart on the same disk.  Disk writes are atomic.

The locks are granted in any order that exclusion allows.  Boost's own policy,
which holds readers back while a writer waits, is one of these; that it adds no
deadlock is the theorem `HandlersNeverDeadlock`, which holds whoever is granted
a lock first.

`FileSystem` says when each request may succeed, and what it then does to a
tree of nodes `[type, owner, data]`.  A request may be refused without a reason
visible in the tree only if it needs a block.  The mapping reads the tree from
the disk (`TreeOf`), so its steps are the single disk writes at which a change
becomes visible, and the moments at which a read reads or a failure is decided.

### DiskScheduler
Everything is protected by `mutex1`, so a critical section between two waits is
one step.  `served` and `files` only record.  Assumed, because the program waits
for ever or chooses wrongly otherwise: at least one requester, a queue of at
least one, no empty file, tracks below 1000.

### Pager
The scheduler of the infrastructure does not preempt, and an access that faults
is repeated before anything else happens, so every call is one step, except
that `vm_map` with a file name is one step for each page of the name, in which
it may fault (`call` holds where it is).  `tables[p].vps` is the array of
virtual pages with their PTEs in one record, its length is `cnt`; `peer_map` is a
relation between file_ids and virtual pages, which are named by process and
index where the code has pointers.  The clock loop of `get_free_physical_page`
is given by what it leaves: `Passed` counts the pages whose reference bit it
clears, `Evicted` is the page it stops at, and the `...AfterSweep` operators are
the state behind it.  `file_read` of a file block may fail until it has
succeeded once (vm_pager.h:104-108), and always fails for blocks that are not in
`Files`.  After a failed fault the process goes on as it likes; in the system it
is killed, which is one of its choices (`vm_destroy`).

A page's contents are one value.  Whether it has a NUL at or after the place
where a name enters it is a property of the value (`Ending`), and a file name is
the sequence of the values read.  One value means one place where a name can
start in a page.

Two restrictions on the environment are named: `ManagedForks` (a process that
has pages may create another) is FALSE in the passing runs and TRUE in the runs
that show what goes wrong then; and a pid is not given to a new process until
another process has run since the old one ended (`MayCreate`).  Without the
latter `vm_switch` would return early on `cur_pid` (my_vm_pager.cpp:67) and
leave `cur_table` null, as `vm_destroy` resets one but not the other.

`AddressSpace` knows only values: private pages with their own, file pages with
the value of the file block, both changed by stores alone.  The mapping looks a
page up where a load would find it: in physical memory if it is resident, else
in the swap file or the file.

## 3. Runs

| run | instance | shows |
|---|---|---|
| `thread_library` | 4 threads, 2 mutexes, 1 condition variable, interchangeable; no other bound | safety of the library and the refinement of `Monitor` |
| `thread_programs` | 20 tests, `app`, `early` and `contention`, loops of 3 rounds, up to 7 threads; timer interrupts anywhere in 9 of them | `EndsAsWritten`, `NoLostUpdate`, and with three threads that contend for ever `LockServed`, `CpuServed` |
| `file_server_directories` | 2 handlers, 4 requests out of 9, 9 blocks, 1 crash | consistency, accounting, locking, refinement of `FileSystem` |
| `file_server_files` | 3 handlers, 4 requests out of 8, 7 blocks, 1 crash | the same with data: reads against deletion and reuse of blocks |
| `file_server_answers` | 2 handlers, 3 requests out of 6, 1 crash | `EveryRequestAnswered` |
| `file_server_growth` | as `file_server_directories`, 2 requests | the comment at file_server.cpp:226 does not hold |
| `connections` | 2 connections; 154 streams near the grammar, every prefix of 4 streams, pairs of requests | `OnlyLegalRequests`, `RequestsUnderstood`, `WholeBlocks`, `EveryConnectionClosed` |
| `connections_reset` | 2 connections with a request each | a broken connection is never closed (file_server.cpp:555) |
| `disk_scheduler` | 3 requesters, 5 files each, a queue of 2 | all properties of the scheduler |
| `pager_sharing` | 2 processes of 3 pages, 2 physical pages, 2 swap blocks, 1 file block, a name in two pages; no fork of a process with pages | residence, protection, dirty bits, swap blocks over maps and exits, refinement of `AddressSpace`, with evictions while a name is read |
| `pager_fork` | 2 processes of 2 pages, with forks | vm_pager.h:43-44 does not hold |
| `pager_fork_reservation` | the same | swap blocks reserved by a fork are lost, so that the count of `SwapConserved` is wrong after one |

*Bounds.*  ThreadLib needs none: its state space is finite for given objects.
Four threads allow a queue of two behind an owner and a running one; two mutexes
a thread that holds one and waits for the other or ends with one.  FileServer is
bounded by `MaxRequests` and `MaxCrashes`.  Three handlers are a reader, a
deleter and a third that reuses the freed block; the disk of seven blocks has
one free block, so that freed blocks are reused and the disk is full within four
requests.  Two entries to a block and two blocks to a directory make it grow,
shrink and overflow.  In `SentinelDisk`, block 3 = FS_MAXFILEBLOCKS + 1 holds the
entries of a directory.  A crash may come at any step; what a second one could
add begins in a state the first one leaves.  In DiskScheduler three requesters
and a queue of two cover both sides of `min(requester_num, max_disk_queue)`.
Pager needs no bound beyond the sizes of its memories.  Two swap pages and a
file page compete for two physical pages, so that each is evicted clean and
dirty, referenced pages are passed over, a file page outlives the processes that
mapped it, and the first page of a name is evicted while the second is read; the
swap file can run out.  In ThreadApps three rounds are enough for every pair of
loops to overlap at their beginning, middle and end; test18 keeps its 5 rounds
against 3, on which its end depends.  In Connections names have
up to 2 characters, users 2, paths 5, so that each limit is met and passed; a
block has 2 bytes, so that it arrives in pieces; `MaxFailures` stops the count
of failed sends, not the loop.

*Deadlock* is checked everywhere except in `disk_scheduler`, where the program
ends; there `Terminates` says that it ends only when all is done; and in
`connections`, where all connections are closed in the end or the server is gone,
which `EveryConnectionClosed` says.  `Suspended`
and `Finished` mark the ends of the other models.

*Fairness.*  ThreadApps: the CPU goes on executing library code and a timer
interrupt that stays deliverable is delivered (`cpu::boot` with `async`, one
every millisecond); strong fairness of a thread's next call says that a thread
that gets the CPU again and again is not preempted every single time before it
makes one instruction's worth of progress.  FileServer: each handler is an
operating-system thread and takes its next step if that stays possible; the
number of requests is finite, so a writer needs no priority over readers.
DiskScheduler: every thread that stays able to run runs.  Connections: the same
for the threads of the server, main included, and a client that has connected
finishes at some time; nothing makes a connection break.

*Mutants.*  Definitions introduced as mutants (faulty variants) stand beside the
definition they replace, and are used by no action.  `PROJECT.json` names one
for each property of each run.

### Disagreements between code and comments
*An entry that is not found.*
`check_existance` keeps the number of the disk block that has an unused entry in
`first_empty_block` (file_server.cpp:146), and `handle_create` takes the value
FS_MAXFILEBLOCKS + 1 = 125 for "no empty entry in cur blocks" (lines 225-226).
Block 125 is an ordinary block.  If a directory's entries are in it, its unused
entries are not seen: the directory grows by a block, or the create is refused
if it has reached FS_MAXFILEBLOCKS.  The disk stays consistent
(`file_server_directories` runs on such a disk), only space is lost.

*Forks.*  `vm_create` "should cause the child's arena to have the same mappings
and data as the parent's arena" (vm_pager.h:43-44); it creates an empty one
(my_vm_pager.cpp:60), as a comment there admits ("more things needs to be done
for advanced version").  The tests fork processes with pages.

*Reservations.*  The swap blocks it reserves for the child (line 56) are counted
for nobody: `vm_destroy` returns `occupied_swap_blocks` of the table, which is 0
for a child.  When both processes have ended, `num_swap_blocks` is still short,
and `vm_map` will refuse pages while the swap file has room.

*Connections that break.*  `send_response` adds the -1 of a failed send to the
number of bytes sent and repeats (utils.cpp:83-87), each time with a length that
is greater by one and an address that is smaller by one.  On a connection that
is broken this never ends, the connection is not closed (file_server.cpp:555)
and its thread uses a CPU for ever.  The handler holds no lock by then, so the
others are served.

## 4. Proofs

All theorems are proved for every value of the constants that satisfies the
named assumptions of the module: any numbers of threads, mutexes, condition
variables, requesters, processes, pages, swap blocks, files and connections, disks
and handlers of any number and size, and trees of any depth.

| Module | Theorem | States |
|---|---|---|
| `ThreadLibProofs` | `TypeCorrect` | `Spec => []TypeOK` |
| `ThreadLibProofs` | `MutexSafe` | `Spec => []MutualExclusion` |
| `ThreadLibProofs` | `OwnershipExact` | `Spec => []OwnershipIsExact` |
| `ThreadLibProofs` | `WaitsHaveCause` | `Spec => []BlockedForCause` |
| `ThreadLibProofs` | `StacksLive` | `Spec => []StackAlive` |
| `ThreadLibProofs` | `FinishedReclaimed` | `Spec => []Reclaimed` |
| `ThreadLibProofs` | `AlwaysPreemptible` | `Spec => []Preemptible` |
| `ThreadLibProofs` | `NoThreadLost` | `Spec => []OneHome` |
| `ThreadLibProofs` | `LibraryImplementsMonitor` | `Spec => ImplementsMonitor` |
| `ThreadAppsProofs` | `ProgramsRunOnTheLibrary` | `AppSpec => Spec` |
| `ThreadAppsProofs` | `IncrementsKept` | `AppSpec => []NoLostUpdate` |
| `FileServerProofs` | `Invariance` | `Spec => []IInv` |
| `FileServerProofs` | `TypeCorrect` | `Spec => []TypeOK` |
| `FileServerProofs` | `DiskStaysConsistent` | `Spec => []DiskConsistent` |
| `FileServerProofs` | `BlocksAccountedFor` | `Spec => []BlockAccounting` |
| `FileServerProofs` | `TargetsNeverStale` | `Spec => []NoStaleTarget` |
| `FileServerProofs` | `LocksAreTakenDownwards` | `Spec => []LocksFollowTheTree` |
| `FileServerProofs` | `HeldStaysAsItIs` | `Spec => HeldIsStable` |
| `FileServerProofs` | `HandlersNeverDeadlock` | `Spec => []SomebodyProceeds` |
| `FileServerRefinement` | `ServerImplementsFileSystem` | `Spec => ImplementsFileSystem` |
| `ConnectionsProofs` | `BlocksWhole` | `Spec => []WholeBlocks` |
| `ConnectionsProofs` | `RequestsLegal` | `Spec => []OnlyLegalRequests` |
| `ConnectionsProofs` | `LegalUnderstood` | `Spec => []RequestsUnderstood` |
| `DiskSchedulerProofs` | `SchedulerTypes` | `Spec => []TypeOK` |
| `DiskSchedulerProofs` | `FullFlagExact` | `Spec => []FullMeansFull` |
| `DiskSchedulerProofs` | `NoRequestLost` | `Spec => []FilesInOrder` |
| `DiskSchedulerProofs` | `NearestIsServed` | `Spec => ShortestSeekFirst` |
| `DiskSchedulerProofs` | `NeverAllWait` | `Spec => [](AllDone \/ SomebodyRuns)` |
| `PagerProofs` | `PagerInvariant` | `Spec => []IInv` |
| `PagerProofs` | `PagerTypes` | `Spec => []TypeOK` |
| `PagerProofs` | `PhysicalPagesPartitioned` | `Spec => []PagesPartitioned` |
| `PagerProofs` | `ProtectionIsRight` | `Spec => []ProtectionFollows` |
| `PagerProofs` | `PeersAreExact` | `Spec => []PeersExact` |
| `PagerProofs` | `DirtyBitsAreTrue` | `Spec => []DirtyBits` |
| `PagerProofs` | `RetriesSucceed` | `Spec => []RetrySucceeds` |
| `PagerProofs` | `SwapBlocksOwned` | `Spec => []SwapOwned` |
| `PagerProofs` | `SwapNeverLost` | `~ManagedForks` implies `Spec => []SwapConserved` |
| `PagerProofs` | `PagerImplementsAddressSpace` | `Spec => ImplementsAddressSpace` |

### Thread library
Assumed: `Main` is a thread, `Host` and `NoThread` are not.
`MutualExclusion` is not inductive.  An `unlock` marks the mutex as owned by a
thread that does not have it yet; that nobody else comes to hold it depends on
who can be in the middle of which call.  The invariant `IInv` adds

- `ControlInv`: which context may be executing, in which `pc`, and what
  `running_thread` then is;
- `WaitInv`: who stands in a join, mutex or condition queue is in the call that
  put it there, about that object, and stands there once; the queues are
  disjoint from one another;
- `RunInv`: the threads in `ready_queue`, the running and the active one are in
  none of those queues, and the ready queue has no thread twice;
- `GrantInv`: a thread in `lock` or `relock` that is not in its mutex's queue
  has been made its owner.

Lemmas about queues (`PushQueue`, `PopQueue`, `DrainQueue`) and about
`SwapHelper` and `Release` are stated once.  One lemma per action shows that it
keeps `IInv`.  TLC agreed to the parts of `IInv` on the instance of
`thread_library` before they were proved.

The other theorems each add one invariant to `IInv`:

- `OwnerInv`, for `OwnershipExact`: the thread a busy mutex is marked with has
  the mutex, or is in a lock whose wait is over and has not run since.  This is
  the converse of `MutualExclusion` and `GrantInv`; together with them it makes
  `check_ownership` an equivalence.
- `StackInv`, for `WaitsHaveCause`, `StacksLive` and `FinishedReclaimed`:
  a thread about to be switched to is suspended in a library call; the context a
  pending switch leaves is still referenced; `previous_thread` is null whenever
  the program runs.  The three depend on one another: `join` tests for an
  expired TCB, and that this test is the same as "has finished" is
  `FinishedAreExpired`, which needs `previous_thread` to be null.
- `Preemptible`, of `AlwaysPreemptible`: the program runs with interrupts enabled.
  Every call disables them and a switch carries the flag to another thread, in
  the middle of another call.  That no such path ends in the program with the
  flag still off needs `StackInv`: a switch never leads to a context outside the
  library.  A call that returns at once has to enable them itself
  (`ReturnAtOnce`).
- `HomeInv`, for `NoThreadLost`: only the active thread executes the program, and
  every other live thread is in some queue.  That it is in only one, and once,
  follows from `IInv` (`OneQueue`, `QueuesInjective`), and the number of its
  positions from that.

`LibraryImplementsMonitor` maps a state of the library to one of `Monitor` by
`PromisedHolder`, `PromisedLine` and `PromisedPhase`.  The difficulty is when a
promise is kept: an `unlock` hands the mutex over at once, but the next owner's
`lock` returns only when that thread gets the CPU; a woken waiter counts as one
in line for the mutex although it has still to run to ask for it.  The mapping
is only known to commute with the steps by four facts (`PromiseInv`): a thread
outside library calls waits for nothing; a joiner is in the join queue or its
thread has ended; a thread that is being handed a mutex does not have it yet; a
busy mutex is marked with a thread.  `MapInv` restates the mapping by cases of
`pc`.  One lemma per action then shows a step of `Monitor` or none; switches of
context and the runs of the ready queue are invisible.

### Programs
Assumed, of the texts of programs alone: the objects they name exist
(`ObjectsAssumption`), and increments of `g` are either in a program that the
timer does not interrupt or all made behind a `lock` of one mutex, with no
`unlock` of it in between (a wait returns with it); nothing else changes `g`, and none of them is
in a loop that is not unrolled (`IncrementsAssumption`).  TLC evaluates both on
the programs of `thread_programs`.  Nothing is assumed of the pointers: a thread
that follows one which is not set yet ends the program.

`ProgramsRunOnTheLibrary` (`AppSpec => Spec`): a step of a program is one of the
library, or leaves the library alone.  So the theorems about the library hold of
programs, in particular `IInv` and `MutualExclusion`.

`IncrementsKept` is not evident because a load and its store are two steps, and
because what guards them is a text: the thread has called `lock`.  `AppInv` adds to
`IInv`

- `HeldInv`: a thread has, or is in a call that returns with, each mutex its text
  has locked so far; an `unlock` or `wait` that throws ends the program;
- `LoadInv`: what a thread has loaded of `g` is still its value.  Others could
  only change it between a load and a store of their own, and `OneAtATime` says
  that no two threads are there: by `MutualExclusion` if the program is
  preempted, and otherwise because a thread leaves the CPU only in a library call;
- `CountInv`: `g` counts the increments that the threads have passed.

### File server
Assumed: `InitialDisk` is a well-formed file system (the server is started on
one, `init_free_blocks`, file_server.cpp); requests are what the parser lets
through (`RequestAssumption`); the sizes are positive; `NoHandler`, `NoOwner`,
`NoName` and the outcome "none" stand for no handler, user, name and answer.
Of the files on `InitialDisk` the root alone, a directory, has no owner
(`OwnersAssumption`), and to each other file leads one of the paths that requests
speak of (`PathsAssumption`): nothing else is ever made by `handle_create`.  The
refinement alone uses these two.  The second makes "is empty" mean the same on
the disk, where the code looks, and to clients, who see a file by its path.
Block `Sentinel` may be on the disk: that entries in it go unseen (section 3)
breaks none of the invariants.

The safety properties hold only together.  A disk is well-formed after a write
because the handler that writes knows what it overwrites; it knows because
nobody else has written there since it read it; that is so because it holds a
lock, on the right inode; and the inode is the right one because the path to it
has not been changed, which a disk that is not a tree would not ensure.
`IInv` has a part for each of these:

- `InOrder`: `WellFormed` with the used entries of directories as slots, and
  injectivity where `WellFormed` counts.  `InOrderIfUnshared` and
  `UnsharedIfInOrder` show that they are the same.
- `HandlerOK`, by label: what `traverse_dir` has resolved and where it is
  (`PathOK`), that the copies of inodes and of entries in a handler's locals are
  on the disk (`CopyOK`), that the name to be created is not in the directory
  and the place for it unused (`CreateOK`), that the entry to be deleted is the
  only one in its block if the block is to be removed (`DeleteOK`), that the
  block of a file is one of its blocks, or new (`DataOK`).
- `LockInv`: `readers` and `writer` are exactly what the labels of the handlers
  say (`SharedBy`, `OwnedBy`), and nobody reads what somebody writes.
- `BlockInv`: the tree, `free_blocks` and what is in the hands of each handler
  (`InFlight`) are disjoint and together all blocks.  `BlockAccounting` follows
  by counting.

TLC agreed to `IInv` on the instances of `file_server_directories` and
`file_server_files` before it was proved.  The proof has three layers.

*The tree.*  `TreeInodes` is a recursive function over the depth, so what is in
the tree is known by its least fixed point: `TreeLeast` and `TreeClosed` are
shown from the existence of the levels (`RecursionExists`), and
`ResolveStep` shows the same of paths.  From them follow three facts about
two disks that differ in one directory: nothing in the tree changes
(`KeepTree`), an entry is added (`GrowTree`), or one is removed (`DropTree`).
Then the tree of the second disk is in order, its blocks are known, and every
path that avoids the removed inode leads to where it did (`Apart`, `PathKept`).

*The handlers.*  `LocksExclude` and `WritesApart` show that a block that a
handler may write is neither read nor carried by another, and
`OthersUndisturbed` that `HandlerOK` of all others is kept.  `QuietMoves` and
`WritingMoves` reduce a step to what it does itself: the new label says the
truth, locks are taken or released as it says, no block changes places unseen.

*The actions.*  One lemma for each, `...Kept`.  Those that write the disk show
which of the three changes of the tree it is: a new inode is written first into a
block outside the tree, then linked by one write (`LinkInPlace`,
`LinkInNewBlock`); a delete unlinks by one write (`UnlinkInPlace`,
`UnlinkWithBlock`); this is why a crash between any two writes loses blocks at
most, and `Crash` starts again from a disk in order.

`HeldIsStable` then says of the steps what `WritesApart` says of states.

`HandlersNeverDeadlock` is the safety part of `EveryRequestAnswered`: while
requests are being served, a handler asks for no lock, or for one that nobody
has.  Otherwise each inode asked for would be held by a handler that asks for one
of its children, and a set of inodes each of which has a child in the set does
not exist in a finite tree (`NoCircle`): it would contain all parents as well, but
not the root.  Nothing is said of the order in which locks are granted.

`free_block_lock` has no part in such a circle, although it is taken under the
locks of inodes: by `create` and `delete` with their directory, and in `delete`
also the child, locked exclusively, by `write` with its file
(file_server.cpp:204, 213, 224, 326, 452).  It is always the last: what is done
under it only takes blocks from the free list or returns them, and is one step
of the model.  `LocksFollowTheTree` names at each of these places, and at those
where no inode's lock may be held (lines 179, 190, 336), exactly what is held.

*The refinement.*  The tree of `FileSystem` is what `TreeOf` reads from the disk.
A request takes effect in one `disk_writeblock`: the one that links what `create`
makes, that unlinks what `delete` removes, or that makes the data of a `write`
part of its file (the data block itself, or the inode if the file grows).  That
`FileSystem` allows it then follows from what the handler has checked before,
perhaps many steps of other handlers ago.  `ServedInv` keeps this, beside `IInv`:

- `Checked`: the directories that the handler has passed are its user's
  (`Passes`), its file is of the right type and owner, the block is one of the
  file's, and the data to be linked is in it;
- `OwnersKnown` and `PathsKnown`: the assumptions about `InitialDisk` stay true.

Others leave it true because no write changes the type or the owner of a file
(`SameFiles`), and what it takes out of the tree is apart from the path the
handler has resolved and from the blocks it holds (`PassesKept`, `CheckedKept`).

The effect is right because exactly one path leads to an inode of the tree
(`OnePath`).  So a write changes the node at one path (`TreeMade`, `TreeRemoved`,
`TreeRewritten`) and no other (`OtherNodes`); a new inode or block is written
outside the tree, where no path leads (`OutsideServed`).  A read returns the
block of its file because it holds the file's lock.  A refusal has its reason in
the tree: for each check of the code there is a lemma that the tree
fails the same (`DirChecked`, `NotAllowed`, `NotEmptyWithSlots`).  One lemma for
each action, `...Served`, shows that it is a step of `FileSystem` or none, and
that it keeps `ServedInv`; TLC agreed to that on the instances of
`file_server_directories` and `file_server_files` before it was proved.

### Connections
Assumed: streams are sequences, of anything (`StreamsAssumption`), so the theorems
hold whatever clients send; users and the names of a path are text without the
characters that separate them (`RequestAssumption`), which is what a client must
mean by them; the sizes are natural numbers and a block is not empty.

`WholeBlocks` holds because `recv` is asked for the rest of the block, so
`recvd` stays within it (`BlockType`); only a request that is not a write goes
on without the loop, which is what the checks of its type ensure
(`OnlyWritesTakeData`); and the loop is left before the block is complete only
behind a client that has ended.

`OnlyLegalRequests` and `RequestsUnderstood` compare the parser with `Legal` and
`Encoded`, for texts of any length.  `ReadInv` reduces this to one header: what a
connection has read is the beginning of its stream up to the first NUL, and the
request is what the parser makes of it.  Two
facts about a single header remain:

- `AcceptedLegal`: a header that passes all checks of the code is a legal request;
- `LegalAccepted`: the line of a legal request passes them, and is taken apart
  into the user, path, names and argument it was put together from.

The parser is defined by positions and not by recursion: the pieces between
separators (`getline`) and the words between spaces (`operator>>`) are cut at the
n-th smallest of a set of positions.  That the smallest, the next and so on exist
and are the expected ones (`Nth`, `Pieces`, `Words`) is shown from `LeastNatural`.

### Disk scheduler
Assumed: at least one requester, a queue of at least one, no empty file.
`FullMeansFull` is not inductive: that `disk_queue_full` is exact after a
request has been served depends on what `requester_done` says of the others.
The invariant adds `DoneInv` (the three values of `requester_done`),
`DistinctInv` (a requester has one request in the queue at most), `CountInv`
(`requester_num` counts the requesters that are left, and the server looks at
the queue only while there are some) and `OrderInv`, from which `FilesInOrder`
follows: what was served, what is in the queue and what is still to be posted
are, in this order, the file.  That the nearest request exists
(`NearestExists`) needs the least element of a set of numbers, which is proved
from the library's well-foundedness of `<` (`LeastNatural`).

`NeverAllWait` is the safety part of `Terminates`: as long as not all is done, a
thread can run.  `WakeInv` says that whoever sleeps has a reason to: the queue is
not full, or the requester must wait.  If all slept, every requester that is left
would have its request in the queue (`EveryoneQueued`), which would then be as
full as it can get, and the server would have no reason.

### Pager
Assumed: at least two physical pages, at least one page to an arena, `Zero` is
a value that ends a name, `NoPid` and `Shell` are not managed processes, `Files`
are pairs, `InitialBacking` holds values for the swap file and the files.

The properties of the pager hold only together, so there is one invariant,
`IInv`: the clock evicts a page correctly because every PTE that shows it is in
`peer_map` (`PeersOK`); a PTE is right (`ProtectionOK`) because the queues and
`peer_in_phys` agree (`PartOK`, `PagesOK`); a process that ends frees the right
physical pages because no swap block has two owners (`SwapOK`); and a swap block
may be given out again because what is left of its former page shows the pinned
page at most (`FreeSwapOK`).  `CallInv` says what is known in the middle of an
access and of a name.  Beyond `PagesPartitioned` and the others it says, for
example, that a page that is not resident has no enabled PTE anywhere, which is
why eviction need not look for them.  TLC agreed to the parts of `IInv` on the
instances of `pager_sharing` and `pager_fork` before they were proved.

A fault is followed in two halves.  `MemorySwept` and `TablesSwept` show that
what the clock leaves (`...AfterSweep`) satisfies the invariant by itself, with
one physical page free; `MappedEntries` and `ReadFault` show what reading a page
into it and `set_peer` make of that.  For this the parts of the invariant take
the state they speak of as arguments.  The loops over pages and queues in
`vm_destroy` are `KeptIn`, a recursive function whose properties
(`KeptProperties`) are shown by induction through `LeastNatural`.

`SwapConserved` needs that no process with pages forks: after such a fork
`num_swap_blocks` falls short of the free blocks for ever, which is what
`pager_fork_reservation` shows.  What remains true then is `SwapBlocksOwned`.

`PagerImplementsAddressSpace` rests on `ContentsKept`: a fault, with all its
evicting, writing back, reading in and copying, leaves `Contents` of every page
of a file or a process as it was, because a clean page is the same on disk
(`DirtyOK`) and a page found for another is shown by no PTE.  A store changes
the contents of one page (`StoreContents`) because the pages in the clock are
distinct.  Two more facts are needed, `ContentInv`: the pinned page still holds
zeroes, since no PTE lets a process write to it; and the parts of a file name
that have been read are what their pages hold, even if these have been evicted
while the rest was read.  `MapPrivate` of `AddressSpace` requires that there
are fewer private pages than swap blocks; the pager tests its counter instead,
and `RoomForOneMore` shows that this suffices, as private pages map injectively
to swap blocks that are not free.

### Only model-checked
- Liveness (`EndsAsWritten`, `LockServed`, `CpuServed`, `EveryRequestAnswered`,
  `Terminates`, `EveryConnectionClosed`): the provers do not reason about
  fairness and ENABLED.  What they need of safety is proved: `WaitsHaveCause`,
  `NoThreadLost` and `AlwaysPreemptible` of the thread library,
  `HandlersNeverDeadlock` of the file server and `NeverAllWait` of the disk
  scheduler.

## 5. Not modelled

- Project1's thread library and the client library and disk of Project4 are
  binaries; their headers declare what the sources use of them.
- `test6` of Project2 uses thread objects on the stack of a function that may
  have returned; what it does then is not determined by its text.  The tests of
  Project3 and Project4 are inputs: the processes of `Pager` and the clients of
  `FileServer` may do what they do, in any order.
- Exhaustion of memory (an exception out of a queue's `push` leaves interrupts
  disabled, mutex.cpp:23), several CPUs, empty files in Project1, and the
  immediate reuse of a pid in Project3 (`MayCreate`).
- What the code permits, and no property forbids: an upload that ends early is
  written all the same (file_server.cpp:464; `Junk`, and the exception in
  `WholeBlocks`), and a failing `recv` ends the server (lines 410 and 517;
  `Crash`, `Terminate`).  What is checked is that such an end leaves the disk in
  order and each request done or not done, and that nothing passes for a request
  that is not one.
- The contents of a page or block are one value, and addresses are page numbers.

## 6. Plan

Done: the thread library with its monitors and programs; the file server with
its abstract file system and its connections; the disk scheduler; the pager with
its abstract address spaces; proofs of all their safety invariants and action
properties, of the refinements of the thread library, the file server and the
pager, and that the locks of the file server and the waits of the disk scheduler
never deadlock.

Next, in this order:

1. FileServer: an instance with a deeper tree.
2. Pager: the end of a process that is killed by a failed fault as a step of its
   own, with the liveness of accesses.
