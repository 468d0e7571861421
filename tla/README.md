# A TLA+ development for Nachos

The repository is a student's copy of Nachos in C++ (`src/try/code`): a
teaching kernel that runs on a simulated uniprocessor with a simulated clock,
interrupts, disk, console and network.  The course work added thread ids and a
thread table, priorities, `Suspend`, `Resume` and `Join`, locks and conditions,
a barrier, a reader-writer lock, a two-level file header and a TLB with
replacement.

The development models the kernel and the simulated machine: threads,
synchronization, interrupts and devices, mail between machines, the file system
with crashes, and user programs on the MIPS simulator with its TLB.  TLC checks
it, and TLAPS proves, for any number of threads, machines and elements, most of the
safety properties of the synchronization primitives, of the monitors and tests built
on them, of the devices, the interrupts and the scheduler, and that the pointers of
`List` implement a sequence.
All paths below are relative to `src/try/code`.

## 1. The system

### Parts, state and operations

| Part | State | Operations |
|---|---|---|
| `List` (threads/list.cc) | first, last, elements with item, key, next | Append, Prepend, SortedInsert, Remove, SortedRemove, Mapcar |
| `Thread` (threads/thread.cc) | status, priority, threadID, joinList, level | constructor, destructor, Fork, Yield, Sleep, Finish, Join, Suspend, Resume |
| `Scheduler` (threads/scheduler.cc) | ready lists, suspendedList, policy | ReadyToRun, FindNextToRun, Run, Suspend, Resume, ShouldISwitch, SetSchedPolicy |
| Globals (threads/system.cc) | currentThread, threadToBeDestroyed, tid, threadPort, threadnum | Initialize, ThreadStatus |
| `Semaphore`, `Lock`, `Condition` (threads/synch.cc) | value and queue; holder; waitCondQueue and the lock of its first waiter | P, V; Acquire, Release; Wait, Signal, Broadcast |
| `RWLock` (threads/synch.cc) | activeReaders, pendingReaders, pendingWriters | readlock, writelock, unlock |
| `Barrier` (threads/synch.cc) | remaining, processFunction | enterBarrier |
| `SynchList` (threads/synchlist.cc) | a List, a lock, a condition | Append, Remove, Mapcar |
| `Interrupt` (machine/interrupt.cc) | level, pending, yieldOnReturn, status, clock | SetLevel, OneTick, CheckIfDue, Idle, Halt, Schedule, YieldOnReturn |
| `Timer` (machine/timer.cc) | its next interrupt | TimerExpired |
| `Disk` (machine/disk.cc) | active, lastSector, bufferInit, the UNIX file | ReadRequest, WriteRequest, HandleInterrupt, ComputeLatency, UpdateLast |
| `SynchDisk` (filesys/synchdisk.cc) | a semaphore, a lock | ReadSector, WriteSector, RequestDone |
| `Console` and its test (machine/console.cc, userprog/progtest.cc) | putBusy, incoming | PutChar, GetChar, the polling and completion handlers |
| `Network` (machine/network.cc) | sendBusy, packetAvail, inbox | Send, Receive, CheckPktAvail, SendDone |
| `PostOffice` (network/post.cc) | mailboxes, messageAvailable, messageSent, sendLock | Send, Receive, PostalDelivery |
| `BitMap` (userprog/bitmap.cc) | bits | Mark, Clear, Test, Find, NumClear, FetchFrom, WriteBack |
| `FileHeader` (filesys/filehdr.cc) | numBytes, numSectors, direct and indirect sectors | Allocate, Deallocate, FetchFrom, WriteBack, ByteToSector |
| `OpenFile` (filesys/openfile.cc) | a copy of the header, seekPosition | ReadAt, WriteAt, Seek |
| `Directory` (filesys/directory.cc) | ten entries | Find, Add, Remove, FetchFrom, WriteBack |
| `FileSystem` (filesys/filesys.cc) | the open free-map and directory files | constructor, Create, Open, Remove |
| Machine (machine/machine.cc, mipssim.cc, translate.cc) | registers, memory, TLB or page table | Run, OneInstruction, Translate, ReadMem, WriteMem |
| `AddrSpace`, exceptions (userprog/) | page table | load, SaveState, RestoreState, page-fault handling |

### How the parts interact

- A kernel routine makes itself atomic by `SetLevel(IntOff)`.  Turning
  interrupts on again calls `OneTick`, which moves the clock, fires what is due
  and may `Yield`.  So a time slice can come at each `SetLevel(IntOn)` (or
  restore to `IntOn`) and at each user instruction, and nowhere else.
- Devices schedule their completion with `Interrupt::Schedule`; the handlers run
  with interrupts off on no thread's behalf and wake threads with `Semaphore::V`.
- `Thread::Sleep` asks the scheduler for the next thread, and calls
  `Interrupt::Idle` while there is none; `Idle` jumps the clock to the next
  interrupt or halts the machine.
- `Lock` is a semaphore and a holder; `Condition` uses the lock; `RWLock`,
  `Barrier`, `SynchList`, `SynchDisk` and `PostOffice` are monitors over them.
- The file system reaches the disk only through `SynchDisk`.
- A user instruction reaches memory through `Translate`.  A TLB miss enters the
  kernel in the middle of the instruction; the handler fills the TLB, possibly
  after replacing a page table entry, and the instruction goes on.

### What is hard here

- *Interleaving*: woken threads compete with threads that were never asleep
  (Mesa semantics in P, Wait and everything above); yields nest inside `OneTick`.
- *Ordering and timing*: completion interrupts may come before, during or after
  the P that waits for them; several interrupts can be due at one tick.
- *Lifetime*: a finished thread is destroyed later, by another thread, through
  one global pointer; ids and table slots are reused.
- *Liveness*: everybody waits for a signal that exactly one leaving thread
  sends; the machine has to notice that nothing is left to do.
- *Crashes*: the file system writes header, directory and free map in separate
  sectors, and Nachos may stop between any two writes.
- *Loss*: the network drops packets on purpose, and nothing above it repeats one.
- *Stale copies*: TLB entries outlive the page table entries they were copied
  from; an open file has its own copy of its header.
- *Boundaries*: list ends and equal keys, counters that go below zero, sector
  and rotation boundaries, unaligned reads and writes, full tables and disks, the
  largest and smallest words, one-entry device buffers.

`PROJECT.json` lists every hazard at its line with the properties that watch it.

### What makes each part correct

| Part | Correctness | Stated as |
|---|---|---|
| Semaphores, locks, conditions | locks exclude; sleepers are exactly the queued threads; no wake-up is lost | MutualExclusion, HolderAgrees, BlockedIffQueued, NoLostWakeup |
| RWLock | is a reader-writer lock; nobody is stranded | RefinesRWLock, CountersExact, NoStrandedWaiter, Termination |
| Barrier | opens for the right number of threads, once, and for all | OpensOnce, Termination |
| SynchList | a FIFO; no remover sleeps through an item | RefinesFifo, NoStrandedRemover, Termination |
| Producers and consumers | a bounded buffer; all that is produced is consumed | RefinesBuffer, Termination |
| Disk, SynchDisk | one request at a time; each thread waits for its own interrupt; a request ends when its sector has passed; the track buffer holds what is read from it | RequestAccepted, OwnInterrupt, EndsAtSector, BufferHolds, Completion |
| Console | everything typed is echoed once, in order; the device is not asked while busy | EchoExact, RequestAccepted, OwnInterrupt, Completion |
| Network and PostOffice | mail is delivered once and in order, or lost by the network only; an acknowledgement is one | MailConserved, AckMeansReceived, OwnInterrupt, Completion |
| List | the pointers implement a sequence | WellLinked, RefinesList |
| Threads and scheduler | each thread is where its status says; destroyed threads are not used; ids are unique; ready threads run; priorities are respected | PlacedByStatus, NoDangling, IDsUnique, ReadyRuns, PriorityOrder, ForkPreempts |
| Interrupts and clock | nothing fires late or is lost; the mode belongs to the running thread; the machine halts exactly when all is done | NoMissedInterrupt, ModeOfThread, YieldFlagLocal, IOCompletes, HaltsWhenDone, Halts |
| BitMap, FileHeader, Directory, OpenFile, FileSystem | no sector has two uses; the free map is exact; files read as written; a crash harms only the file being changed | SectorsDisjoint, MapExact, ContentsKept |
| Machine, translation, AddrSpace | a program cannot tell the simulator from the processor it simulates, whatever the TLB and the page table go through | RegistersExact, MemoryExact, TlbCoherent |

## 2. Modules

```
NachosList ---- ListSpec <== ListImpl            (<== : is shown to implement)
     |
     +--- Scheduler
     +--- Interrupt

Synch --+-- SynchClient --- SynchProofs
        |
        +-- RWLock        ==> RWLockSpec  --+
        +-- Barrier                         +-- SynchTests
        +-- SynchList     ==> FifoSpec      |
        +-- BoundedBuffer ==> BufferSpec  --+
        |
        +-- SynchDisk  --+
        +-- Console      +-- Devices
        +-- PostOffice   |
            DiskLatency--+

FileHeader --- FileSystem

Mips --- MipsManual --+-- Machine
         Translation--+
```

Proofs are in modules of their own.  `SynchProofs`, `SynchTestsProofs`,
`DevicesProofs`, `InterruptProofs`, `SchedulerProofs`, `ListImplProofs` and
`FileSystemProofs` extend the module they are named after (`SynchProofs` extends
SynchClient).  `ListTheorems` holds the lemmas they share: about sequences, wait queues
and counting, and about NachosList's operators.

Each `MC...` module gives the constants of the module it extends for TLC.
`PROJECT.json` maps every definition to its source lines.  An operator whose
name ends in an underscore and a word (`V_NoRemove`) is a *mutant*: a plausible
mistake in the definition that follows it, used to confirm that the property it
is listed with would notice.

### The grain of an action

An action is a stretch of code that nothing can interrupt: from one point where
interrupts come back on (or the thread sleeps) to the next.  Everything such a
stretch changes is in the action.

- **Synch** - one operator per atomic section of synch.cc.  `P` is one turn of
  the `while` loop: sleep, or take a unit.  A thread that has slept has its
  semaphore in `pending` and goes round the loop again in `Resume`; for
  `Condition::Wait` what is pending is the lock, because `Wait` ends in
  `Acquire`.  The `ASSERT`s of the code are guards; RequestAccepted says that the
  devices' are met whenever the code gets there, and deadlock checking would
  report a thread stuck at one of the others.
- **SynchClient** - the most general client: any call that the assertions allow,
  in any order, by any thread, and `V` by handlers.  `held` is what the client
  believes, from the returns of its calls.
- **RWLock, Barrier, SynchList, BoundedBuffer** - the monitors and semaphore
  protocols with the threads of `synchtest.cc` (or plain callers) around them.
  `pc` says where in the monitor a thread is; when `pending` is set it is still
  inside a `Lock` or `Condition` call.  **SynchTests** composes them the way
  `ThreadTest` does: the first state picks one test, the variables of the others
  rest.
- **SynchDisk, Console, PostOffice** - a device, the handlers of its interrupts
  and the threads that wait for it.  Interrupts come at any time after they were
  scheduled.  PostOffice has several machines, each with its own device, postal
  worker and clients; mailboxes are SynchLists.  The network loses a packet before
  it reaches the socket, as the code does.  **Devices** composes them with
  **DiskLatency**, the arithmetic of `TimeToSeek`, `ModuloDiff`, `ComputeLatency`
  and `UpdateLast` over a running clock; the first state picks what this run of
  Nachos does, as `main` does from the command line.
- **NachosList** - what the List operations do to a sequence of (item, key).
  **ListImpl** - the pointer code, with a heap of elements; **ListSpec** - a list
  that is changed by NachosList's operators only.  `call`, a history variable, is the
  operation last called with its arguments, so that each operation has to implement its
  own operator and not just some operator.
- **Scheduler** - threads and scheduler.  A thread's operation is one action
  including the context switch it ends in: `Run` assigns `currentThread` and the
  statuses and, if the next thread has run before and so returns from SWITCH,
  destroys the finished one.  `threadnum`, `tid` and `threadPort` are kept as the
  code keeps them, mistakes included.  A `Thread*` that the code reads
  uninitialised is a choice from `Uninit`.
- **Interrupt** - `OneTick` is split at each interrupt it fires, because the
  handlers act in between, and at its `Yield`.  The code only ever compares an
  interrupt's time with the clock, so the model keeps the difference: the clock
  needs no bound.  Which ready thread runs next is left open.
- **FileHeader** - pure operators: what `Find`, `Allocate`, `Deallocate`,
  `ByteToSector`, `WriteBack` and `FetchFrom` compute.  **FileSystem** - each call
  computes the sector writes the code makes, in order, and leaves them in `todo`;
  `WriteSector` does one at a time and `Crash` may come between any two.  A new
  object or buffer that the code does not initialise holds a value from `Leftover`
  or `Pad`.  `files`, `before` and `born` are history: what each file should hold.
  A directory entry takes 136 bytes and a sector 128, but the fields in use of
  entry i lie in sector i of the directory file, so the model has one entry per
  sector.
- **Mips** - the arithmetic of each instruction on words of `4 * ByteBits` bits.
  **Translation** - TLB, page table and their replacement.  **Machine** - one action
  per instruction, `OneInstruction` with fetch, the TLB misses and page faults it
  runs into, and `DelayedLoad`.  **MipsManual** is the reference: the little-endian
  processor of the manual, with a flat memory and no load delay.  It fetches by its own
  program counter, takes the instruction's fields and not what `Decode` made of them, and
  defines sums, comparisons, shifts, branches, loads and stores bit by bit; of Mips it
  uses only the size of a word and the names of the operations.  `ref` runs it in step.

## 3. Runs

| Run | Question | Instance | Distinct states |
|---|---|---|---|
| synch | do the primitives keep their promises to any client? | 3 threads, 1 semaphore, 2 locks, 2 conditions, value <= 2 | 4 917 (up to symmetry) |
| synchtests | do the tests' locks, barriers, lists and buffers implement what they are for, and does every test end? | 2 readers, 2 writers, 2 rounds; 4 threads at a barrier for 3; 2 appenders and 2 removers with 2 calls, 1 Mapcar; 2 producers, 2 consumers, buffer for 2 | 429 487 |
| devices | are requests, interrupts and threads paired correctly; is nothing lost that must not be; are latencies right? | 3 threads on a sector, 2 calls; 3 inputs to the console; 2 mail clients, apart or on one machine, with and without loss; 3 tracks of 3 sectors, 40 ticks | 318 004 |
| list | do the pointers implement the sequence? | up to 4 elements, keys -1..1, 2 items | 14 898 (up to symmetry) |
| sched | are threads, lists and ids consistent; does a ready thread run; is priority respected? | 4 threads, 3 ids, round robin and preemptive priorities | 398 955 |
| interrupt | do interrupts, modes and halting fit together? | 2 threads, a timer, a polling device | 14 889 |
| filesys | do files keep their contents and sectors, with crashes? | 2 names, 16 sectors of 2 bytes, files of 3, 5 and 9 bytes | 208 734 (up to symmetry) |
| machine | does a program see the processor it was compiled for? | 15 132 programs, words of 8 bits, 3 frames, TLB of 2 | 111 535 |
| sched_join | does `Join` return? (it does not) | 3 threads | |
| sched_destroy | is a finished thread destroyed? (not always) | 3 threads | |
| filesys_open | does an open file find its sectors? (not with an index) | as filesys | |
| machine_or | is every instruction as in the manual? (OR is not) | the computing programs of machine, without SRL and SRLV | |

What the passing runs show, beyond their names:

- **synch**: `V` both raises the value and wakes a thread, and a third thread can
  take the unit first.  NoLostWakeup is the reason this is right: while anybody
  queues, there are at least as many woken threads on their way as units.
- **synchtests**: RWLock refines RWLockSpec (readers together or one writer alone)
  with the mapping "the threads between the return of readlock or writelock and
  the assignment in unlock".  `unlock` decides from the sign of `activeReaders`
  whether a reader or a writer leaves: CountersExact is why that is right.  The
  barrier's `remaining` counts on below zero for late threads, and threads that
  come out of `Wait` broadcast again; neither opens it early, and the report is
  made once (OpensOnce).  A signalled remover may find its item taken and sleeps
  again; NoStrandedRemover says that no signal is lost that way.  SemTest and
  CondTest refine the same bounded buffer.  Their consumers ask for more than is
  produced: the test is over when all is consumed and they sleep.
- **devices**: a semaphore does not know whose interrupt it counts; OwnInterrupt
  follows from holding the lock until the interrupt, for disk and network.  The
  device buffers hold one character and one packet; a poll leaves them alone
  while they are full (EchoExact, MailConserved).  With loss MailTest may hang,
  but never takes an acknowledgement for another's, as long as each client has a
  machine of its own; two clients on one machine share its mailboxes, and may take
  each other's mail.
- **sched** includes `Fork` with no free id, and under round robin `Suspend` and
  `Resume` of ready and of other threads, and `Join`.  Under priorities the
  instance has nobody suspended and thread ids up to 3; section 6 says what
  happens otherwise.
- **interrupt** starts with every subset of {timer, polling device} switched on.
  A timer that fires while the machine idles leaves no yield behind
  (YieldFlagLocal), the mode is right after nested yields (ModeOfThread), and
  with one timer the machine halts when all threads are done.
- **filesys**: all three properties are invariants, so they hold on the disk that
  a crash leaves.  Create writes the directory after the header and the map last:
  a crash leaves sectors in use that the map says are free, but only ones of the
  new file.  Remove writes the map first, with the same effect.  ContentsKept
  compares every file, at every position and length, with what the operations
  should have made of it.  The client stays off the indexed part of files
  (`IndexedUse` FALSE), which section 6 is about; creating and formatting use the
  indices fully, and SectorsDisjoint looks through them.
- **machine**: a TLB miss calls `RaiseException`, which finishes a pending load
  before its time.  A program that follows the load-delay rule (the next
  instruction does not name the register) cannot tell.  The page replacement gives
  a page the frame with its own number, so an entry left in the TLB stays right,
  and when its page comes back it is found there and not entered twice
  (TlbCoherent).  RegistersExact and MemoryExact leave out, by name, programs with an
  instruction that is not as in the manual (`NotAsManual`: OR, SRL, SRLV, LWL, LWR, SWL,
  SWR; section 6); for these the run only says that the TLB stays coherent.

### Bounds, and why they are enough

- *Threads*: the arguments about queues involve a sleeper, the thread that wakes
  it and one that barges in: three.  RWLock has two of each kind so that readers
  overlap and writers compete; Barrier has one thread more than its number, so
  that `remaining` goes below zero.
- *Calls per thread* (`Rounds`, `Calls`, `Loops`) are two or three, so that a
  thread comes back while others still wait from the round before.
- *MaxValue* (2) bounds only the semaphore value a client may V up to: two units
  with one woken thread is the case where wake-ups can get lost.
- *MAX_PRIORITY* is 2 instead of 20 and *NORM_PRIORITY* half of it, as in the
  code; *MaxThreadNum* is 3 instead of 128, less than the number of threads, so
  that the table fills and `Fork` fails.  *PriorityBound* (0..2) stops `Yield`
  from moving priorities without end; it is a bound of the run, thread.cc:260 has none.
- *Ticks and delays* (SystemTick 2, UserTick 1, TimerDelay {2,3}, IODelay {1,3},
  PollDelay 3) are scaled down so that one tick can make several interrupts due,
  in either order, or none.
- *Disk geometry*: the smallest in which first, middle and last sectors and tracks
  differ and a seek is not a multiple of the rotation.  *MaxTicks* is more than
  two full turns plus the longest seek.
- *Mail*: two clients, each on its own machine or both on one that writes to
  itself, so that senders compete for one device and mails for one box.
- *List*: four elements give front, middle (two places) and back; keys lie below,
  at and above the key 0 that Append and Prepend use.
- *Files*: NumDirect and L1_INDEX_NUM are 2 (30 and 32 in the code), so that the
  three sizes have direct sectors only, one index, and two levels.  16 sectors are
  too few for two large files: Create fails, and with two levels also runs out
  half way.  Positions and lengths are not multiples of SectorSize (2), and the
  last sector of each file is half used.
- *Programs*: bytes of two bits give words of eight, in which every carry, sign and
  shift case of a 32-bit word occurs.  One family has each computing instruction
  on pairs of boundary values; one each branch, forward and backward, and each call with
  its delay slot; one each load of a stored boundary value; and one all sequences of
  four out of eleven loads, stores and additions on two data pages, which with the text
  page are one more than the TLB holds; one data page lies beyond the page table or
  beyond memory.  Sequences of two also have LWL, LWR, SWL and SWR.  Programs do not
  overwrite their text.
- Names, addresses, threads, locks and conditions are interchangeable where
  `filesys`, `list` and `synch` use symmetry; none of these checks liveness.

Deadlock is checked except where the system may stop: in SynchClient all threads
may legitimately sleep; in Scheduler the instance runs out of new threads and of
threads to wake; in Devices the clock stops at its bound, a machine that has
halted does nothing more and one whose packet was lost waits; in FileSystem a disk
on which an operation was cut short is only looked at; in Machine a program ends.
The other specifications have a step that stutters when everything has finished,
so that a deadlock is a real one.

### Fairness

- SynchTests: `WF(Step)`.  Some thread makes a step whenever one can.  That is what
  `Thread::Sleep` gives: it runs the next ready thread, and the processor is idle
  only if there is none.  No fairness between threads is assumed.
- Devices: the same for each machine's processor, and `WF` of its interrupts: a
  scheduled interrupt fires, because the clock only goes forward and `Idle` jumps
  to it if nothing else runs.  The run `interrupt` checks exactly this
  (IOCompletes).  Nothing is assumed about the network: Completion is claimed when
  it loses nothing.
- Scheduler: `WF(Idle)`, a loop in the code, and `WF(Yield)`, because the timer
  that comes with round robin asks for a yield at each of its interrupts.
- Interrupt: `WF(Step)`.  The simulator is one sequential program.

## 4. Proofs

Everything below holds for *any* sets of threads, locks, machines, list elements and
so on that meet the named assumptions, not only for the instances of section 3.
TLC evaluates every assumption in a run of the module that states it.

| Module | Theorem | Statement |
|---|---|---|
| SynchProofs | Typing | `Spec => []TypeOK` |
| | HolderCorrect | `Spec => []HolderAgrees` |
| | Mutex | `Spec => []MutualExclusion` |
| | QueuesExact | `Spec => []BlockedIffQueued` |
| | WakeupsSuffice | `Spec => []NoLostWakeup` |
| SynchTestsProofs | RWCountersExact | `Spec => []CountersExact` |
| | RWNoStrandedWaiter | `Spec => []NoStrandedWaiter` |
| | RWRefinement | `Spec => RefinesRWLock` |
| | BarrierOpensOnce | `Spec => []OpensOnce` |
| | ListNoStrandedRemover | `Spec => []NoStrandedRemover` |
| | ListRefinement | `Spec => RefinesFifo` |
| | BufferRefinement | `Spec => RefinesBuffer` |
| DevicesProofs | DevicesAccept | `Spec => []RequestAccepted` |
| | DevicesAnswer | `Spec => []OwnInterrupt` |
| | ConsoleEchoes | `Spec => []EchoExact` |
| | NetworkConserves | `Spec => []MailConserved` |
| | AckReceived | `Spec => []AckMeansReceived` |
| | DiskEndsAtSector | `Spec => []EndsAtSector` |
| | TrackBufferHolds | `Spec => []BufferHolds` |
| InterruptProofs | InterruptsInTime | `Spec => []NoMissedInterrupt` |
| | ModeFollowsThread | `Spec => []ModeOfThread` |
| | YieldStaysLocal | `Spec => []YieldFlagLocal` |
| | HaltIsFinal | `Spec => []HaltsWhenDone` |
| SchedulerProofs | ThreadsPlaced | `Spec => []PlacedByStatus`, if `Uninit \cap Thread = {}` |
| | NothingDangles | `Spec => []NoDangling`, likewise |
| | ThreadIDs | `Spec => []IDsUnique`, likewise |
| | ReadyListOrdered | `Spec => []PriorityOrder`, likewise and if `NoneSuspended` |
| | ForkTakesProcessor | `Spec /\ []LowIDs => ForkPreempts`, likewise and if `NoneSuspended` |
| ListImplProofs | ListWellLinked | `Spec => []WellLinked` |
| | ListImplements | `Spec => RefinesList` |
| FileSystemProofs | FileSystemInvariant | `Spec => []FSInv`, if `DirectFiles` and `ClosesFirst` |
| | NoSectorTwice | `Spec => []SectorsDisjoint`, likewise |
| | FreeMapExact | `Spec => []MapExact`, likewise |
| | FilesRead | `Spec => []ContentsKept`, likewise |

### Assumptions on the constants

- `SynchAssumption`, `MaxValueAssumption`: locks are semaphores with initial value 1,
  other initial values are natural numbers, NULL is no thread and no semaphore, the
  set of threads is finite.
- `SynchTestsAssumption`, `ObjectsDistinct`, `DevicesAssumption`, `DeviceObjects`,
  `InterruptAssumption`, `InterruptObjects`: objects that the code allocates
  separately are different, NULL is none of them, sets of threads are finite, times
  are positive.
- `SchedulerAssumption`, `ListAssumption`: likewise; priorities and keys are
  integers, a machine has finitely many threads and list elements.
- `MailTestPairs`: MailTest runs in pairs of copies that write to each other, as
  nettest.cc:5-8 says to start it, or on one machine that writes to itself.  With a third
  machine that writes to one of a pair, its packets could arrive after that one halted.
- `FileHeaderAssumption`, `FileSystemAssumption`: sizes are positive, the directory needs
  no index (it has 10 entries), bytes and names are not NULL.  `FormatFits`: the disk has
  room for two headers, the map and the directory, which `FileSystem(TRUE)` asserts
  (filesys.cc:99-100).  `LongestData`: there is a longest byte sequence that the client
  writes.

Two hypotheses of the file system theorems are about the client, because the code is wrong
without them (section 6):

- `DirectFiles`: no file needs an index sector.  That is up to 30 sectors, 3840 bytes, in
  the code.  A header's index fields are cut off when it is written, so what Remove would
  free or an open file would read depends on what happened to be in memory.  The run
  `filesys` has sizes on both sides of this limit.
- `ClosesFirst`: a file is closed before it is removed.  An open file keeps its copy of the
  header and would write to sectors that belong to another file by then.  The run `filesys`
  makes the same restriction.

Three hypotheses of the scheduler theorems are about the code and not about how a
constant is chosen, so they are hypotheses of the theorems and not assumptions:

- `Uninit \cap Thread = {}`: the uninitialised local `t` of Suspend and Resume
  (threads/scheduler.cc:292), read when the list is empty, does not happen to hold the
  address of the thread looked for.  Where it does, a thread gets on a list without
  leaving the one it was on, and PlacedByStatus is false.
- `NoneSuspended`: under preemptive priorities nobody calls Suspend.  Suspend and
  Resume put what they took off back with Prepend, which gives key 0, so after that the
  ready list is not in priority order.  The run `sched` makes the same restriction.
- `LowIDs`: no thread id is above MAX_PRIORITY.  `Yield` lowers the caller's priority by
  MAX_PRIORITY - id.  The code allows ids up to 127 and MAX_PRIORITY is 20: with more
  than 21 threads a Yield *raises* a priority, and a Fork need not preempt.

### The arguments

**Synch.**  Three layers.

1. *Types.*  One step per action; `PType` does the work for P and Acquire.
2. *Mutual exclusion.*  MutualExclusion is not inductive: nothing in it connects
   what threads believe to the semaphore.  `MutexInv` adds HolderAgrees (the
   holder is the thread that believes it has the lock) and LockInv (the private
   semaphore is 1 without holder and 0 with one).  Then Acquire succeeds only
   when there is no holder, and Release gives back exactly one unit.
3. *Queues and wake-ups.*  `QueueInv` adds PendingAgrees (a thread on a
   semaphore's queue is inside that semaphore's P) to BlockedIffQueued and
   NoLostWakeup.  Lemmas `EnqueueKeeps`, `DequeueKeeps`, `SignalKeeps`,
   `BroadcastKeeps` and `WaitKeeps` say what each kind of queue change preserves,
   `WakeOne`, `WakeMore` and `PWakeup` do the counting: a `V` adds one unit and
   one woken thread, a P that succeeds removes one unit and at most one woken
   thread, and a P that goes to sleep does so at value 0.

**Reader-writer lock.**  `RWInv` is CountersExact and NoStrandedWaiter, with RWAlone (a
writer inside is alone) and RWWaiters (who is on which condition is the kind of thread
that waits there, at the place where it waits).  RWAlone is the abstract lock's own
invariant; it needs the counters because the code decides on them, and the counters need
it because `unlock` tells readers from writers by them.  The refinement maps the threads
inside to the abstract sets; the step that enters is the only one that needs `RWInv`.

**Barrier.**  `BInv` counts: remaining is the barrier's size less the number of threads
that arrived, and nobody is past it before remaining is down to 0.  `BReport` says that
the function ran once, on at least barrierNum members.

**SynchList.**  `LInv` has LOrder (what was put is what was got followed by what is on the
list) and NoStrandedRemover.  The latter is inductive with the types because a remover
reads the list and goes to sleep in one atomic section, and the Append that follows
signals.

**Bounded buffer.**  `BufUnits` is the accounting of the two semaphores: the units of
`empty`, the producers that hold one, the items, and the consumers that have taken one
and not yet given the unit back add up to N, and the same for `full`.  So the count stays
between 0 and N and each change of it is an abstract Insert or Remove.  In CondTest the
lock makes the test and the change one step.

**Devices.**  One invariant per device.  `CUnits` and `DInterrupt` say where the one unit
of an outstanding request is: with the device, in the semaphore, or taken by the thread
that waits for it; `DLock` ties the request to the holder of the lock.  For the mail,
`Departure` does this per machine for messageSent, and `Arrival` for messageAvailable;
Arrival's last conjunct is MailConserved, which is inductive only with the first (the worker
takes from the device exactly when there is something).  Frame lemmas (`ArrivalFrame`,
`DepartureFrame`) carry each machine's part over the steps of the other machines.

AckMeansReceived is about what packets say, not how many there are.  `PostInv` says that every
packet a machine has accepted is `Genuine` (a message is for the machine its client writes to;
an acknowledgement names a client of this machine, comes from the machine that client writes
to, and its sender sends nothing more), that a mailbox holds what was delivered for it, and
that a client has the message it is about to answer, or the acknowledgement it halts for.
With
MailConserved this follows a packet through socket, device, worker and mailbox in one step:
all four are parts of `accepted`.  A machine halts only with its client done, and a client is
done only with its peer's acknowledgement, the last packet the peer sends, so nobody sends to
a halted machine.

For the disk, `LatencyInv` adds to EndsAtSector and BufferHolds that bufferInit, the time from
which the track buffer counts, is a multiple of RotationTime (`Timing`).  The SMT solver does
not decide quotients of products, so lemmas give them first: every time is
k * RotationTime + r with 0 <= r < RotationTime (`AfterSeek`), after which a request's end is
so many whole sectors later and only sums of the k's remain.

**Interrupts.**  `IInv` adds to the four properties Control (who is running, ready, idle,
and what OneTick and Idle were about to do), SavedModes (a thread that was switched out
inside OneTick has saved the mode it was interrupted in) and Requests (a sleeping thread
has a pending interrupt).  ModeOfThread needs SavedModes, since the mode is restored from a
local variable of another activation of OneTick; HaltsWhenDone needs Requests, since Idle
halts when nothing is pending.

**Scheduler.**  `Core` says that the ready list and the suspended list hold exactly the
threads with that status, once each (`Placed`), that exactly one thread runs unless the
machine idles, that `threadToBeDestroyed` names a finished thread or nobody, and that the
table has exactly the ids in use.  The four safety properties are parts of it.
`Ordered` adds that each element's key is MAX_PRIORITY less its thread's priority.  For
ForkPreempts, the first element of a list sorted by these keys is as urgent as the new thread.

**List.**  `HasChain`: there is a sequence of distinct addresses that starts at `first`, ends
at `last`, follows `next`, and is all of the heap.  WellLinked and the refinement mapping
both compute that sequence by walking from `first` (`Chain`, a recursive function);
`ChainLinked` shows that the walk returns it, and PutAtUnique that an insertion by
pointers at a place is the abstract operator's insertion.  With HasChain, each pointer
operation is shown to leave the sequence that the abstract one computes.

**File system.**  None of the three properties is inductive, or even meaningful by itself in
the middle of an operation: what the next WriteSector does depends on `todo`.  `FSInv` says
what the disk and `todo` are together.  `SystemOK`, `FilesOK` and `OpenOK` hold after
formatting throughout: the map and the directory are where their headers say, listed files
have proper headers and share no sector, an open file's header is the one on the disk.  Every
file but the subject of the operation is `Settled`: it is listed exactly if it should be, and
its sectors hold its bytes.  For the subject there is one description per phase:

| Phase | On the disk | Still to write |
|---|---|---|
| `Formatting` | the first k writes of Format | the others; no entry looks in use yet |
| `Creating`: `Allocating` | the new sectors are free, some of them are zeroed | zeroes, header, directory, map |
| `Creating`: `Listing` | header and data; the entry, once its slot is written | directory from slot j on, map |
| `Removing`: `Unmarking` | all as before | map, directory |
| `Removing`: `Unlisting` | the map without the file; its entry, until its slot is written | directory from slot j on |
| `Writing`: `Filling` | each sector old or new, as it is pending or not | sectors of this file, each once |
| none | the map is exact | nothing |

Each operation's lemma shows that it starts in its phase; `WriteSector` has one lemma per
phase, which shows that the rest of `todo` still fits, or that the file is settled.  Three
facts about operators carry most of the weight.  `BitMap::Find` called repeatedly gives
different free sectors (`ClearInOrder`: by the number of clear bits below each; a least
counterexample takes the place of induction).  A header without an index survives WriteBack
and FetchFrom.  And `ReadAt` of sectors that hold the bytes, at any position and length,
returns them, and `WriteAt` the sectors that hold the new ones, the unwritten ends of the first
and last sector kept.  A crash changes nothing on the disk, so the invariant holds there too;
SectorsDisjoint, MapExact and ContentsKept follow from FSInv in each phase.

## 5. What is only model-checked

- Liveness: Termination, Completion, ReadyRuns, Halts, IOCompletes, JoinReturns.  The
  prover has no rules for fairness.
- SectorsDisjoint, MapExact and ContentsKept for files with index sectors: the run `filesys`
  covers one and two levels of index.  The theorems leave them out, because which sectors such
  a file has depends on memory that the code does not store.
- RegistersExact and MemoryExact (for programs without the instructions of section 6): Mips uses the bit operators of the community modules, about
  which the prover cannot reason, and a word is a sum over its bytes, which needs induction.
- TlbCoherent: it is stated over the state of Machine, which extends Mips, and the prover
  refuses every module from which those bit operators can be reached.

## 6. Where the code and its documentation disagree

With a run:

- **Join never returns** (threads/thread.cc:473, run `sched_join`).  The caller is
  put on `joinList` and blocked; nothing ever takes a thread off that list.
  thread.h:136 says "Wait for this thread to die".
- **A finished thread may never be destroyed** (threads/scheduler.cc:253, run
  `sched_destroy`).  Only a thread that returns from SWITCH destroys it.  A new
  thread starts in ThreadRoot; if it finishes before an old thread has run,
  `threadToBeDestroyed` is overwritten, and the first thread keeps its memory and
  its id for ever.

- **A file with index sectors loses them** (filesys/filehdr.cc:262, run
  `filesys_open`).  `sizeof(FileHeader)` is 148 and a sector has 128 bytes, so
  `L1Index` and `L2Index` are not written; an opened file follows whatever its new
  header object held.  Files of more than 30 sectors cannot be read back, and
  removing one frees other sectors or fails an assertion.  Where the code then takes
  data for an index, the model has the number -1 (`IndexEntry`), which is no sector.
- **OR ignores rt** (machine/mipssim.cc:376, run `machine_or`).

Without a run of their own; each is visible in the models under
other constants, or by reading the mapped lines:

- **SRL and SRLV copy the sign** (machine/mipssim.cc:445-455): they shift an int.
  RegistersExact leaves them out.
- **LWL, LWR, SWL and SWR are big-endian** (machine/mipssim.cc:294-341, 486-529), on a
  machine of which mipssim.cc:4 says "Byte ordering is little-endian".  At the address of a
  word a little-endian LWR loads, and SWR stores, the whole word, and LWL and SWL move
  one byte; the code does it the other way round.  At other addresses, for which these
  instructions exist, all four fail an ASSERT.  Mips has them as the code has them,
  MipsManual as the manual; RegistersExact and MemoryExact leave them out.
- **Suspend and Resume read an uninitialised pointer** (scheduler.cc:292, 327) when
  the list they search is empty.  The runs let it be no thread (`Uninit` is
  {NULL}).  If it still holds the thread of an earlier call, that thread is put on
  the list twice and PlacedByStatus fails.
- **Suspend loses priorities** (scheduler.cc:301): the elements it passes over come
  back by `Prepend`, with key 0, so later sorted insertions go to wrong places and
  PriorityOrder fails.  Under priorities the run `sched` therefore has no suspensions.
- **Yield can raise a priority** (thread.cc:260): it adds `threadID -
  MAX_PRIORITY`, which is positive for ids above MAX_PRIORITY; then the yielding
  thread may go on running, also when it yields for a fork.  ForkPreempts holds for
  ids up to MAX_PRIORITY.
- **Yield does nothing** under policies other than round robin and preemptive
  priorities.
- **The thread table** (thread.cc:64, 87): `threadPort` is indexed from 1 but has
  MaxThreadNum entries, so a full table writes behind the array; the destructor
  clears the entry of the thread created last, not its own, so `ThreadStatus`
  (system.cc:247) reads destroyed threads and misses living ones.
- **Fork without a free id** (thread.cc:121) counts `threadnum` down twice and its
  destructor writes `tid[-1]`.
- **Two timers never halt** (scheduler.cc:426 with `-rs`, system.cc:155):
  `CheckIfDue` recognises that only a timer is left when *one* interrupt is pending
  (interrupt.cc:326); with two, each keeps the other alive.
- **Removing an open file** (filesys/openfile.cc:32): the OpenFile keeps its copy of
  the header, so a write through it goes to sectors another file has been given.
  With `ClosesFirst` FALSE ContentsKept fails.
- **Create with too little space** (filesys/filehdr.cc:74): for two levels of index
  the test does not count the sectors needed; `Find` returns -1 and the disk's
  ASSERT stops Nachos in the middle of the operation.  filehdr.cc:34 says "Return
  FALSE if there are not enough free blocks".
- **A crash inside Create or Remove** leaves a listed file whose sectors the map
  says are free.  Nothing repairs this at the next start, and the next Create gives
  the sectors away; the model stops at such a disk.
- **Reliability** (machine/network.h:50) is described as "the chance that the network
  will lose a packet"; network.cc:116 uses it as the chance that it does not.
  `sendBusy` is tested but never set.
- **MailTest waits for ever** (network/nettest.cc:67) when a packet is lost.
- **A typed byte 0xFF** equals EOF (machine/console.cc:95): the device takes its
  buffer for empty.  The model's characters are not EOF.
- **Programs are not loaded** (userprog/addrspace.cc:164): the copying of code and
  data is under USE_SWAP, which no Makefile defines; progtest.cc:19-20 says "load it
  into memory".  The Machine constructor uses `fileSystem` before
  system.cc:183 creates it, which works with the stub file system only.  The model
  has the program loaded.
- **Stores to swapped pages** (machine/translate.cc:191, 203) keep the lowest byte of
  a word or half word; reads past the end of the swap file return what the buffer
  held.  Machine does the same; RegistersExact and MemoryExact cover programs that
  do neither (`intact`).
- **No address is refused**: with a TLB a page beyond the program is given a page
  table entry; one beyond the bitmap fails its assertion.  A page number not below
  the table's size faults again each time it leaves the TLB, and two entries can
  then name one page.
- **The bitmap of frames** (userprog/addrspace.cc:287): the test in front of `Mark`
  is the wrong way round, and the frame the page leaves is cleared, so that a second
  address space would be given frames in use.  `RestoreState` does not empty the TLB
  either.
- **use and dirty** (machine/translate.cc:305) are set in the TLB's copy only on a hit
  and not written back, and `ClearRBit`, meant for the timer, has no caller: the
  replacement decides on old bits.  This costs time, not correctness.
- **The least int divided by -1** (machine/mipssim.cc:200) stops the simulator on
  hosts that trap it; the model's status is then "crash".
- **A large program** (userprog/addrspace.cc:137): `bzero` clears as many bytes as the
  program has, also if memory has fewer.

## 7. What is not modelled, and why

- Unreachable code: `readyList_1`, `readyList_2`, `CheckIfHigherEnter` (no caller
  changes a thread's level); `ClearRBit` and `TLBSwap` (no caller); `ChangeSize` of
  FileHeader (commented out); the page table without TLB (every Makefile with user
  programs defines USE_TLB).
- The multi-level policy (SCHED_MLFQ), with its `Schedule` call in `Scheduler::Run`
  (threads/scheduler.cc:235-237).
- A second address space: `StartProcess` runs one program and never returns, so
  `SaveState` and `RestoreState` are not reached by it, nor `~AddrSpace`.
- Stacks, host registers and SWITCH (assembly); statistics, debug output, the
  instruction debugger, command-line parsing; `sysdep.cc`; the NOFF header.
- The parts of the tests that only print, and `fstest.cc`, which copies UNIX files.
- `mylist.cc` and `tcb.cc`, which the kernel does not use; tools in `bin/`; the
  second copy of the file system in `src/try/filesys`; headers of the vendored
  compiler under `src/try/usr`.  These, with the copies, are more than half of
  the repository's lines.

## 8. State of the project

Every invariant that a run checks is a theorem, except the three of Machine; so are the
refinements and the action property ForkPreempts.  What would come next:

1. Translation: TlbCoherent for any sizes of TLB and page table, in a specification of the
   TLB and the page table alone, which Machine would refine.
2. FileSystem with index sectors, if the code is changed to store the indices: HeaderOK and
   Foot would take the index sectors in, and the rest of FSInv could stay.
