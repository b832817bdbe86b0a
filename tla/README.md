# Verification of the Pintos kernel

The repository is a Pintos teaching kernel for one 80x86 processor with the
course projects implemented: priority scheduling with donation and an alarm
clock, user processes and system calls, and a file system whose files grow
through indirect blocks.  This directory holds TLA+ models of its parts,
configurations that check them with TLC on small instances, and proofs, checked
by TLAPS, for instances of any size.  `PROJECT.json` maps every definition that
models code to the lines it models.

## The system and its parts

The kernel runs one thread at a time.  A thread is preempted by the timer
interrupt between any two statements that run with interrupts on; code between
`intr_disable` and `intr_set_level` is atomic.  Everything else rests on this:

* The **run queue** (`threads/thread.c`) orders ready threads by priority.
  **Semaphores, locks and donation** (`threads/synch.c`) put threads to sleep
  and wake them, **condition variables** are built of semaphores, and the
  **alarm clock** (`devices/timer.c`) is a sorted list that the timer interrupt
  works through.  All of these keep threads on **lists** (`lib/kernel/list.c`).
* **Processes** (`userprog/process.c`, `syscall.c`) are threads that exec, wait
  for and outlive each other.  Starting one **loads an executable**, **passes
  arguments** on its stack and fills a **page directory**; its system calls
  **reach into user memory**.
* **Open files** (`filesys/file.c`, `inode.c`, `syscall.c`) are descriptors over
  shared inodes; an **inode** indexes its sectors on three levels and takes them
  from a **free map**.  Sectors are read and written by the **ATA driver**,
  through **partitions** and the block layer.
* The **console** writes to the **serial port** and the **screen**; the
  **keyboard** and the serial port fill an **input buffer** of which programs
  read.
* **Page and block allocators**, the **hash table**, **sorting and searching**,
  **strings** and **64-bit division** serve all of them.

## Modules

A component's module has the state of the code as its variables and an action
for each operation; an operation that can be preempted is split into an action
for every statement that touches shared state, and `pc` (`stage` or `at`
in some) says where a thread is.
Definitions keep the source's names.  Definitions with a comment that starts
with "Slip:" are plausible mistakes in the definition that follows them; they
are no part of the model, and serve to show that a property notices them.

| Module | Code | State and actions |
|---|---|---|
| `KList` | `list.c`: `list_insert_ordered`, `list_sort` and removal, as operators on sequences | none; used by the modules with queues |
| `DList` | `list.c` pointer by pointer: `list_insert`, `list_remove`, push, pop, `list_splice`, `list_reverse` | `next`, `prev`; `order` is what was asked for |
| `ListSort` | `list_sort` run by run, `inplace_merge`, `list_unique` | the positions that the loops move |
| `Scheduler` | `thread_block`, `thread_unblock`, `thread_yield`, `thread_tick`, `schedule`, `idle` | ready list, status, current thread, slice; operators that `Synch` and `AlarmClock` use in their actions |
| `Synch` | `sema_down`, `sema_try_down`, `sema_up`, `lock_acquire`, `lock_try_acquire`, `lock_release`, `priority_donation`, `donation_back`, `priority_recheck`, `thread_create`, `thread_set_priority`, `thread_exit` | semaphores, holders, priorities, donors, a `pc` per thread |
| `Mutex` | what a lock promises | owner of each lock |
| `AlarmClock` | `timer_sleep`, `timer_interrupt`, `timer_wakeup` | clock, sleep list, targets |
| `CondVar`, `Monitor` | `cond_wait`, `cond_signal`, `cond_broadcast`; what they promise | waiters with a semaphore each |
| `Process` | `process_execute`, `start_process`, `process_wait`, `exit`, `process_exit`, `free_child_proc`, `kill` | `child_process` records, `sema_load`, `sema_wait`, `sema_zombi` |
| `ElfLoad` | `load`, `validate_segment`, `load_segment`, `install_page`, `setup_stack`'s page | pages of the address space, free pages |
| `ArgPassing` | `parse_cmd_args`, `setup_stack` | `argv[]`, `MAX_ARGS`, the stack page byte by byte, and `address[]` with the element past its end |
| `Pagedir` | `pagedir.c`, `process_activate`, the end of `process_exit` | directories, page tables, CR3 and the TLB |
| `UserMemory` | `is_valid_ptr`, `is_valid_string`, `is_valid_buffer`, `get_kernel_ptr` in `syscall.c` | page mapping, RAM, the call |
| `Inode`, `Files` | `inode_create`, `inode_grow`, `inode_read_at`, `inode_write_at`, `inode_deallocate`, `free_map_allocate`, `bitmap_scan_and_flip`; what a file system promises | free map, index slots, lengths, the inode's lock |
| `OpenFiles` | `open`, `close`, `remove`, `read`, `write`, `file_open`, `file_close`, `inode_open`, `inode_close`, `file_deny_write`, `close_all_file` | inodes in memory and on disk, descriptor lists; `lost` counts the files that a failed `add_file` leaves open |
| `Ide`, `Disk` | `ide_read`, `ide_write`, `select_sector`, `issue_pio_command`, `interrupt_handler`; what a disk promises | the channel, its registers, the controller and how its commands fail |
| `Partition` | `read_partition_table`, `found_partition`, `check_sector` | the scan's call stack, what was registered |
| `Terminal`, `Channel` | `intq.c`, `serial.c`, `input.c`, `console.c`, `debug_panic`; what a queue promises | queues, UART registers, console lock |
| `Kbd` | `keyboard_interrupt`, `map_key` and the keymaps | shift state of the driver, keys really held |
| `Vga` | `vga_putc`, `cls`, `newline`, `move_cursor`, `find_cursor` | framebuffer and cursors; `page` is all that was written |
| `Palloc` | `palloc_get_multiple`, `palloc_free_multiple`, `bitmap_scan_and_flip` | the map bit by bit, a `stage` per process |
| `Malloc` | `malloc`, `calloc`, `realloc`, `free` | arenas, free lists, blocks in use; `overrun` is set where `realloc` copies past a block |
| `Hash`, `Dictionary` | `hash.c` with its iterator; what a table promises | buckets |
| `Stdlib` | `sort`, `heapify`, `binary_search`, `atoi` | the array, the loops' positions |
| `StringLib` | `string.c` but `memset` and `strnlen` | a block of bytes |
| `Arithmetic` | `divl`, `nlz`, `udiv64`, `sdiv64`, `umod64`, `smod64` | operands and result |

Modules compose by use: `Synch` and `AlarmClock` extend `Scheduler`, which
extends `KList`.  The MC module of a run extends the components whose properties
are proved as well, so that run and theorem are about the same definition.  Where
the parts share no state in an instance, an MC module explores them side by side: a variable
`part` or `scenario` chooses one in the initial state and the variables of the
others stay fixed.  `Process` takes `sema_down` as one step that waits for a unit, which
`NoLostWakeup` of `Synch` justifies; `Inode`, `Ide` and `CondVar` take locks as
their holder, which `ImplementsMutex` justifies; all use lists as sequences,
which `LinksAgree` (`DList`) and `SortsStably` (`ListSort`) justify.

## What is checked

Each run is a configuration; `tlc -config X.cfg M` in this directory repeats it.
Deadlock is not checked anywhere, because every instance may really stop: the
kernel panics or faults (`Synch`, `Process`, `Inode`, `OpenFiles`, `CondVar`,
`Ide`, `Terminal`) or reboots (`Kbd`), a load, call, scan or sort ends, the
clock comes to its bound (`AlarmClock`), or everybody waits for something that
the environment need not do.  That nobody waits in vain is what the liveness
properties say.

| Run | Configuration | Properties |
|---|---|---|
| `synch` | `Synch.cfg`, `MCSynch` | Three threads of three priorities, `tid_lock` and one more lock, a semaphore that a device ups as well. `HolderAssertsHold`: the ASSERTs in `lock_acquire` and `lock_release` hold under every preemption. `ElemOnOneList`: a thread's `elem` is on exactly the list its status says. `NoLostWakeup`: no thread waits for a semaphore that has more units than woken threads on their way to them. `WakesHighest`: `sema_up` wakes by the priorities of that moment, not those of the insertion. `ImplementsMutex`: the locks implement `Mutex`. |
| `synch_fair` | `SynchFair.cfg`, `MCSynch` | `ReadyEventuallyRuns`: at equal priorities a ready thread runs again. |
| `sleep` | `Sleep.cfg`, `MCSleep` | Three sleepers and the clock; four threads on a condition; three processes with failing loads and allocations. `SleepersListed`: the sleep list holds exactly the sleepers, ordered by target. `WokenOnTime`: nobody is woken before the target, or left on the list after the interrupt of that tick. `IsMonitor`: waiting gives up the lock and joins the waiters at once, a signal takes out one of the highest priority, and nobody comes back without it. `SleepersReturn`: every sleep on the clock ends, a signalled thread leaves its semaphore, and it gets the lock back if the others leave that alone. `ProcessesReturnIfLoaded`: exec returns, and wait does once the child exits, in either order of the two, except for a child that could not be loaded. |
| `process` | `Process.cfg`, `Process` | Four processes, with failing loads and allocations. `RecordsListed`: the records on a parent's list are exactly the allocated ones of its children, and the one that wait works on stays there. `CallsAnswer`: exec answers only after the load and truly; wait returns the status the child exited with, and -1 for a killed one, as long as the parent had one child (see the end of this file). |
| `inode` | `Inode.cfg`, `MCFiles` | Two files on all levels of the index; a disk that is too small; two processes on one file, and on two. `IndexSoundInTurn`: with one process or one file, the slots in use are those the length needs, and no sector has two owners or is free while owned. `SharedOnlyByRace`: with two processes on two files, a sector gets a second owner only when both set its bit after both found it clear. `IsFileSystemInTurn`: with one process, contents are those of `Files`, and a removed file gives back all sectors but its inner index blocks. `CallsReturn`: calls of two processes on a file end. |
| `terminal` | `Terminal.cfg`, `MCTerminal` | Two printing threads, the UART, keyboard and readers. `QueuesServed`: messages are not mixed, and interrupts are enabled for exactly what the queues can give and take. `BytesInOrder`: output and input implement `Channel`. `TerminalLive`: printing returns, output drains, a sleeping reader gets its key. |
| `devices` | `Devices.cfg`, `MCDevices` | `IsDisk`: requests of two processes to two disks of one channel implement `Disk`, and the channel is idle when unlocked; a command may fail before the data is transferred or after. `ChannelServed`: no completion is missed, so whoever has the channel gives it up, and a request returns once the others make none. `InsidePartitions`: partitions that are registered lie on the disk, requests in their partition. `KeysExact`: the shift state follows the keys. `ScreenExact`: the screen shows the last rows of all that was written. |
| `programs` | `Programs.cfg`, `MCPrograms` | `AddressSpacesSound`: the CPU never uses a freed directory, the TLB agrees with the active one, every page has one place. `ArgumentsExactIfContiguous`: a call moves exactly the caller's bytes, if they lie in pages that follow each other in RAM, and uses no bad string. `ProgramLoaded`: the image is what the headers say, in user pages only, and all pages come back. `StackExactUnlessGrown`: argc and argv are as the convention says unless `argv[]` had to grow, up to the word that `address[argc]` gives; words are stored within `argv[]` while nobody else has grown `MAX_ARGS`. `OpenersCountedInTurn`: while no two calls that open or close overlap, open and denial counts are those of the descriptors and running programs, a removed file is deleted by its last closer, a sector has one inode in memory, and that is loaded as saved. |
| `services` | `Services.cfg`, `MCServices` | `SortsStably`, `LinksAgree`, `ArraysExact`, `PagesExclusive`, `HeapSoundIfSizesFit`, `StringsExact`, `DivisionExact`, `IsDictionary` and `LoopsEnd`: the allocators and the library against what their comments promise. `HeapSoundIfSizesFit` says that blocks do not overlap, free lists and pages are exact, a block is as large as was asked for unless the size wrapped, and `realloc` copies past a block only then. |
| `acquire_fault` | `SynchAcquireFault.cfg`, `MCSynch` | Violated: `AcquireNeverFaults`, see below. |
| `open_twice` | `OpenTwice.cfg`, `MCPrograms` | Violated: `OneInodePerSector`, see below. |
| `inode_leak` | `InodeLeak.cfg`, `MCFiles` | Violated: `BlocksFreed`, see below. |

A property that holds only under a condition that the code does not see to has
the condition in its name.

For the promises made in the code's comments, the reference is a definition of
its own: `StableOrder` for sorting, sequences for links, `Contents` for files,
the integers' quotient for division, the text written for the screen.

### Bounds

Bounds are constants of the MC modules and configurations.  They are chosen so
that every branch of the code is taken, and that a limit is met from both sides.

* `Synch`: three threads are the fewest in which a donor, a holder and a
  bystander of a priority between differ; semaphores count to `MaxValue` 2.
  `AlarmClock`: durations -1, 0 and 2 up to tick 3, so that targets coincide.
  `CondVar`: four threads in two priorities, for ties and differences.
* `Process`: four processes make a parent with two children and a grandchild;
  three, in `sleep`, suffice for the orders of exit and wait.
* `Inode`: sectors of two bytes and 1 + 2 + 2x2 slots, a file of at most 14
  bytes; writes end on each level, at its border and within a sector.
  Two processes that write two files take two data sectors and an index block
  each, so that their allocations meet at every bit.
  `OpenFiles`: two processes, three inodes in memory.  A process
  opens one file up to three times (`shared`), two files twice that stay empty
  (`several`) or once and writes them (`written`), or a file and a directory
  twice (`listed`).  It can also execute a file, which holds it open besides.
  One `add_file` may fail (`MaxLost` 1) in `shared`.  In `open_twice` the calls
  of `shared` overlap.
* `Terminal`: queues of three places hold two bytes, so messages of two bytes
  meet the full, the empty and the wrapping queue.  Nesting is one level.
* `Partition`: ten sectors, numbers modulo 16, recursion to depth 4.  `Kbd`:
  three keys held at once.  `Vga`: two rows of three columns, three rows of
  text; tabs of 2.
* `ElfLoad`: pages of 4 bytes, addresses modulo 28, every offset, address and
  size.  `ArgPassing`: a page of 48 bytes, lines
  of up to five words, an array of two words that grows twice; two processes with
  up to three words.  `UserMemory`: two pages of two
  bytes.  `Pagedir`: two processes, three kernel and two user pages.
* `Palloc`: four pages, two processes.  `Malloc`: pages of 16 bytes, at most
  four blocks, sizes modulo 64 up to 62 and a product that wraps.  `Hash`: six elements, two of one key.  `ListSort`: up to six
  elements of three keys (three runs, so that a pass has an odd one out).
  `DList`: two lists, three elements.  `Stdlib`: up to five elements; an int
  has 8 bits.  `StringLib`: every block of five bytes.  `Arithmetic`: words of
  4 bits, every pair of double words.

Symmetry is used where actors are interchangeable and no liveness is checked
(`process`, and the two processes with open files in `programs`).

### Fairness

* `Synch`: the timer keeps ticking (strong fairness of `TimerInterrupt`, since
  interrupts are off now and then and the controller keeps an interrupt
  pending), a thread that was made to run with interrupts off executes its next
  statement, and so does the idle thread.  Nothing is assumed about the
  scheduler: that a ready thread runs is the property.
* `Process`, `Inode`, `Ide`, `Terminal`, `CondVar`: a process in the middle of a
  call goes on when it can (weak fairness), which `ReadyEventuallyRuns` justifies
  for threads of one priority; threads of a higher one are taken not to keep the
  processor for ever.  Starting a call is never fair.  No lock is taken to be
  fair: `lock_release` hands it to nobody and `sema_down` tests again when it is
  woken, so that others may overtake a waiter again and again.  `SleepersReturn`
  and `ChannelServed` therefore speak of a waiter that the others at last leave
  the lock to; in `CallsReturn` they do so because a file grows only so far.
* `AlarmClock`: the handler runs to its end, and the timer ticks.
* `Ide`, `Terminal`: the disk and the UART answer, and the interrupts they raise
  are taken.  Typing is not fair.

## What is proved

The proofs hold for every value of the constants: any number of threads, locks,
semaphores, list elements, processes and pages, any priorities, durations,
partition tables and requests, and without the bounds on counters that TLC
needs.  Each invariant below is inductive; what it adds to the property that it
is for is what the code relies on without saying so.

* `SchedulerProofs`: `InsertSorted` (`list_insert_ordered` keeps a sorted list
  sorted).  The insertion position of `KList` is the least suitable one, not a
  recursion, so no induction is needed.  What block, unblock, yield and tick do
  to the invariant of the run queue.  `KList` gives `list_sort` by its result,
  so the lemma that this is sorted is about the definition; that the code's merge
  passes compute it is `SortsStably`, which TLC checks.
* `SynchProofs`: `MutualExclusionHolds`, `HolderAssertsHoldAlways` and
  `MutexRefinement` (the locks implement `Mutex`: each step is a step of `Mutex`
  or leaves the owners alone).  That one thread has the lock does not follow
  from itself.  `LockInv` adds what the code relies on: the semaphore of a lock
  is 0 while some thread possesses it, where a thread possesses it from the
  decrement in `sema_down` to the increment in `sema_up`; at most one does;
  `holder` names that thread from the assignment in `lock_acquire` to the reset
  in `lock_release`; no assertion has failed.
* `SynchListProofs`, `SynchQueueProofs`: `TypeCorrect`, `ElemOnOneListHolds`,
  `WakesHighestHolds` and `NoLostWakeupHolds`.  `QueueInv` strengthens them: the
  waiters of a semaphore are exactly the threads that wait for it, without
  repetition; the ready list holds exactly the ready threads; a thread that is
  being created is blocked and on no list; priorities are priorities, and donors
  are threads.  A wakeup is not lost because a step that adds a unit while
  threads wait makes one more of them ready, and a thread on its way leaves only
  with a unit or back to the waiters of a semaphore that has none.
* `SleepProofs`: `SleepersListedHolds` and `WokenOnTimeHolds`.  `AlarmInv` says
  that the sleep list holds exactly the threads between their insertion and the
  interrupt that wakes them, sorted by target, beside the run queue's
  invariant.  Sortedness is needed, because `timer_wakeup` stops at the first
  thread that is not due.  `MonitorRefinement`: condition variables implement
  `Monitor`, in which a waiter is taken out by a signal and comes back with the
  lock; the invariant is that a thread on the list is in `sema_down` or about to
  call it, and that its own semaphore has no unit.
* `ProcessProofs`: `RecordsListedHolds` and `CallsAnswerHolds`.  `ProcInv` adds
  that the record of a child that has been allocated holds the child's status
  and says that it exited only if it did, that `sema_load` is upped after the
  result of the load is stored, and that a unit of `sema_wait` comes from a child
  that died.
* `MemoryProofs`: `AddressSpacesSoundHolds`.  `PagingInv` follows every page to
  the one place where it is - the pool, a directory, a page table or an entry -
  through the creation and the destruction of a directory, in the middle of
  which `pagedir` and CR3 no longer name it; `Stage` says which of the three does
  at each statement of `process_exit`.  `PagesExclusiveHolds`, for `palloc.c`
  with the map read and set bit by bit: `PoolInv` says which pages a call in the
  middle of its scan, of its marking or of its freeing counts on, and that no
  two claims meet.
* `DeviceProofs`: `DiskRefinement`: driver, interrupt handler and controller
  implement `Disk`; `IdeInv` ties the phase of the controller and the semaphore
  to the statement that the holder of the channel's lock is at, and says that an
  unlocked channel is idle.  A write that fails after the transfer, which the
  driver does not look for, leaves anything in its sector (`Lose` of `Disk`).  `InsidePartitionsHolds`: the sum that
  `found_partition` tests does not wrap around, for any word size.
  `QueuesServedHolds` and `BytesInOrderHolds`, for queues of any size: lemmas on
  the ring buffer of `intq.c` (what `Contents` becomes when `intq_putc` and
  `intq_getc` move head and tail around the end) carry a refinement of `Channel`
  on each side of the port.  `TermInv` adds that the queue is empty while the
  port is polled, that exactly the thread that is inside messages has the
  console's lock, with the depth that counts them, and that the last byte put
  ends its message or belongs to one that has characters left.

The assumptions are on the constants, named in the modules that declare them:
the idle thread is none of the others, the initial ready list has no
repetitions, the threads are finitely many, priorities are natural numbers and
the time slice is positive
(`Scheduler`); `tid_lock` is a lock that only `allocate_tid` uses, no lock is an
event, and `NULL` is neither (`Synch`); durations are integers and the clock bound a natural
number (`AlarmClock`); the initial process is one, and no process is a number (`Process`).  The other
components collect their assumptions in a definition (`Constants`,
`PoolConstants`, `IdeConstants`, `TableConstants`, `CondConstants`), which the
theorems about them assume and the MC module of their run asserts: sizes are positive, sectors and pages are numbers, `NULL` is none of
the values that it is told apart from.  TLC evaluates all of them in the runs.

### Only model-checked

Liveness under fairness is out of the prover's reach: `ReadyEventuallyRuns`,
`SleepersReturn`, `ProcessesReturnIfLoaded`, `CallsReturn`, `TerminalLive`,
`ChannelServed`, `LoopsEnd`.  So is what a recursive definition or a loop
computes for every input, which would need induction over the data:
`SortsStably`, `LinksAgree`, `ArraysExact`, `StringsExact`, `DivisionExact`,
`ArgumentsExactIfContiguous`, `ProgramLoaded`, `StackExactUnlessGrown`.
`IndexSoundInTurn`, `SharedOnlyByRace`, `IsFileSystemInTurn`,
`OpenersCountedInTurn`, `KeysExact`, `ScreenExact`, `HeapSoundIfSizesFit` and
`IsDictionary` are checked by TLC on the instances above.

## Where the code departs from what it says

Three runs end in a violation.

`acquire_fault`: `lock_acquire` tests
`lock->holder` and reads it again for the donation, with interrupts on
(`threads/synch.c:231`).  If the holder releases the lock in between, the second
read gives a null pointer; if it released and reacquired, a `donor_elem` can be
linked twice.  The other properties of `Synch` are invariants up to such a fault.

`open_twice`: `inode_open` searches the open inodes, allocates and inserts in
separate steps with interrupts on (`filesys/inode.c:151`, `:163`, `:168`), and no
system call holds a lock (`lock_filesys` of `process.h` is not used).  Two
processes that open a file at once get two inodes for it, against the comment
at `inode.c:97`.  The last closer, which is on the list with a count of 0
(`:205`), opens the same gap.

`inode_leak`: `second_level_dealloc` (`filesys/inode.c:602`) frees the data sectors
and not the inner index blocks above them, against the comment at `:196`.

Other disagreements met while modelling.  The models have this behaviour, and
the properties are stated for the cases in which the promise is kept:

* Scheduling: donation raises a holder's priority without moving it in the ready
  list (`synch.c:255`); `priority_recheck` takes the first donor, which need not
  be the highest, and may go below the thread's own priority (`synch.c:327`).
  Hence no property says that the running thread has the highest priority.
* Condition variables: a signal between the insertion into `waiters` and
  `sema_down` makes the comparison take the front of an empty list, an
  assertion (`synch.c:410`).
* Processes: `sema_wait` belongs to the parent.  If a child exits between
  `process_wait`'s assignment of `wait` and its test of `exit`, a unit stays, and
  ends the next wait too early (`process.c:176`); this is why `WaitReturnsStatus`
  speaks of a process with one child.  A wait for a child whose load failed does
  not return (`process.c:201`), nor does exec when `start_process` gets no memory
  (`:123`): `ProcessesReturnIfLoaded` says that no other call hangs; after a failed
  `thread_create` exec goes on with a null pointer (`:74`).  A parent that exits
  frees the records that its children still use (`:204`), and a child that nobody
  waits for keeps its pages (`:208`).
* Arguments: the address of the grown array is lost to `load` (`process.c:96`), so
  the words are read through a freed block; `MAX_ARGS` is shared by all processes
  (`:93`), so that a load may store past its array after another one has grown;
  `address[argc]` is past the end of its array (`:573`), which is padding unless
  argc is a multiple of 4; and the check of the stack's size counts the words
  only (`:568`).
* Open files: `load` leaves the executable open beside the handle of
  `start_process` (`process.c:433`), `open` leaves it so when `add_file` fails
  (`syscall.c:575`), and `seek` and `tell` read through a null pointer
  (`syscall.c:372`).
* Inodes: the length is tested before the lock is taken, so a file may grow too
  far (`inode.c:305`); with a full index it may shrink (`:446`); it is set before the data is written
  (`:309`); a failed allocation is ignored (`:400`); parts of one sector written
  by two processes may be lost (`:347`).  The free map is scanned and flipped
  without a lock (`free-map.c:30`), so that two files can get one sector.  An
  inode can be read from the disk before the last closer has written it (`:220`).
* Devices: `expecting_interrupt` is never cleared (`ide.c:413`); the
  table of an extended partition is read from sector 0 (`partition.c:91`); two readers of
  the input buffer meet an assertion (`intq.c:46`).
* Library: `umod64` cuts the remainder to a word (`arithmetic.c:131`), `memmove`
  returns a pointer behind the copy (`string.c:45`), which `StringsExact` does not
  speak of, sizes near the top wrap in
  `malloc` (`malloc.c:109`), and products in `calloc` (`:166`), so that the block is
  smaller than what was asked for; the thresholds of `rehash` are not used
  (`hash.c:374`).
* System calls: a buffer over several pages is translated once, by its first
  byte (`syscall.c:136`), and `readdir`'s buffer is checked as a string
  (`:177`); `ArgumentsExactIfContiguous` is stated for pages that follow each
  other in RAM.

## What the models leave out

* A statement that reads several shared variables, and a list operation, is one
  step even where interrupts are on.  Preemption inside them is not explored.
* `Synch`: clients acquire a lock that they do not hold and release one that
  they hold; `tid_lock` is taken by `thread_create` in `Synch` only.  The freeing of a dead
  thread's page in `thread_schedule_tail` is not reached, since `process_exit`
  blocks for ever.
* `Process`: a read of a freed record gives any value; what a write to it does to
  the next owner of the memory is not followed.
* `Inode`: directories, which grow without the lock; the contents of index blocks
  once a sector is shared; the file that keeps the free map; initial lengths
  beyond the maximum.  The sector of a new inode is taken in the step that begins
  `inode_create`.  `OpenFiles`: `filesys.c` and `directory.c` are not in the
  repository: names are present or absent, a name is looked up in the step that
  searches the open inodes, and no lock of theirs is assumed.
* `Ide`: reset, identification and spurious interrupts.  `Terminal`: overruns of
  the UART.  `Vga`: attributes.  `Pagedir`: the kernel's mappings.
* `UserMemory`: the words on the user's stack that `get_arg` reads are taken to
  be there; buffers of size 0.  `ArgPassing`: the empty command line; what a store
  past the array, or past `address[]`, does to other data than its own words.
* `Malloc`: what happens after `realloc` has copied past a block.
* `DList`: traversal (`list_size` and the like).  `StringLib`: `memset` and
  `strnlen`.

## Not modelled

Boot code, the descriptor tables, the PIC and the task state are filled once,
before anything runs beside them.  Calibrated delays, the real-time clock, the
speaker and power-off are exchanges with hardware without state in the kernel.
Formatted output is sequential code over characters.  The random numbers are a
fixed generator whose values mean nothing to the kernel.  The file system's
utilities, the user library, the example programs and the host tools are clients
of what is modelled.  The virtual memory project consists of two headers and
build files.
