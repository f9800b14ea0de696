# A verification of Rudimentary-x86-32-OS

TLA+ modules for the kernel under `src/kernel`, the shell under `src/user`, the library
between them and the image builder under `src/tools`, model-checked with TLC on small
instances; the theorems about the critical sections, the synchronisation objects, the
tids and the memory of user threads are proved with TLAPS for any number of threads and
objects and pools of any size.  `PROJECT.json` lists the components, the runs, the lines
that each definition models, the hazards and the theorems.

## The system

One CPU.  Threads are `Thread` control blocks in a circular, doubly linked ready
queue; `current_running` is its head.  The timer and `direct_scheduler_entry` switch
to the next one, `block()` moves the running thread to a singly linked wait queue,
`unblock()` puts the first of a wait queue behind the running thread.  A thread that
exits is a zombie until the next switch frees its stack and control block.

Kernel threads run with interrupts on.  User threads enter by `int $0x80`, an
interrupt gate, and run in the kernel with interrupts off.  Shared kernel data are
protected by `enter_critical` and `leave_critical`, which count nested sections in
the global `critical_depth` and keep the interrupt flag of the outermost section in the
global `critical_saved_flags`.  A thread can block inside a section; the section
stays open, and counted, until the thread runs again and leaves it.

On top of this there are locks, conditions, semaphores and barriers (`sync.cpp`),
mailboxes (`mbox.cpp`), the kernel heap (`structs/clusterpool.cpp`), identifiers
(`id.cpp`), page directories, page tables and frames (`paging.cpp`), the loader
(`loader.cpp`) on a polling disk driver (`drivers/ata.cpp`), the keyboard and screen
drivers and the shell.  `tools/createimage.cpp` makes the disk image: boot block,
kernel, program directory, programs.

## Modules

| Module | Models | State and steps |
|---|---|---|
| `RingOps` | the effect of each list operation on a sequence | operators only: `Rotated`, `Popped`, `Woken`, `WokenAll`, `Spliced`, `Joined` |
| `ThreadLists` | `scheduler.cpp`, the splice of `thread_create` | `next`, `prev`, `state` of every control block, `current_running`, the heads of the wait queues, the zombie, the set of allocated blocks, the thread that is being spliced in. An action per function; entering the scheduler is part of the action. The splice has no critical section and is four steps |
| `RunQueue` | what the lists are for (abstract) | a ready sequence, wait sequences, a zombie |
| `Cpu` | `entry.S` | interrupt flag, depth, saved flags, the registers of `enter_critical`, the flag a thread resumes with. `enter_critical` has two interruptible points before its `cli`; from `cli` on a section is one step, up to a switch |
| `Sync` | `sync.cpp` | `status`, `slots`, `counter` over `Cpu`; one action per function, split at `block()` |
| `Monitor` | what `Lock` and `Condition` promise (abstract) | owner, waiting and signalled threads |
| `Mbox` | `mbox.cpp` | the fields of a mailbox, its bytes, the locals of a thread in a call; the lock and the conditions are `Monitor` |
| `Channel` | what a mailbox promises (abstract) | a queue of whole messages of bounded total size |
| `ClusterPool` | `clusterpool.cpp`, `memory.cpp` | the cluster nodes with `start`, `size`, `type`, `next`, `prev`, the cursor, `bytes_used` |
| `Allocator` | what a heap promises (abstract) | a set of disjoint blocks |
| `UserThreads` | `kernel.cpp`, `paging.cpp`, `loader.cpp`, `thread_reap` | the used entries of every pool, page directories and page tables, the control blocks, ready queue and zombie; one action per system call |
| `TidAllocator` | `id.cpp`, `pool.hpp`, `r0_exit` | bitmap, counts and locks of the tids, the lock of the heap, ready queue and zombie, where each thread is in `thread_create` or `r0_exit`. A step is a lock operation, a load or store of the bitmap, or a change of a count; the splice at the end of `thread_create` is one step (its four assignments are steps of `ThreadLists`), and only calls that succeed are there (the others are in `UserThreads`). The creations with interrupts on are commented out in `kernel_main` (`kernel.cpp:231-264`) |
| `Screen` | `vga.cpp`, the dispatch of `print.cpp` | operators on the cells and the cursor, with the memory beside the screen that a tab can reach |
| `Terminal` | `keyboard.cpp`, `shell.cpp` | ring buffer, line buffer, screen; the interrupt handler and a program that writes against one step per system call of the shell |
| `Ata` | `ata.cpp` | status and LBA registers, where the driver waits; the device behind the ports is external: it answers after any time, or with an error, with which it may still offer words |
| `Image` | `createimage.cpp` | operators from ELF files to the sectors of the image |
| `Loader` | `loader.cpp`, the BIOS call of `bootblock.s`, `ata_init` and the commented-out disk test in `kernel_main` | the locals of `load_program` and the pages it fills, over `Ata` and an image of `Image` |
| `KeyQueue` | what the keyboard buffer promises (abstract) | a bounded queue |
| `RingProofs`, `SyncLemmas`, `SyncObjectProofs`, `SyncProofs`, `SyncMonitorProofs`, `TidProofs`, `UserMemory`, `UserProofs` | | lemmas and theorems |
| `MC*` | | values for the constants |

How they fit together: `ThreadLists` implements `RunQueue`, whose operations are
those of `RingOps`; `Cpu` uses `RingOps` for its lists, `Sync` extends `Cpu`; `Sync`
implements `Monitor`, and `Mbox` is built on `Monitor`.  So a mailbox rests, level by
level, on the pointers of the control blocks.  `UserThreads` and `TidAllocator` use
`RingOps` for the ready queue as well.  `Loader` extends `Ata` and `Image`, so that the
tool that writes the layout and the code that reads it are checked against each other;
`UserThreads` has the same `load_program` with the resources it takes and with the disk
reduced to a read that may fail.  `Terminal` extends `Screen`.

Definitions keep the names of the code.  A definition with a suffix after the name of
another one (`MustWait_if` next to `MustWait`) is a plausible bug of that code; the
runs show that each property notices one.

## Runs

Passing runs, with the distinct states TLC reaches:

| Run | Configuration | States | What it shows |
|---|---|---|---|
| `thread_lists` | `ThreadLists.cfg` | 25,016 | The pointer manipulation of the scheduler, block, unblock and thread_create, whose splice is four steps, with four heap threads and two wait queues, keeps the lists well formed and implements the abstract run queue; with a timer that keeps firing every runnable thread runs and every zombie is reaped. |
| `sync_monitor` | `SyncMonitor.cfg` | 588,145 | Locks and conditions over the critical sections and the run queue, preempted wherever interrupts are on, give mutual exclusion, lose no wakeup and implement the abstract monitor. |
| `sync_objects` | `SyncObjects.cfg` | 64,680 | Semaphore::up and down never create or lose a slot, the parties go through the barrier in lockstep, the machine does not halt, and every call returns when the threads give back their slots and yield after their last round. |
| `mbox` | `MCMbox.cfg` | 390,268 | Two senders and two receivers on a wrapping buffer: the mailbox is a first-in first-out channel, no byte is overwritten before it is read, no receiver sleeps while a message is there and no sender while its message fits. |
| `heap` | `ClusterPool.cfg` | 5,687 | kmalloc and kfree in any order: the clusters tile the heap, blocks never overlap, free neighbours are merged and no request fails for which there is a gap. |
| `user_threads` | `MCUserThreads.cfg` | 468,297 | Programs are loaded, fail to load, exit and are reaped until every pool has run out: no two threads share memory or a tid, and a load that reports success is complete. |
| `tid_allocator` | `TidAllocator.cfg` | 1,519,878 | kernel_main creates kernel threads, as its commented-out tests do, while earlier ones exit, preempted between any two steps, also inside the byte operations on the bitmap (the splice at the end of thread_create is one step): no two threads have the same tid. |
| `terminal` | `Terminal.cfg` | 85,472 | Keys pressed and text written by a program between any two system calls of the shell: the ring buffer is a queue, every accepted key is read, call_exec gets the line that was typed, and the screen shows it. |
| `loader` | `Loader.cfg` | 57,516 | From any list of files createimage makes an image from which the boot block loads the kernel and load_program every program in the directory, byte for byte, through a disk that may be absent or fail at any command; every call returns, and the driver never commands a device that is busy or in the middle of a transfer, but for words left over with an error. |

Runs that show where the code and what is said about it part:

| Run | What happens |
|---|---|
| `sync_spin` | `leave_critical` is said to restore the interrupt flag "exactly as it was" (`entry.S:43`). With another thread blocked inside a section the depth does not reach 0, and the leaving thread goes on with interrupts off. In the barrier test (`test.cpp:257-287`) the last thread to arrive frees the two others, leaves and spins; the others never return, although every thread that can make a step in the end does. |
| `user_degrades` | The system is "not supposed to degrade" (`src/README.md:37`). Page directories are never returned; after `THREAD_LIMIT` program starts the shell cannot start another one. Page tables, frames and tids are not returned either; `src/README.md:919` has the reaper call `frame_free`, but that line of `thread_reap` is a comment. |
| `tid_exit` | A thread "should be able to exit [...] at arbitrary times" (`src/README.md:558`). `close()` marks the thread EXITED before it returns the tid; a timer interrupt in between takes the thread away, perhaps with `bitmap_lock`. The next thread that exits waits for ever, and `block()` replaces its EXITED by BLOCKED. |

## Bounds

* `thread_lists`: four heap threads and the boot thread, two wait queues.  A list
  operation touches a thread and its two neighbours; with four threads there is a ring
  in which these are distinct and one more, and queues in which a walk takes two steps.
  A switch can come between any two links of a splice only in the mutant: the callers
  of `thread_create` have interrupts off.
* `sync_*`: three threads (one blocked, one running, one that comes in between), one of
  them a user thread where locks are used.  One object of a kind, since
  objects share only the lists and `Cpu`.  `MaxRounds` = 2 arrivals: a fast thread can
  be back while a slow one has not left.  In the proofs all of these are arbitrary.
* `mbox`: a buffer of 4 bytes with messages of 2 and 3 bytes, 2 of them header, so that
  headers and contents wrap at every offset and the buffer is exactly full and exactly
  empty.  Two threads of a kind, so that the wrong one could be woken or two could
  sleep; one of them opens and closes the mailbox.  One mailbox: mailboxes share nothing.
* `heap`: 5 bytes, blocks of 1 to 3 bytes, a node for every cluster.
* `user_threads`: 7 heap blocks, 4 tids, 3 page directories, 6 page tables, 8 frames,
  programs of 1 and 2 pages: heap, tids, directories and frames all run out.  The
  proportions are those of the code where it relies on them
  (`MAX_USER_PT >= 2 * THREAD_LIMIT`, `TidLimit >= THREAD_LIMIT`).  Arbitrary in the
  proof, but for these proportions.
* `tid_allocator`: three kernel threads and the boot thread, 4 tids in bytes of 2 bits:
  a tid is reused while others of its byte and of the other byte are held.  Arbitrary
  in the proof.
* `terminal`: 2 characters of buffer, a line of 2 characters and the terminator, a
  screen of 2 rows of 4 columns with tabs of 2 and chars from -6 to 5; `MaxKeys` = 5
  keys and `MaxWrites` = 1 text of a program take the buffer and the line to their
  limits, and the cursor across the end of a row, of the screen and of a char.
* `loader`: sectors of 2 bytes, pages of 2 sectors, names of 2 letters, 2 directory
  entries and up to 3 programs out of four files: with one and two segments, empty, not
  ELF, and with names that are equal after the cut.  LBA registers of one bit, so that
  every register is used; a device that is absent, of the wrong kind or a disk.  The
  kernel has fewer sectors than the 8-bit count of the BIOS call can hold, and the disk
  fewer than its registers can address.

Symmetry is used only for safety properties and over threads the models treat alike.
The machine may stop (`CHECK_DEADLOCK FALSE`) where the code calls `halt()`: when the
last runnable thread blocks or exits.

## Fairness

* `thread_lists`: weak fairness of the switch and of a splice that has begun.  The
  timer is periodic and a user thread always runs with interrupts on.
* `sync_objects`: strong fairness of each thread's steps and of its
  yield when it has nothing left to call, and a timer that keeps firing while interrupts
  are on.  The ready queue is round robin (`EveryReadyThreadRuns`), so a thread that is
  runnable again and again gets the CPU.  The yield is needed: `sync_spin` has the same
  fairness for threads that do not yield, and there `EveryCallReturns` fails.
* Locks are not fair (a thread can take a lock between the release and the
  run of the woken thread), so no liveness is claimed for `acquire`.
* `terminal`: weak fairness of the shell, which polls for ever.
* `loader`: weak fairness of the loader, the driver and the device together: a device
  that is busy answers in the end, with data or with an error.  `ata_wait` has no
  timeout, so with a device that stays busy for ever no call would return.
* `tid_exit`: threads inside a call make progress in their time slices, and time
  slices end.

## Proofs

`SyncProofs` proves, for finite sets of threads of any size and any sets of locks,
conditions, semaphores and barriers (`ThreadsAssumption`, `UserThreadsAssumption`,
`ObjectsAssumption`), that `Spec` implies always `TypeOK`, `DepthCountsSections`,
`SectionsAreAtomic`, `OneListPerThread`, `MutualExclusion`, `NoLostWakeup`,
`SlotsAreConserved` and `BarrierCountsWaiters`; `SyncMonitorProofs` proves
`Spec => ImplementsMonitor`, `TidProofs` `Spec => []TidsAreUnique` for `TidAllocator`,
and `UserProofs` that `Spec` of `UserThreads` implies always `AddressSpacesAreDisjoint`,
`OwnedIsAllocated`, `TidsAreUnique`, `LoadedIsMapped` and `HeapIsReturned`.

None of the invariants of `Sync` is inductive alone.  The inductive invariant `SyncInv` joins them with
three facts:

* `ResumesDisabled` (in `CpuInv`): a thread that waits inside a section resumes with
  interrupts off.  Without it a switch could enter a section with interrupts on, and
  another thread could then read a depth that is about to change.
* `WaitersAreInside`: whoever is in a wait queue is inside its section, and in the
  queue of the lock it wants.  This makes the depth count the sleepers and tells which
  threads a release can wake.
* `Discipline`: until it has left its section a thread still holds what the call
  requires; a thread that is interrupted before `cli` finds its lock still its own.

The argument: a step of `enter_critical` before `cli` changes no shared data but
`critical_saved_flags`, about which the invariant says nothing; a body runs with
interrupts off from `cli` on, so it is one step and each conjunct has to be shown once
per function; `block()` and `unblock()` move one thread between lists, which
`RingProofs` (elements, lengths and absence of duplicates of every operator of
`RingOps`) and `SyncLemmas` (`BlockInv`, `LeaveInv`, the `OneList...` lemmas) show to
keep the lists disjoint and complete.  `NoLostWakeup` is kept because a release wakes a
waiter that then is a contender (`Offered`), and a contender stops being one only by
taking the lock.  `SyncLemmas` has the invariant of `Cpu` and that of `Sync`, its initial
case and what `leave_critical` and `block()` do to each conjunct; `SyncObjectProofs` has
one lemma per function of `Lock` and `Semaphore`; `SyncProofs` has those of `Condition`
and `Barrier` and joins them.

The monitor.  `ImplementsMonitor` maps the owner of a lock to the thread in `held`, the
waiting threads of a condition to its queue, and the signalled ones to those that are in
`wait()` and not in the queue.  Besides `SyncInv` the refinement needs `WaitersWait`:
whoever is in the queue of a condition is in `wait()` on it, so that a signal moves a
thread from waiting to signalled.  `MutualExclusion` makes the owner unique, hence the
mapping a function.  `UnseenStep` shows that a step which changes no lock, no condition
queue and nobody's place in `wait()` is a stuttering step of `Monitor`; the timer, system
calls, `enter_critical`, semaphores and barriers are of this kind.  `AcquireStep`,
`ReleaseStep`, `WaitStep`, `PickStep` and `SignalStep` match the others with the action
of the monitor.

The tids.  `TidInv` adds four facts to `TidsAreUnique`: bitmap_lock keeps all but one
thread out of the bitmap (`PoolIsExclusive`); the byte that is about to be stored is the
one that was loaded (`BytesAreFresh`), which is what exclusion is needed for; only
`kernel_main` creates (`OnlyBootCreates`); and what a thread has is marked
(`TidsAreMarked`), so that the search in `allocate` cannot return it.  The lock is taken
and released by the same thread, also when `block()` has overwritten its state, and a
thread that is switched out for ever keeps it: uniqueness survives what breaks
`EveryExitCompletes`.  The assumption is `LimitsAssumption`, at least as many tids as
page directories.

User threads.  The inductive invariant `UserInv` (in `UserMemory`) adds to the five
properties what they rest on:

* `PoolsKeepStep`: directories, tables and frames are never given back, so each pool is
  used up from its first entry on, and the tids in use are those of the directories in use
  as long as a directory is left.  A new thread's tid is therefore the number of its
  directory (`DirsOK`), which is why tids stay unique: `IDAllocator::next` damages its
  bitmap only when all tids are used up, and then there is no directory for the thread
  either.  At most two tables per directory are used, so `map_page` always finds one.
* `PagingOK`: a table is under one entry of one directory in use, a frame under one entry
  of one table.  Disjoint directories thus mean disjoint address spaces.
* `RingOK` and `BlocksOK`: a thread is in the ready queue once or is the zombie, and two
  threads share no heap block.  `thread_reap` then frees the blocks of one thread only.

`UserMemory` shows what a call does to the memory: `MapPage` (one `map_page` with a new
frame touches nothing that was mapped before), `LoadedFacts` (the page loop, by induction
over its rounds), and `CreateFacts` (`thread_create` fails and leaves the threads alone,
or all that it returns is new).  The induction is over a set of round numbers
(`SetInduction`, from the well-foundedness of the naturals), not over a predicate.
`UserProofs` has one lemma for each step, and takes `load_program` apart by where it
fails (`FailedInv`, `CreatedInv`).  The assumption is `LimitsAssumption`: every program
fits one page table, there are two tables and a tid for every directory, and one program
is the longest (there are finitely many).

Only model-checked: the thread lists, mailboxes, heap, terminal, image, disk and loader;
`BarrierLockstep` and `NeverHalts`; the refinements other than that of `Monitor`; all
liveness (the prover has neither fairness nor ENABLED); and what the other recursive
functions compute (the walks over the lists).

## Not modelled

The serial driver, number formats, descriptor tables, PIC, and the boot block but for its
BIOS call (`components` says why for each).  The patch of `prog_dir_lba` at offset 6
(`createimage.cpp:199`) overwrites the first instructions after the data of the boot block
(`bootblock.s:14`); what the processor makes of them is not modelled.  Nor are errors of
the host's file system in `createimage`.  The device behind the ports of the disk driver
is modelled from how the driver uses it.  The only caller of `ata_write_sector` is the
disk test of `kernel_main`, which is commented out and writes LBA 31, by its own comment
"not a safe spot"; the model has the test, on a sector of the kernel.  `p_vaddr` and `p_memsz` of a
program header are looked at neither by `createimage` nor by `load_program`, and so the
place of a byte is its offset in the file from the first segment.  A mailbox is opened
with a key that is in range.  Registers and stack frames appear only
as the place where a thread resumes and its interrupt flag.  The
nodes of the heap are not limited in the model (`FreedSpaceIsCoalesced` bounds how many
the live blocks need); double `close()` of an ID and messages larger than a mailbox do not
occur in the system as it is.  That free clusters at both ends of the heap are never
merged depends on a block at the top of the heap that `init_ids` allocates first and
nobody frees; `ClusterPool` starts with this block.

## Plan

Done so far: the lists with the splice, the CPU, the synchronisation objects, mailboxes,
heap, user threads, tids, terminal with its screen, image, disk and loader; the theorems
on `Sync`, its refinement of `Monitor`, the tids and the user threads.  What could follow:

1. `alloc_page_directory` and `frame_alloc` with interrupts on, as kernel_main's
   commented-out tests would call them.
2. Theorems: `Channel` refined by `Mbox` (safety part, from `SpaceIsFree`), and the
   tiling of the heap.
