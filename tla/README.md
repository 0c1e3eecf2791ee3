# uCore (lab8): models, checks and proofs

uCore is a small teaching kernel for one i386 processor. The repository holds it as a
series of labs; `lab8/lab8_codes` is the last and contains all the others. The modules here
are translated from `src/lab8/lab8_codes`; paths below are relative to that directory.

The contents: [1 the system](#1-the-system), [2 the modules](#2-the-modules),
[3 the runs](#3-the-runs), [4 bounds](#4-bounds), [5 fairness](#5-fairness),
[6 proofs](#6-proofs), [7 where the code disagrees with its documents](#7-disagreements),
[8 not modelled](#8-what-is-not-modelled), [9 plan](#9-plan).

To repeat a run: `tlc -config MCProc_safety.cfg MCProc` (module and configuration of each run
are in section 3). To repeat the proofs: `tlapm` on each of `SchedProofs.tla`, `ProcProofs.tla`, `SemLockProofs.tla`,
`PhilProofs.tla`, `StdinProofs.tla`, `FilesProofs.tla`, `DataProofs.tla` and `AddressSpaceProofs.tla` (the last three take ten to fifteen minutes each).

## 1 The system

Interrupts are the only source of concurrency: there is one processor, kernel code is never
preempted, and a trap that comes from the kernel returns to where it was. `trap()`
(`kern/trap/trap.c`) tests for a kill and calls `schedule()` only when it returns to user mode.
Interleavings therefore arise at three places: at every call of `schedule()`, at every
interrupt that arrives while interrupts are on (also inside kernel code, but there it only runs
its handler), and between a decision to sleep and the `schedule()` that follows it.

| component | state | operations | talks to |
|---|---|---|---|
| process life cycle (`process/proc.c`) | `state`, `wait_state`, `flags`, `parent`/`cptr`/`optr`/`yptr`, `nr_process` | `do_fork`, `do_exit`, `do_wait`, `do_kill`, `do_sleep`, `do_yield`, `do_execve` | scheduler (wakeups), timers, address spaces, open files |
| pid allocation (`proc.c: get_pid`) | `last_pid`, `next_safe`, the list of processes | `get_pid`, `hash_proc`, `remove_links` | fork and wait |
| scheduler core (`schedule/sched.c`) | `current`, `need_resched`, the run queue | `wakeup_proc`, `schedule`, `run_timer_list` | everybody who sleeps or wakes |
| stride class (`schedule/default_sched.c`) | skew heap, `lab6_stride`, `lab6_priority`, `time_slice` | enqueue, dequeue, pick, tick | behind the scheduler core |
| skew heap (`libs/skew_heap.h`) | three pointers per node | insert, merge, remove | stride class |
| timer list (`sched.c`) | `timer_list` of differences | `add_timer`, `del_timer`, `run_timer_list` | `do_sleep`, clock interrupt |
| semaphores, wait queues (`sync/sem.c`, `wait.c`) | `value`, `wait_queue`, `wakeup_flags` | `up`, `down`, `try_down` | file system locks, monitors |
| monitors (`sync/monitor.c`) | `mutex`, `next`, `next_count`, `sem` and `count` per condition | `cond_wait`, `cond_signal` | semaphores |
| synchronisation check (`sync/check_sync.c`) | the philosophers' states | two programs of dining philosophers | semaphores, monitor, `do_sleep` |
| keyboard device (`fs/devs/dev_stdin.c`) | ring buffer, two positions, wait queue | `dev_stdin_read`, `dev_stdin_write` | keyboard interrupt, scheduler, kill |
| page allocator (`mm/default_pmm.c`) | list of free runs, `nr_free`, page flags | init, alloc, free | all memory users |
| kernel heap (`mm/kmalloc.c`) | circular list of free blocks, `bigblocks` | `kmalloc`, `kfree` | page allocator |
| address spaces (`mm/vmm.c`), page tables (`mm/pmm.c`) | sorted areas, page tables, reference counts of pages | `mm_map`, `dup_mmap`, `exit_mmap`, `do_pgfault`, `copy_range`, `user_mem_check` | fork, exec, exit, wait, page faults |
| page replacement (`mm/swap*.c`) | list of swappable pages | `swap_out`, `swap_in` | dead after the check at boot (section 8) |
| open files (`fs/file.c`, `fs/fs.c`, `fs/vfs/*`) | tables of descriptors, current directories, reference and open counts of inodes | open, close, dup, read, write, seek, fsync, chdir; fork, exec, exit | SFS, devices, processes |
| simple file system (`fs/sfs/*`) | inodes in memory and on the disk, bitmap and super block in both, blocks | read, write, truncate, load, reclaim, sync, mount | disk |
| disk and output devices, drivers, boot, debugging aids, libraries, user programs, image tools, labs 1 to 7 | | | see section 8 |

What is hard here, and the property that makes each component right:

- *Lost or doubled wakeups.* `do_wait`, `do_sleep`, `down` and the keyboard read mark a process
  as sleeping first and give up the processor later, with interrupts on between. The run pool
  must stay exactly the set of runnable processes that wait for the processor, and a sleeper must
  always have something left that wakes it.
- *Objects on the stack of a sleeper* (`timer_t`, `wait_t`) that an interrupt handler follows:
  they must be linked only while the frame lives, also when a kill ends the wait.
- *Exit against wait*: the child becomes a zombie, wakes its parent, hands its own children to
  `initproc`, in this order, and each step may find the other side awake or asleep.
- *Hand-over of semaphores and monitors*: a unit is on its way to a woken thread that has not run
  yet; nobody may take it, nobody may be forgotten.
- *Numbers that wrap*: strides, pids; *differences* kept instead of values: the timer list.
- *Pages and blocks*, counted or named at several places: each has one owner, or is free, whichever call of fork,
  exec, exit, read or write fails half way. A process sees its own stores only, a reader of a file what was written.
- *Two copies of one fact*: inodes, bitmap and super block are in memory and on the disk and are written at different
  moments; the number of users of an inode is counted, and the users come and go in other processes.
- *Lists changed at many places* (family links, free runs, blocks of the heap, the skew heap), where
  a wrong link shows only operations later.

`PROJECT.json` lists each hazard at its line with the properties that cover it.

## 2 The modules

Names in the modules are those of the source. A `\* Fault:` comment precedes an operator that
writes down a plausible bug at that place; it belongs to no specification and serves to see that
the properties notice it.

**Sched** is the scheduler core: `state`, `wait_state`, `current`, `run_pool` (the run queue
as a set), `need_resched`, `time_slice`. `wakeup(P, st, ws)` is `wakeup_proc` for each process of
`P`, on the states the calling code has already set; `go_to_sleep`, `schedule(next)` and
`run_timers(fired)` complete it. A scheduling class is "any member of the pool". It has no actions
of its own; Proc, Semaphore, Stride, Table and Stdin build theirs on it.

**Proc** (over Sched; checked through **MCProc**) is the life of a process. `pc` says where in its
code a process stands; a step runs from one place where something else can come between to the
next. `Fork`, `InitMain` are `do_fork`; `do_exit`, `ReparentChild` and `ExitDone` are `do_exit`
(its wakeup, one turn of its loop, its end); `Wait`, `WaitReap`, `WaitSleep`, `WaitBadProc`,
`WaitWake` are `do_wait`, which sleeps in a loop; `Sleep` and `SleepWake` are the two halves of
`do_sleep`; `SyscallReturn` and `IrqReturn` are the tail of `trap()`, with its kill test before its
`schedule()`; `Tick` is the clock interrupt in any code that has interrupts on. A slot of `Procs`
is reused after its process has been reaped. A panic is the label `halt` (when `init_main` has
returned) or `panic` (when `initproc` exits otherwise); the machine then stops. Timers are kept as
ticks left per process; TimerList justifies this.

**Timers** and **TimerList**: the abstract timers, each of which counts down for itself, and the list
of differences of `sched.c`, where arming, deleting and expiring adjust the neighbours.
`ImplementsTimers` states the refinement; the mapping sums the differences up to a timer.

**Semaphore** is `sem.c` and `wait.c`: `value`, `wait_queue`, `wakeup_flags`; `up` gives its unit
to the first waiter rather than count it. **SemLock** puts threads on it that take locks, nest them
in one order (the file system's locks do: that of the file system, then of an inode, then for the disk buffer,
`fs/sfs/sfs_inode.c:846-861`), sleep with and without them, are preempted and kill each other.
`Take` is a `down` that finds a unit, or a `try_down`; `Block` a `down` that does not; `Granted` is
the end of `down` after its `schedule()`.

**Dining** is what dining philosophers promise. **Table** holds what the two programs of
`check_sync.c` share: the threads, their sleeps, the meals, and the refinement
`ImplementsDining`. **PhilSema** is the program with semaphores, **PhilMonitor** the one with the
monitor: `cond_wait` and `cond_signal` are modelled step by step, in the program that calls them.
**MCPhil** checks both: the variable `program`, fixed in the initial state, says which of them a
behaviour runs.

**Stdin** is the keyboard device. A read looks at the buffer with interrupts off, announces itself
in the wait queue, and calls `schedule()` with interrupts on (`ReadLoop`, `ReadWake`); `Key` is
the keyboard interrupt, which stores a character, drops one when the buffer is full, and wakes the
queue. `typed` and `got` record what was typed and what readers received.

**SkewHeap** gives the heap's operations on a store of pointers; **Stride** the scheduling class over
it, with strides of `WIDTH` bits compared by the sign of their difference. Its `Spec` is the open
system, where processes are forked, sleep and wake; `ClosedInit` starts the closed one, where the runnable
processes stay the same, as long as nobody sleeps or is created. **MCStride** checks both; `closed`,
fixed in the initial state, says which. Its auxiliary variable `lead` counts, for the closed system, how much further each
process has been advanced than `initproc`, without a width.

**PageMemory** and **FirstFit**: a set of free pages from which a run is handed out whenever there is one,
and `default_pmm.c`, which keeps the free runs in a list in address order, takes the first that
is long enough, and merges what is freed with both neighbours. `ImplementsPageMemory` is the
refinement.

**Slob** is `kmalloc.c`: the circle of free blocks with the place `slobfree` where a search begins,
growth by a page, the special case of `slob_free` at the end of the circle, large objects with
their descriptor, pages that run out at either allocation. Memory is addressed in units.

**GetPid** is `get_pid`, a turn of its loop at a time, with the list of processes that `do_fork`
extends and `do_wait` shortens.

**PrivateMemory** and **AddressSpace**. The abstract one gives every process a memory of its own, in which a page appears
with any contents when it is first touched and then changes only by stores of its process; fork copies it, exec lays out a
program, exit removes it. The detailed one is `vmm.c` over the page tables of `pmm.c`: physical pages with reference
counts, a directory and tables per address space, sorted areas. Its operators (`get_pte`, `page_insert`, `copy_range`,
`exit_mmap`, `load_icode`, ...) take a state of memory and return the next, with an outcome in `ret` that ends what follows
it; the actions apply them: `SpaceFork` (`do_fork`: kernel stack and `copy_mm`), `SpaceExec` (`do_execve`, the failing
paths of `load_icode` included), `SpaceExit`, `SpaceReap` (the kernel stack is freed by `do_wait`), `UserRead`, `UserWrite`
(with their page faults) and `CopyToUser`. `stopped` says why the machine stopped, if it did. Addresses are counted in
pages. What a free page holds is abstracted to `STALE`: a page that a fault maps is not cleared and may show it. One page
that cannot be had stops the machine (`swap_out(NULL)`), so that of the error paths for `-E_NO_MEM` only the one for the
kernel stack, of two pages, is ever taken. A page fault of a user outside its areas stops it, too (`kern/trap/trap.c:211`;
the `do_exit` behind the panic is not reached). The initial state is `user_main`, a kernel thread, before its exec.

**MCData** checks GetPid, TimerList, FirstFit, Slob and AddressSpace together. They share no state in the models (the
heap's pages are an abstract supply, and an address space allocates pages first fit without FirstFit's list). `part`, fixed
in the initial state, says which of the five moves, so that their state spaces add up and do not multiply; every property
holds in all of them.

**FileContents**, **SfsBlocks** and **Files** are the open files and the simple file system; **MCFiles** checks them.
FileContents is the promise: a file is a sequence of bytes, a descriptor an inode and a position of its own, which dup and
fork copy. SfsBlocks has the operations on one file as operators from state to state: the bitmap (`sfs_block_alloc`,
`sfs_block_free`), the map from positions to blocks with its indirect block (`sfs_bmap_get`, `sfs_bmap_get_sub`,
`sfs_bmap_load`, `sfs_bmap_truncate`), truncation and the transfer (`sfs_io` is `sfs_io_nolock`), each with the assertions
of the code as outcomes that stop the machine. Files has the actions: `Open` (`file_open`, `vfs_open`, with each way
to fail), `Close`, `Dup`, `Read`, `Write`, `Seek` (which extends the file), `Fsync`, `Chdir`, the parts of `Fork`, `Exec` and
`Exit` that concern files, `Cleanup_fs` (the sync when `init_main` ends) and `Reset` (the machine is switched off and boots;
with `CLEAN` only after `Cleanup_fs`). `Acquire` and `Release` take and give back references and opens of
inodes, with loading, `sfs_fsync` at the last close and `sfs_reclaim` at the last reference. `lost` counts the references
that `open` with `O_CREAT` and `O_EXCL` forgets (`fs/vfs/vfsfile.c:47`), which is what the code does. Since the kernel is
not preemptive and the disk is polled, a call is one step: no lock of the file system is ever found taken, the file states
`FD_INIT` and `FD_CLOSED` last only within a call, and `reclaim_count` is 1 between calls. So an entry of a table is open with
`open_count` 1, or closed: `files[p].fd` maps the open ones, and `Put` and `Drop` are `fd_array_open` and `fd_array_close`.

**SchedProofs** (lemmas about the scheduler core), **ProcProofs**, **SemLockProofs**,
**PhilProofs**, **StdinProofs**, **FilesProofs**, **DataProofs** (over FirstFit, GetPid, TimerList, Slob and MCStride) and **AddressSpaceProofs** hold
the proofs of section 6.

## 3 The runs

| run | module, configuration | distinct states | what it shows |
|---|---|---|---|
| `proc_safety` | MCProc, MCProc_safety.cfg | 375,404 | below |
| `proc_liveness` | MCProc, MCProc_liveness.cfg | 15,046 | every sleep ends, every dead child of `initproc` is reaped, whoever has the processor gives it up |
| `proc_killed` | MCProc, MCProc_killed.cfg | violation | section 7 |
| `sem_lock` | MCSemLock, MCSemLock.cfg | 5,759 | below |
| `phil` | MCPhil, MCPhil.cfg | 322,315 | below |
| `stdin` | Stdin, Stdin.cfg | 42,493 | below |
| `stride` | MCStride, MCStride.cfg | 542,913 | below |
| `stride_least` | Stride, MCStride_least.cfg | violation | section 7 |
| `data` | MCData, MCData.cfg | 50,539 | below |
| `files` | MCFiles, MCFiles.cfg | 122,479 | below |
| `files_truncated`, `files_reset` | MCFiles, MCFiles_truncated.cfg, MCFiles_reset.cfg | violation | section 7 |

**proc_safety.** `RunPoolExact`: the pool is the set of runnable processes other than `current` and
`idleproc`. `SleeperHasWaker`: a sleeper has an armed timer, or a child it waits for that is still alive
and none that died unnoticed. `TimersMatchSleepers`: a timer is armed only while its owner is inside
`do_sleep`. `WhereAsleep`: nobody is past the `schedule()` of a wait without a wakeup, and
`wait_state`, by which `do_kill` and `do_exit` decide alone, is set only in sleepers. `FamilyLinks`:
the three link fields are a doubly linked list of the children, everybody has a living parent,
`nr_process` is right. `InitExitsLast`: `init_main` gives up only when nobody else is left.
`ZombieNeverWakes` and `ReapedByParent`: a dead process stays dead and is freed once, by its
parent.

**sem_lock.** `Conservation`: each unit is counted, held, or on its way to exactly one thread; for a
lock this is mutual exclusion. `NoUnitBesideWaiter`: no unit lies idle beside a waiter.
`WokenWithUnit`: the assertion of `down`, with kills arriving. `WaiterServed`: a waiter gets the lock
although others come again and again; this needs the queue to be first in, first out, and the lock to be
handed over.

**phil.** `OneInside`: one thread holds the mutex or the monitor, one that is being handed it included.
`CountsMatch`: `next_count` and the counts of the conditions equal the threads waiting there, whenever
it matters. `ImplementsDining`: no two neighbours eat. `AllQuit`: all philosophers finish; none is left
hungry, although `phi_test_sema` runs for a neighbour who is still on his way to his own semaphore.

**stdin.** `NoSleepBesideChar`: no reader is left asleep beside a character. `WaitOnStack`: the `wait_t`
on a reader's stack is in the queue only while its frame lives. `InOrder`: if nothing overflowed,
the characters come through once and in order; however often it did, the ring holds no more than it
has room for and nothing older than what was read from a slot before. `KillEndsRead`: a kill that wakes
a reader ends its read, unless a character gets there first.

**stride.** `HeapIsPool`, in the open and the closed system: the heap holds the run pool, with all
pointers matching, although the comparison need not be an order in the open system. In the
closed one, `ClosedGapBounded`: nobody is ever advanced more than `BIG_STRIDE` further than another, counted without a width,
and the wrapped difference of two strides is the true one, hence its sign is an order and the least is picked; and
`ClosedPoolRuns`: everybody runs, unless from some time on nobody who is picked advances. The exception is the code's:
`lab6_set_priority` accepts a priority above `BIG_STRIDE` (`process/proc.c:1088-1094`), which makes the step 0
(`default_sched.c:132`), and then one process can keep the others from running.

**proc_liveness.** `SleepEnds` and `OrphanReaped` assume a fair class (section 5). `CpuGivenUp` does not: whoever has the
processor comes back to `schedule()` although it need never make a call, since the tick uses up its slice and the tail of
`trap()` acts on `need_resched`.

**data.** `UniquePids`: no two processes share a pid across wraps of `MAX_PID`; `GetPidEnds`: the scan, which starts over on
collisions, ends. `ImplementsTimers`: every timer fires at its own tick. `Coalesced` and `ImplementsPageMemory`: free runs are
in order, apart, and add up to `nr_free`; an allocation succeeds whenever a run is long enough. `HeapSound`: objects, free
blocks, descriptors and pages never overlap and none gets lost; the circle stays in address order. `PagesExact`: each physical
page is free or held at one place, with the right reference count, through forks, loads that fail at any point, exits and
waits; with all processes gone all pages are free, which `init_main` asserts. `AreasHold`: areas are in order and apart,
also where a program's headers overlap, whatever is mapped lies in one with its rights, and the kernel never faults on
memory that `user_mem_check` let pass. `ImplementsPrivateMemory`: a store is seen in one process only, a fork copies all there
is and nothing else, and an exec leaves the program, zeros and the arguments.

**files.** `CountsExact`: an inode is in memory exactly as long as somebody refers to it, and both counts are
the number of those who do. The references `open` forgets (`lost`) count as somebody's: that leak is the code's and is excused here. `OneOwner`: each block is free, or named at one place of one file; a full disk, also in the
middle of a call, loses none. `ReadReturns`: what a read of any position and length hands out is what the file holds.
`ImplementsFiles`: files are the bytes that were written, zeros where nothing was; no content of another file or of an
earlier owner of a block shows up, and nothing is lost when inodes leave memory or the machine is switched off after the clean-up.

Deadlock is checked in every run. The systems do not stop: the clock ticks; after a panic Proc has the
explicit step `Stopped`, Files `Panicked` and AddressSpace `SpaceStopped`, where it has stopped in
the code as well.

## 4 Bounds

- Proc: five slots (`idleproc`, `initproc`, three users) with `MAX_PROCESS` 5 allow a child, a sibling and a
  grandchild at once, hence reparenting of a zombie to an awake or sleeping `initproc`, removal of the oldest,
  middle and youngest child, and reuse of a slot. The users are symmetric (only the safety run uses
  symmetry). Time slices of 1 let every tick preempt. `MaxSleep` 1 in the safety run makes each
  timer fire at the next tick, 2 in the liveness run has timers pass each other; the list itself is checked with 4.
- SemLock: three threads, a lock and inside it a semaphore of two units: two waiters queue behind a
  holder, and a unit can be on its way while another is free. One thread may sleep.
- Philosophers: `N` 3 and `TIMES` 2 instead of 5 and 4. With three, everybody neighbours everybody; both
  neighbours wait on one, and one who has eaten meets the table again.
- Stdin: two readers, two slots, reads of up to two characters, four typed: the ring wraps and
  overflows, one wakeup serves two readers, and a read takes its characters in two parts.
- Stride: 3 bits and three processes (`BIG_STRIDE` is the largest positive number, as in the code, and is 3 here):
  strides wrap every few picks. In the closed system the priorities 0, 1, 2 and 4 give steps of 3, 3, 1 and 0: one is above
  `BIG_STRIDE`. In the open one all three processes come and go, with priorities 0 and 2. `stride_least` uses 4 bits with one priority.
- Address spaces: two processes and 17 pages, one less than two full ones need: memory runs out at the last page fault, and at
  the kernel stack of a fork, but each copy and each load can also succeed. Four virtual pages, three of which share a page table:
  text and stack lie in the same table, the stack in two. Five programs: a good one, one that is no program, one with
  overlapping headers in either order, and one whose file ends early, with an area mapped and a page allocated.
- Files: `initproc` and one user process, or two where processes fork (part `fds`); two files and two directories; two descriptors, one of which exec keeps; three blocks of
  two bytes, one direct and one entry in the indirect block. So a file needs the indirect block for its second block, two
  files fill the disk, and an extension fails between the indirect block and the block behind it. Writes of one and three
  bytes start and end inside blocks and at their borders. With `SFS_MAX_FILE_SIZE` 5, as in the code, positions are allowed that no
  entry can map (128 MB against 12 + 1024 blocks, `fs/sfs/sfs.h:20`, `sfs_inode.c:286`). `MAX_INODE_COUNT` 6 is
  reached. The run is in three parts, each with all calls that bear on its question: one descriptor each of two files and the disk's
  blocks (`io`), two descriptors each of one file (`share`), and all calls that move references, with few transfers (`fds`).
- Data: 4 processes and 6 pids, so that pids wrap with old ones in use; 3 timers of up to 4 ticks; pages 0-3 and
  5-6 with a hole that must not be merged over; a heap of 3 pages of 4 units of 2 bytes, with sizes of one
  unit, several units, and several pages, so that blocks split, merge on either side and run out. The sizes leave out two
  edges that no caller in the kernel reaches: just below `PAGE_SIZE - SLOB_UNIT`, where the assertion of `slob_alloc`
  (`mm/kmalloc.c:100`) counts the header twice, and just above a power of two pages, where `find_order` (`:215-221`) rounds down.

Larger widths, page sizes and process counts add values that the code treats alike: what it compares are these parameters,
their sizes against one another (a priority against `BIG_STRIDE`, a position against what a file can map), and the
bounds have a value on either side of each but for the two edges of `slob_alloc` above.

## 5 Fairness

- *Kernel code runs to its next `schedule()`*: weak fairness of the kernel's own steps. It is not preempted
  and its loops end.
- *The clock ticks*: weak fairness of `Tick`. Interrupts are off only for bounded stretches.
- *The class picks everybody who stays in the pool*: strong fairness of `Schedule(p)` for each `p`. `SleepEnds` and
  `OrphanReaped` need it, and it is an assumption that the code does not guarantee: a process with a priority above `BIG_STRIDE`
  does not advance and is picked for ever, and each new process starts at stride 0. For a fixed set of runnable processes
  the `stride` run shows of the stride class itself (`ClosedPoolRuns`) that only the first can keep somebody from running;
  it needs no fairness but that picks that advance somebody go on. For processes that come and go nothing is shown. `CpuGivenUp`
  does not need this assumption.
- *Users are under no obligation*: they need not exit, release the processor, or type. What
  SemLock assumes beyond this is that a kernel thread that is inside locks gives its outermost one back
  and that one without locks leaves the kernel, as the callers in the file system do; the philosophers follow their program.
- *Timers fire* in SemLock and Table, where they are not kept: this is `SleepEnds` of Proc and
  `ImplementsTimers`.
- `get_pid` runs with interrupts off from beginning to end: weak fairness of its steps.

## 6 Proofs

TLAPS checks the following for all values of the constants that meet the named assumptions of the modules involved
(`SchedAssumption`, `ProcAssumption`, `SemAssumption`, `SemLockAssumption`, `TableAssumption`, `PhilSemaAssumption`,
`PhilMonitorAssumption`, `StdinAssumption`, `SfsAssumption`, `FilesAssumption`, `FirstFitAssumption`, `GetPidAssumption`,
`TimerListAssumption`, `StrideAssumption`, `AddressSpaceAssumption`, `ImagesAssumption`). They fix what kind of thing a
constant is, that there are finitely many processes or threads, with no bound on how many, that the regions of memory
boot finds come in the order of addresses with something between them, as those of a memory map do, and that the headers of a
program have the fields of ELF program headers. The provers are the SMT solver,
Zenon, and LS4 for the temporal steps. The inductive invariants were checked by TLC, on the constants of the runs, before they were proved.

**ProcProofs.** `TypeCorrect`; `RunPoolCorrect`; `TimersCorrect`; `WhereAsleepCorrect`; `ZombieCorrect`.
The first two are inductive: `RunPoolExact` needs the types alone, since whatever changes `state` or `current` either
enqueues (lemma `WakeupPool`), or puts `current` to sleep, which is not in the pool, or is `schedule()`
(lemma `SchedulePool`). `TimersMatchSleepers` and `WhereAsleep` need each other and the pool: that the owner of a
firing timer is asleep in `do_sleep` follows from the labels, that the process `schedule()` picks has been
woken follows from the pool, and that a process past its `schedule()` is not asleep follows from
both. The invariant is therefore
`IInv == ProcTypeOK /\ RunPoolExact /\ TimersMatchSleepers /\ WhereAsleep`, every conjunct of which `proc_safety`
checks too. `ZombieCorrect` is an action property from `IInv`: each wakeup goes to somebody with a
`wait_state`, or to a new process, and a zombie has none and is not new.

**ProcProofs, the family.** `FamilyLinksCorrect`, `SleeperHasWakerCorrect`, `InitExitsLastCorrect` and `ReapedCorrect`, for families of any
size. `FInv` adds to `IInv`:
`Links` (the three link fields mirror each other, siblings have one parent, and some ranking of the processes grows along `optr`, so that
a list of children has no circle), `Parents` (who has a parent, and that a parent is alive or in the loop of `do_exit`), `Tree` (another ranking,
along `parent`: everybody descends from `initproc`), `InitMainOnly`, `Counted` (`nr_process`), `Waiting` (whoever is asleep in `do_wait`
has a child it waits for, and none of those is a zombie) and `InitExitsLast`. `do_exit` walks its children from the front and leaves the
`yptr` of the new front as it is until that child's turn; `Links` therefore speaks of `Younger`, which is `yptr` but for this
one field. `Tree` carries `InitExitsLast`: `init_main` stops when `initproc` has no child left, and it is the ranking that says that then
nobody else can exist. That the wakeup in `do_exit` is not missed needs `Parents` and `Waiting` together: the parent is alive when
its child dies, and either awake, or asleep and woken by `WT_CHILD` in the same step. Lemmas about link fields as values
(a birth, an unlinking, a move to `initproc`) carry the steps. `FamilyLinks` itself says that the list from `cptr` along `optr` reaches each child;
`Links` implies it by induction over the length of the list (lemmas `ChildRec` and `NatInd`, the latter induction for a property given as a set).

**SemLockProofs.** `ConservationCorrect`, `NoUnitBesideWaiterCorrect` and `WokenWithUnitCorrect`, for any finite number of
threads, any semaphores with any initial values, and any nesting. What makes them inductive is who stands in
which queue: `QueuesSleep` (a thread in the queue of a semaphore is asleep in the `down` of that semaphore, and
nobody has handed it a unit), `OnceInQueue` (it stands there once), `WaitsForSem` (its `wait_state` is one that neither a kill nor
a timer ends), `WokenByUp` (if it could go on, it has its unit) and `RunsUnqueued` (a thread whose code runs is in no
`down`). Steps that move no unit are `Quiet` and are dealt with together: they wake or put to sleep only threads that
are in no `down`. The others have a lemma each. `up` needs all of the above: the waiter it hands the unit to had none
before, leaves the only queue it stood in, and is not the thread that runs. `down` after its `schedule()`
finds itself in no queue (lemma `GrantedQueues`): `wait_current_del` never has anything to delete there.

**PhilProofs.** `OneInsideCorrect`, `CountsMatchCorrect` and the refinement `ImplementsDiningCorrect`, for any number of philosophers
and meals. `SemaInv` and `CondvarInv` are the invariants of the two programs. Common to both is `InQueues`: the queue of
each semaphore holds, once each, exactly the threads that stand in a `down` on it without their unit. From it follows what `up` does
(`UpEffect`: the unit is counted only if nobody waits, otherwise one waiter has it) and what `down` finds after its `schedule()`.
`Exclusive` says that `mutex` is open and nobody is inside, or it is closed and one thread is: a thread that has been handed `mutex` or a place
in the monitor counts as inside, and one that has given it up does not any more. For the monitor,
`WaitersCounted` and `SignallersCounted` say whom `count` and `next_count` count. A signaller decides by these two numbers alone whom to
wake and to whom to hand the monitor, and `SignallersCounted` adds that `mutex` is closed as long as a signaller waits, or one who enters would meet it.
`StatesCondvar` says which state a philosopher has at which point of his program, and that one who has been signalled eats already. The refinement
maps `state_sema` and `state_condvar` to the abstract states; a step that makes a philosopher eat is a test of both neighbours made by the one thread
inside, so that it is the abstract step, and every other step is a step of one philosopher or leaves the states alone.

**StdinProofs.** `NoSleepBesideCharCorrect`, `WaitOnStackCorrect` and `InOrderCorrect`, for any number of readers and any buffer. The
invariant has a part about sleeping and one about the ring. For the first, `IdleStays`, `CurrentRuns` and `WaitsAsleep` say when a
process is asleep: a reader announces itself, and is a sleeper from then on, although it still runs until its `schedule()`, and a key
that arrives in between must take it out of the queue and make it runnable again. For the second, `RingExact` says that until the buffer
overflows the slots between the two positions hold just the characters typed after those that were read; its lemmas are about
remainders (`OneSlot`: positions less than a round apart have slots of their own). After an overflow `InOrder` is its own invariant.

**FilesProofs.** `FilesSoundCorrect` and `CountsExactCorrect`, for any number of processes, descriptors, inodes and blocks.
`IInv` says that as long as the machine runs the tables of descriptors and the inodes in memory have their shapes (`IsTables`, `IsCache`), and that
each inode counts the references and opens that these tables hold (`Exact`). The shapes are needed since counting is done over records
and functions that differ at one place. Lemmas about the tables as values say how each way to change them moves the number of
descriptors and current directories on each inode (`PutNew`, `PutSame`, `DropCounts`, `ForkCounts`, `ExitCounts`, `ChdirCounts`); lemmas about the
inodes say what taking and giving back does to exact counts (`AcquireExact`, `ReleaseExact`, `LeaveCounts`). A call combines one of each.
`ReleaseExact` is where an inode may leave memory: only with its last reference, and then nobody has it open. The inodes' contents do not matter
here: a transfer leaves the counts of its inode alone, whatever it does to the blocks.

**FilesProofs, the blocks.** `FsSoundCorrect`, `OneOwnerCorrect`, `ReadReturnsCorrect` and `InUseAssertCorrect`, for any number of blocks and
files, any block size, and any numbers of direct and indirect entries, from the same `IInv` and from `FsIInv`. The invariant is `Stored`: the free set
and the numbers that files name make up the blocks, each of them once (`Parted`); a file of `blocks` blocks names one at each of its first `blocks`
places (`Filled`); the count of free blocks is that of the bitmap; and what is clean in memory is what the disk has (`Bitmaps`, `Inodes`). The
last is needed for what happens when an inode leaves memory or the machine is switched off. It is stated weakly at one place:
`sfs_bmap_load_nolock` counts a block that it adds to an indirect block (`blocks++`) and leaves it to its callers to mark the inode dirty, so the
invariant lets a clean inode have more blocks than the disk says (`Later`); which blocks it names is the same. Each operator of SfsBlocks has a
contract (`Owned`, `Apart`, `Keeps`): it keeps the blocks of its file and the free ones apart from those of all
other files, `X`, and changes none of these. A transfer is a step for each block it touches; `IsRead` says what has been read before each of
them, and the induction over the blocks is one lemma. That
`fs_cleanup` leaves nothing dirty (`IsClean`) is what the mount after it relies on. All four theorems assume `CLEAN`: the machine is switched off only after
`fs_cleanup`. Otherwise an inode may be on the disk before the bitmap that allots its blocks, as run `files_reset` shows. Finiteness of
`BLOCKS` is assumed since `unused_blocks` is a number.

**DataProofs, the page allocator.** `MemoryIInvCorrect`, `CoalescedCorrect` and `ImplementsPageMemoryCorrect`, for any number of pages and any regions.
`MemoryIInv` says that `free_list` is in the order of addresses (`IsList`), that its blocks, taken as a set, are apart (`AreBlocks`), that they
are the pages with `PG_property` set, that `nr_free` is the number of pages they hold, and, while boot goes on, that the next region
lies behind them (`BlocksBelow`; `default_init_memmap` adds at the end). List and set are kept apart on purpose. What removing,
inserting and replacing an element does to a list is said once, by a lemma each. The first loop of `default_free_pages` is about the
set: its invariant `Loop` says after any blocks `V` have been looked at that the block in hand overlaps none that is left, touches none of those in
`V` that is left, and that the pages are the ones there were and those being freed (`ClearOf`, `Covers`). One turn keeps
it (`MergeLoop`, over `JoinBlocks`), whatever the order in which the blocks come, and `MergeAllLoop` is the induction over the list. Once `V` is
everything, the block touches nothing, and the second loop finds its place (`InsertLast`). An allocation cuts the front
off a block (`SplitBlocks`); that it fails only when it must is `FitsInBlock`: blocks that are apart have a page between them that is not
free, so free pages that follow one another are in one block. Here lies the need for merging: without it `AreBlocks` is lost, and a request could
be refused over two neighbours. The refinement is then step by step: `Added` and `AllocDone` are the steps of PageMemory.

**DataProofs, the pids.** `UniquePidsCorrect` and `GapFreeCorrect`, from
`PidIInv == PidTypeOK /\ CallerWaits /\ GapFree /\ UniquePids`. `GapFree` is what makes the call that stays inside the
gap correct, and during a scan says that the part already walked is accounted for in `next_safe` or the scan starts over;
`CallerWaits` says that the process a pid is sought for is not in the list yet. That the number of processes
is below `MAX_PID` is the assertion at the head of `get_pid`.

**DataProofs, the timers.** `ImplementsTimersCorrect`, for any processes and any times. What the fields of the list add up to is
a recursive function (`Due`); `DueExists` and `DueUnique` are the inductions over the list that say it is what its recursion says, so that
a step is dealt with by giving the sums after it and seeing that they differ by the new fields. `TimerIInv` says that nobody is in the list twice and that
its head has ticks left: a tick takes one from the head without a look. `AddStep`, `DeleteStep` and `TickStep` are the three operations on lists as values:
the walk of `add_timer` stops where the sums pass the time asked for (`WalkStops`), the timer behind a new one gives up what the new one
takes and the one behind a deleted one gets it back, and the timers a tick takes off the front, those without ticks,
are just the ones whose sum was 1.

**DataProofs, the stride class.** `HeapIsPoolCorrect` and `ClosedGapBoundedCorrect`, for any processes, any width of a stride from 2 bits on and any
priorities. `PoolInv == TypeOK /\ RunPoolExact /\ HeapOf(pool, root, run_pool)` carries the first. The nodes of a heap (`Below`) are the least set with
the root that is closed under children, so that `SubHeaps` splits them into the root and two heaps that share no node. `skew_heap_merge` calls
itself; here it is a function of the number of calls that may be below, and since each call has a node less to merge than
the one that makes it, as many as there are nodes are enough (`MergeMerges`, over `MergeStep`). Its contract `Merges` says that the result has
the nodes of both heaps, that pointers match, that nothing outside is touched, and that a heap in order stays in order if the comparison is asymmetric. On it rest
insertion and removal (`InsertHeap`, `DequeueHeap`); nothing there needs the comparison to be an order, and in the open system it is none.
`ClosedInv` carries the second: as long as nobody comes or goes there are numbers that do not wrap, at most `BIG_STRIDE` apart, of which the strides are the
remainders (`Lifts`) and `lead` the differences (`Leads`), and the heap is in order. The sign of a difference of strides is then that of the numbers (`DiffIs`), so that the
root is the least (`RootLeast`), and the least can advance by `BIG_STRIDE` at most and stays within that of all others (`LiftStep`), so that `lead` is never clipped (`GivenIs`). Each
needs the other: without the bound the sign says nothing, and without the order the one who advances could be ahead already.

**DataProofs, the kernel heap.** `HeapSoundCorrect`, for any amount of memory, any size of a page, a unit and a descriptor for which a descriptor
fits a page, and any sizes asked for, those included that the runs leave out. The invariant is
`SlobIInv`: there is a set `B` of blocks that the free list goes round in the order of addresses, wrapping once and leaving no two neighbours
unmerged (`IsCircle`); the units in them and what else is held (small objects, descriptors, runs of pages, free pages) tile memory
(`Tiles`); the unit in front of each small object still says how long it is; and no two objects have the same address, which is what tells
`kfree` whose run a page-aligned pointer is. The set `B` is not among the variables, and that a walk along `next` visits just `B` and comes back to where it
began is proved once (`SearchRound`, from `CircleClosed`: no part of the circle is closed under `next` but the whole). On it
rest that the search of `slob_free` ends at the block in front of the new one, wherever `slobfree` is (`InsertionPrecedes`), and that
`slob_alloc` finds room when a block has it (`RoomIn`). While a block is being put in, two blocks may touch the next (`IsRing`), and each
of the two joins takes one of them away (`AbsorbNone`, `AbsorbOne`); so `SlobFree` says that the units put in are added to the free ones and nothing else
is written, and `CarveGives` that the units handed out are taken off. A heap that grows by a page has room then (`AllocLeads`): the page has come
into one block, alone or merged. Last, each outcome of `kmalloc` and `kfree` exchanges some holdings for others in the same units
(`Exchange`, `Retile`): `AddSmall`, `AddBig`, `AddNone` when there are no pages behind a descriptor, `DropSmall` and `DropBig`.

**AddressSpaceProofs.** `SpaceTypesCorrect`, `PagesExactCorrect`, `AreasHoldCorrect` and the refinement
`ImplementsPrivateMemoryCorrect`, for any number of processes, of physical and virtual pages and of entries in a table, and any programs. The invariant is
`IInv`: as long as the machine runs, directories, tables and areas have their shapes and every physical page is free, or one of one kernel stack, or
at one place of one address space, with the reference count 1 (`SpaceTypeOK`, `PagesHeld`), every address space has its areas in order and each mapped page in one
of them, with its rights and in a table of its own (`SpacesFit`); and the machine has not stopped for one of the reasons that `AreasHold`
excludes. The operators take a state of memory and return one, with an outcome, and each has a contract of that form, of four kinds: what it keeps
of the invariant (`Sound`), what it takes from the free pages and gives back (`Bare`), that it leaves other address spaces alone (`Apart`),
and what a process sees in its memory after it (`Step`). `copy_range`, `unmap_range`, `dup_mmap` and `load_icode` loop over pages, areas and headers
(`Each`); each loop has an invariant of its own, and one lemma is the induction. An operator that fails half way, for want of a page, a header in an
area already laid out, or a file that ends early, has the same contract as one that succeeds: what had been built is
taken down again, or the machine stops. Lemmas named for an action (`ExecLeads`, `ForkLeads`, ...) put the contracts together, one outcome at a time. For the
refinement, `PrivateIs` says what the memory of a process is in terms of its pages, `OthersPages` that a step of one process leaves that of the
others as it is, since no page is held twice, and `LaunchedLaid` that after an exec it is the program as PrivateMemory lays it out. The mapped
contents of a page that a fault brings in are any: this is where the code may show what its last owner left there (`STALE`).

Only model-checked:

- All liveness properties (the prover has no rules for fairness and `ENABLED`).
- `ImplementsFiles`: it asks of a write what `ReadReturns` asks of a read, and of the growing, shrinking and loading of a file what its
  bytes are afterwards; the contracts proved for `OneOwner` say which blocks a call names, not yet what is in them.

## 7 Disagreements

Each of these runs checks one statement of the repository and ends in a counterexample.

- **proc_killed**, `kern/trap/trap.c:302`. Only the tail of `trap()` tests `PF_EXITING`. A new child does not pass it before it
  first runs: it enters user mode through `forkret` (`process/proc.c:241-243`, `:381`). Killed by its parent before
  that, it goes on into a sleep that the kill does not cut short, although `proc.h:72-74` call the process "getting shutdown"
  and those waits ones that "could be interrupted". A second kill only returns an error. This is what the run shows; by the
  same line a process preempted by the `schedule()` below the test (`trap.c:306`) goes back to user mode untested as well.
- **stride_least**, `kern/schedule/default_sched.c:113`. The comment promises the element with the minimum stride. A
  new process starts at stride 0 and a sleeper keeps its old one, so strides can be more than `BIG_STRIDE`
  apart; the sign of the difference is then cyclic and the root of the heap is not the least.
- **files_truncated**, `kern/fs/sfs/sfs_inode.c:356`. A descriptor keeps its position when another one truncates the file
  (`open` with `O_TRUNC`, or with `O_CREAT`, even read-only); its next write asks for a block more than one behind the last and
  the assertion `index <= din->blocks` stops the kernel. `:935` fails likewise when a full disk cut an extension short.
- **files_reset**, `kern/fs/sfs/sfs_inode.c:697`. `sfs_fsync` is to force an inode to stable storage, and does so at every last
  close; the bitmap in which its blocks are taken is written only when `initproc` ends. Switched off before that, the inode names
  blocks that are free, and the next boot stops at `sfs_block_inuse` when the file is used.

## 8 What is not modelled

- *Inside modelled components*: opening, closing and the controls of the keyboard device (no state); the self checks of the
  allocators and of `vmm.c` at boot; entry code and argument passing of traps; the mapping of the kernel itself. In Files:
  descriptors of devices, `stat`, directory entries and path names (they change nothing but references that they give
  back), pipes and the other operations of the VFS that are stubs (`-E_UNIMP`), kernel memory that runs out, and the length of
  directories (sfs has no operation that changes one). Of a seek, `whence` only says what the position is counted from.
- *Page replacement* (`mm/swap.c`, `mm/swap_fifo.c`). `pgdir_alloc_page` makes a page swappable only while
  `check_mm_struct` is set, which it is only within the checks at boot. Afterwards nothing is swapped out or in; that an allocation
  which finds no page still calls `swap_out(NULL)` is in AddressSpace.
- *Composition*: Proc has no memory to run out of, and calls of Files and AddressSpace do not sleep. Both would only
  repeat states of the parts: between its waits a process is not interrupted by another one.
- *Left out*: disk and output devices (the disk is polled, nobody sleeps in them), drivers (port I/O; their interrupts
  are actions of the models), boot (straight-line), debugging aids, libraries (stateless helpers), user programs
  (clients; the models let users call anything), image tools (run on the host), labs 1 to 7 (earlier
  states of the same code).

## 9 Plan

1. Proofs: `ImplementsFiles`, from `FsIInv` of FilesProofs and contracts of `sfs_io` that say what a write leaves in the blocks.
2. AddressSpace over the free list of FirstFit, and the heap with its pages from there, so that runs of two pages
   for kernel stacks meet the fragmentation that page faults and large objects leave.
3. Fork, exit and wait of Proc with a kernel stack that may be refused.
