# A TLA+ verification project for xv6 (fork with swapping, copy-on-write and lazy allocation)

The modules in this directory model the kernel in `src/` component by component.
TLC checks them on small instances; TLAPS proves the most important results for
every value of the constants. `PROJECT.json` lists components, runs, mutants,
the line-by-line map, hazards, findings and theorems.

## 1. The system

xv6 is a small multiprocessor Unix kernel. Each CPU runs either its scheduler
loop or the kernel thread of a process, with interrupt handlers on top of either.
Shared state is guarded by spin locks (held by CPUs, interrupts off), by sleep
locks (held by processes, which may be switched out), and by a few conventions
("the slot is EMBRYO, so it is mine").

| Component | State it keeps | Operations | Interacts with | What makes it correct |
|---|---|---|---|---|
| Spin locks (`spinlock.c`) | `locked`, `cpu` per lock; `ncli`, `intena` per CPU | `acquire`, `release`, `pushcli`, `popcli` | everything | exclusion; interrupts off while held; never taken twice by a CPU |
| Scheduler, sleep/wakeup (`proc.c`, `swtch.S`) | `p->state`, `p->chan`, `cpu->proc`, `ptable.lock` | `scheduler`, `sched`, `yield`, `sleep`, `wakeup`, `forkret` | traps, all sleepers | a process runs on one CPU; `sched` is entered as its asserts say; no lost wakeup; runnable processes run |
| Sleep locks (`sleeplock.c`) | `locked`, `pid` | `acquiresleep`, `releasesleep` | buffers, inodes | exclusion across context switches |
| Process life cycle (`proc.c`) | the process table, `nextpid` | `allocproc`, `fork`, `exit`, `wait`, `kill` | traps, virtual memory, files | every process has a live parent; zombies are reaped; `wait` never sleeps past its event |
| Log (`log.c`) | the on-disk log and header, `outstanding`, `committing`, the list of logged blocks | `begin_op`, `end_op`, `log_write`, `commit`, recovery | buffer cache, disk, every file system call | all-or-nothing transactions across crashes; the log never overflows; sleepers are woken |
| Buffer cache (`bio.c`) | `NBUF` buffers in LRU order, `refcnt`, flags | `bget`, `bread`, `bwrite`, `brelse` | disk driver, log | one buffer per block; no recycling in use; dirty buffers stay |
| Disk driver (`ide.c`) | a queue of buffers, the request in flight | `iderw`, `idestart`, `ideintr` | buffer cache, interrupts | requests finish in order; everyone who waits is woken |
| Pipes (`pipe.c`) | ring buffer, `nread`, `nwrite`, open flags | `pipealloc`, `pipewrite`, `piperead`, `pipeclose` | sleep/wakeup, files | a FIFO of bounded size; nobody sleeps past a byte, a space or a close |
| Inodes, block allocation, directories (`fs.c`) | inode cache, bitmap, directory blocks | `ialloc`, `iget`, `iput`, `ilock`, `bmap`, `itrunc`, `dirlink`, `namex` | log, buffer cache | a cached inode per disk inode; link counts; no block owned twice |
| File table and system calls (`file.c`, `sysfile.c`) | `ftable`, `ref`, `off`, descriptors | `filealloc`, `filedup`, `fileclose`, `fileseek`, `sys_*` | pipes, inodes | a file lives as long as a reference |
| Physical pages (`kalloc.c`) | free list, reference counts | `kalloc`, `kfree`, `inc_ref_pa`, `dec_ref_pa` | virtual memory | a page is free, or referenced as often as counted |
| Small-object allocator (`kalloc.c` `kmalloc`, `umalloc.c`) | circular free list | `kmalloc`, `kmallocfree` | swap map | blocks in use never overlap; free neighbours coalesce |
| Virtual memory (`vm.c`) | page tables | `mappages`, `copyuvm`, `copy_on_write`, `lazyalloc`, `swap` | pages, swap, traps | writable pages are private; shared pages are counted |
| Swap (`fs.c` `swap*`, `unordered_map.c`, `LinkedList.c`) | bitmap of swap slots, map from slot to owners | `swapwrite`, `swapread`, `swapfree` | inodes, log, virtual memory | what comes back is what went out; a slot has one content |
| Console (`console.c`, `kbd.c`, `uart.c`) | input ring `r`, `w`, `e` | `consoleintr`, `consoleread`, `cprintf` | interrupts, sleep/wakeup | lines arrive once and in order |
| Traps and system calls (`trap.c`, `syscall.c`, `exec.c`) | trap frames | dispatch, argument fetching | everything | killed processes exit at the user boundary |
| Boot and hardware (`main.c`, `mp.c`, `lapic.c`, `ioapic.c`, assembly) | device registers | initialisation | - | - |
| User programs (`sh.c`, `usertests.c`, ...) | - | - | system calls | - |

The behaviours that are hard to test, with the line where each of them bites and
the properties that watch it, are the `hazards` of `PROJECT.json`.

## 2. Plan

The order is by what a failure would cost: first what must survive crashes and
what every other component rests on, then the components with several actors,
then the sequential ones.

| Step | Modules | Composes / refines | State |
|---|---|---|---|
| 1 | `Log`, `AtomicDisk`, `LogInv`, `LogProofs` | `Log` implements `AtomicDisk` | modelled, checked, proved |
| 2 | `Sched` | spin locks, sleep locks, scheduler, timer interrupt in one state machine | modelled, checked |
| 3 | `ProcLife` | on the sleep/wakeup that `Sched` justifies | modelled, checked |
| 4 | `Pipe`, `Fifo` | `Pipe` implements `Fifo` | modelled, checked |
| 5 | `Cow`, `PrivateMem` | pages and page faults; `Cow` implements the isolation half of `PrivateMem` | modelled, checked |
| 6 | `Bio` | buffer cache over the disk driver | modelled, checked |
| 7 | `Icache`: `iget`, `iput`, `ilock`, `ialloc`, `dirlink`, `namex` | on `Bio`'s array of blocks and `Log`'s atomic operations | to do |
| 8 | `Swap`: bitmap, `swapMap`, `swapwrite_file`, `swapread_file`, `swapfree_file` | extends `Cow`'s page-table entries by swapped ones | to do |
| 9 | `Ftable`: `filealloc`, `filedup`, `fileclose`, `fileseek`, `filewrite`'s block budget | on `Log`'s `OPBLOCKS` | to do |
| 10 | `Console`: the line-edited input ring | refines a queue of lines | to do |
| 11 | `KMalloc` and pure algorithms (`skipelem`, `UnorderedMap`, `LinkedList`) | operators against reference definitions | to do |

Theorems still worth proving, in this order: `OneBuffer` and `Coherent` of `Bio`;
`ParentLives` and `WaitNotLost` of `ProcLife`; that `Pipe` implements `Fifo`;
`OneCpu` and `IntrOff` of `Sched`; `WritableAlone` of `Cow`.

## 3. Modules and code

**`Log`** models `log.c` with the part of `bio.c` it relies on. `lh`,
`outstanding`, `committing` are the fields of `struct log`; `disk`, `dlog` and
`dhead` are the home blocks, the log blocks and the header block on disk; `cache`
and `dirty` are the buffers and `B_DIRTY`. Every critical section of `log.lock`
is one action. Every disk write (`write_log` and `install_trans` per block,
`write_head`) is an action of its own, and `Crash` can come between any two of
them, also during recovery: it clears memory and starts at `read_head`. The
unlocked checks at the top of `log_write` are a separate action. `wrote` is a
history variable, the blocks of the current operation. `bread_miss` and
`bget_evict` let the cache load and drop clean buffers at any moment.

**`AtomicDisk`** is what the log promises: operations that become durable
together, when none is half way, and a crash that returns to the last commit. In
`Log`, `stable` is what recovery would produce (`Recovered`), `mem` is what
`bread` shows, `active` the operations between `begin_op` and `end_op`.

**`Sched`** models `spinlock.c`, `sleeplock.c`, the scheduling half of `proc.c`,
the timer branch of `trap` and `sys_sleep`. Each CPU has its interrupt flag,
`ncli` and `intena`; a lock is taken in two steps (`acquire` turns interrupts
off, `xchg` succeeds when the lock is free), so deadlocks by interrupt handlers
are visible. A process's `pc` says where its kernel thread stands across context
switches. `procdumpWrite` is there for its unlocked reads of `cpus[]`.

**`ProcLife`** models `allocproc`, `fork`, `exit`, `wait`, `kill` at the
granularity of `ptable.lock`'s critical sections; `sleep` under the lock is
atomic, which `Sched`'s `NoLostWakeup` justifies. `fork` has three steps, since
it releases the lock between them. `named` is a history variable: the pids that
`kill` was given, by slot.

**`Pipe`** models `pipe.c` byte by byte, the close of an end by `fileclose`, and
`kill`. `nread` and `nwrite` count modulo `WORD`, a multiple of `PIPESIZE` as
2^32 is of 512. **`Fifo`** is the bounded queue it implements.

**`Cow`** models `kalloc.c`'s list and reference counts, and `copyuvm`,
`deallocuvm`, `handle_pagefault`, `copy_on_write` and `lazyalloc`. One page of
each address space is enough, since no code relates two pages of a process. What
runs under one lock is one step; `kfree` therefore has three. The list is the
intrusive one (`next`, `freelist`), so pushing a page twice damages it as in the
code. `wait`'s `freevm` runs under `ptable.lock`, that of `exec` and `growproc`
does not. The contents of a page are the name of the process that stored last.
**`PrivateMem`** is the memory a process should see: its own.

**`Bio`** models `bio.c` over `ide.c`. The LRU list is a sequence; the disk is
external and works on the command `idestart` captured, so a queued buffer and its
command are different things. Sleep locks are taken in one step. `stored` is a
history variable: the contents last given to `bwrite` or `log_write`.

## 4. Runs

| Run | Bounds | What it shows |
|---|---|---|
| `log` | 2 processes, 3 blocks, crash anywhere | `Log` implements `AtomicDisk`; nobody is in an operation during a commit (`CommitAlone`); uncommitted buffers stay (`Pinned`); commits are complete (`Durable`); sleepers have a waker (`WakerExists`) |
| `log_live` | 3 processes, 4 blocks, room for 2 operations | `log_write`'s panics are unreachable for operations below `MAXOPBLOCKS` (`LogSpace`); nobody sleeps for ever in `begin_op` (`SleeperWakes`) |
| `log_full` | 3 operations of `MAXOPBLOCKS` | finding: the panic is reachable |
| `sched` | 3 processes, 2 CPUs | one CPU per process, `sched`'s asserts, interrupts off under locks, sleep-lock exclusion, no lost wakeup |
| `sched_live` | 3 processes, 1 CPU, sleeps of 1 tick | no lock is taken twice by a CPU, although the timer handler takes locks and wakes sleepers; no wakeup by it is lost; every runnable process runs |
| `proc_life` | 4 slots, 4 pids | parents live, `wait` misses nothing, pids are distinct, orphans are reaped by init |
| `proc_life_kill` | 3 slots, 4 pids | finding: a process dies that nobody named |
| `pipe` | 2 readers, 1 writer, 2 bytes of space, counters modulo 4 | FIFO, no lost wakeup, the page is freed exactly when everybody has left |
| `pipe_kill_writer` | 1 reader, 1 writer | finding: a reader sleeps beside a full pipe |
| `cow` | 3 processes, 3 pages, 2 forks, guard page or not | isolation, counts cover holders, shared pages are read-only |
| `cow_fresh` | 3 processes, 3 pages | finding: double insertion in the free list |
| `bio` | 2 processes, 2 buffers, 3 blocks, 1 pin, read errors | one buffer per block, coherence, `bread`'s promise, every disk request finishes |

The bounds are chosen so that the hard cases happen: two actors in the same
window and a third that observes, one resource fewer than is wanted (log space,
pipe space, pages, buffers), and counters that wrap. Symmetry is used where the
members of a set are not told apart by the module, and never with liveness. `CHECK_DEADLOCK FALSE` is
used where the system may stop: after a panic, when init has exited, when both
ends of a pipe are closed, when the bound on forks or pids is used up.

Six more configurations reproduce counterexamples and are not among the runs:
`MCSchedProcdump.cfg`, `MCPipeKill.cfg`, `MCCowLeak.cfg`, `MCCowGuard.cfg`,
`MCCowMemory.cfg` and `MCBioError.cfg`. TLC is expected to report a violation in
each of them; section 7 says what it shows.

## 5. Fairness

* `Log`: a process inside an operation, a commit or recovery goes on (weak
  fairness); an operation makes finitely many writes (strong fairness of
  `end_op`), which holds because file system calls are loops over bounded sizes.
* `Sched`: each CPU executes; the timer interrupt is taken if it is enabled again
  and again, and does not starve the code below it (strong fairness of both),
  because its period is longer than its handler.
* `ProcLife`: `init.c` calls `wait` in an endless loop; running system calls go on.
* `Bio`: the disk answers, its interrupt is handled, woken processes run.

## 6. Proofs

`LogProofs` proves, for every finite set of processes, every set of blocks and
contents, and all sizes, from the assumptions of `Log` and `Room`:

* `TypeCorrect`, `LogSpaceHolds`, `CommitAloneHolds`, `PinnedHolds`,
  `DurableHolds`, `WakerExistsHolds`: the invariants the runs check;
* `LogImplementsAtomicDisk`: `Spec => AtomicSpec`, crashes included.

`Room` says that operations write fewer blocks than `begin_op` reserves, by
enough to make up for the header block: with the code's sizes
(`MAXOPBLOCKS` 10, `LOGSIZE` 30, 30 blocks of log) at most 8. `log_full` shows
that the theorem fails without it.

None of the properties is inductive. `LogInv!Inv` strengthens them by five parts:
`Control` (operations, a single committer and recovery exclude each other, and
`outstanding` counts), `Buffers` (who holds which buffer), `Budget` (the log's
length plus the writes operations may still make stays within the reservation,
counted by the set `Credits`), `CacheClean` (an unpinned buffer equals its home
block) and `OnDisk` (what is on disk in each phase of a commit and of recovery).
Each part has a lemma that every step keeps it, with one step per action; `Inv`
follows by `PTL`. The refinement maps a step to an `AtomicDisk` step with `Inv`:
`write_head` is `Commit`, all other disk writes leave `Recovered` unchanged.

Only model-checked: everything in `Sched`, `ProcLife`, `Pipe`, `Cow` and `Bio`
so far; and all liveness properties (`SleeperWakes`, `RunnableRuns`,
`OrphansReaped`, `IderwReturns`), since the prover does not reason about fairness and `ENABLED`.

## 7. Findings

Four runs end in a violation; `PROJECT.json` quotes the lines they contradict.

* `log_full`: the log can panic on operations of the size `param.h` allows.
* `proc_life_kill`: `kill` can mark a slot whose next process then dies.
* `pipe_kill_writer`: a killed writer leaves a full pipe without waking the reader.
* `cow_fresh`: two concurrent frees of a shared page insert it twice.

The further configurations show:

* `MCSchedProcdump.cfg`, run with `Sched`: `procdumpWrite` (`proc.c:646`) follows
  `cpus[i].proc` of an idle CPU, which is null.
* `MCPipeKill.cfg`, with `Pipe`: a `kill` between the test of `killed`
  (`pipe.c:107`) and the sleep leaves the killed process asleep.
* `MCCowLeak.cfg`, with `Cow`: `copy_on_write` drops the last reference
  (`vm.c:617`) without freeing the page.
* `MCCowGuard.cfg`, with `Cow`: after a fork an access to the guard page maps a
  writable page (`vm.c:663`).
* `MCCowMemory.cfg`, with `Cow`: a copy that fails for want of memory can end in
  a zeroed page (`vm.c:663`).
* `MCBioError.cfg`, with `Bio`: a read the disk fails is marked valid
  (`ide.c:118`).

## 8. Not modelled

Inodes and directories, the file table, swapping, console input and the
small-object allocator are the next steps of the plan; the hazards already found
in them are listed with the note that no property covers them. Booting, device
programming, formatted output, `mkfs.c` and the user programs are outside: they
run once or sequentially, or only call what is modelled. In `Cow`, page-table
pages, the kernel's mappings and swapped entries are left out; in `Bio`,
processes hold one buffer at a time (`commit` holds two, and `NBUF` equals
`LOGSIZE`, so whether `bget` can run out is not answered), and spurious disk interrupts, which
`ideintr` answers by returning, change nothing.
