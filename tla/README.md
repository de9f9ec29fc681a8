# KyleOS: TLA+ models, checks and proofs

KyleOS is a 64-bit hobby operating system: a monolithic C kernel (`sched/`,
`fs/`, `mm/`, `block/`, `locks/`, `timer/`, `output/`, `init/`), a desktop whose
display server runs as a user process (`extras/desktop`, `extras/kui`,
`extras/kuid`), a large set of applications (`extras/`, `userspace/`) and vendored
code. The specifications here are about the parts where tasks, interrupts,
devices and processes meet: there a wrong order of events is easy to write and
hard to test.

## How the kernel executes

This decides the grain of every kernel module.

* One CPU. The system-call gate and all interrupt and exception gates are
  interrupt gates, so kernel code runs with interrupts off.
* A system call therefore runs without interruption to its end or to the next
  call of `schedule()`, whichever comes first. One such stretch is one action.
* Interrupts (timer, keyboard, disk) are taken in user mode and in the idle loop
  (`sti; hlt`) only.
* The timer ticks at 200 Hz, and every second tick calls `schedule()`.
* `signal_deliver` runs at the end of system calls (not of `fork`, not of
  `sigreturn`), never at the end of an interrupt (`asm/asm_calls.s`,
  `usermode_int`).

What remains concurrent is what happens *between* stretches: what a task saw
before it slept and what is true when it goes on; signals, wakeups, timers and
ends of other tasks in between; devices that complete at any time; interrupts
latched while they were off. Every disk command is such a sleep, so that file
system calls interleave at each of them.

## Inventory

| Part | State | Operations | Interacts with | What makes it correct |
|---|---|---|---|---|
| Scheduler (`sched/sched.c`) | `ktasks[]`, `prev_task`, `next_task` | `schedule_impl`, `find_next_task`, `update_timers` | everything that blocks | one runner, always a task to run, no starvation |
| Processes (`sched/sched.c`, `ps.c`) | pid, parent, state, exit status | fork, exec, exit, wait, sleep | signals, files, memory | parents exist, waiters wake, zombies stay dead |
| Signals (`sched/signal.c`) | pending, mask, actions, frames | send, action, mask, deliver, sigreturn | tty, scheduler | no sleep through a signal, stop and kill are obeyed |
| Wait channels (`sched/sched.c`) | `wait_channel`, `io_generation` | sleep_on(_if)(_timeout), wakeup(_one), io_wait | pipes, mutexes, disk, ptys | no lost wakeup |
| Pipes (`fs/pipe.c`) | ring, used, readers, writers | read, write, close, status | files, poll, signals | ordered bytes, end of file, no use after free |
| Open files (`fs/vfs.c`, `ps.c`, `init/syscall.c`) | file table, refcounts, descriptors, positions | open, close, dup, dup2, clone | pipes, ptys, file systems | exact reference counts |
| Disk driver (`block/ata.c`) | mutex, cache, DMA state, bounce buffer | read_sec, read_sectors, write_sectors, irq | file systems, mutex, timer, signals | cache = disk, success is real, channel owned and freed |
| Mutex (`locks/mutex.c`) | `lock` | acquire, release | wait channels | exclusion, no lost wakeup |
| Timers (`timer/`) | jiffies, end times | tick, new_timer, update_timer | scheduler | sleeps end, also at the 32-bit wrap |
| Kernel heap (`mm/mm.c`) | block list, live bytes | kmalloc, kfree | all of the kernel | blocks tile the heap, nothing handed out overlaps |
| Memory (`mm/`) | frame refcounts, page tables | alloc, free, fork copy, COW and demand faults | fork, exec, exit | frames freed exactly once, private copies |
| FAT (`fs/fat.c`) | table in memory and on disk, directory records, chains, `fat_lock` | write, truncate, create, rename, unlink, mount | disk driver, open files, mutex | chains disjoint at every step, data reads back, no cluster lost |
| RAM file system (`fs/ramfs.c`) | inode tree, blocks | create, unlink, read, write, /proc | open files | tree and blocks agree |
| Pseudo terminals (`fs/pty.c`) | two queues, edited line, termios, foreground group | read, write, ioctl, close, poll | signals, job control | no lost wakeup, the line fits |
| Console (`output/tty.c`) | line buffer, foreground group | receive, read, write | keyboard, signals | Ctrl-C reaches the foreground |
| Desktop (`extras/desktop/shell.c`, `extras/kui`, `extras/kuid`) | windows, shell, serials, retired processes, two pipes per process | start, event, answer, timeout, shell restart, quit | pipes, poll, fork, wait | answers belong to their events, no client blocks the server |
| Boot, PCI, ACPI, IRQ setup, drawing, input decoding | hardware registers | | | not modelled |

The behaviours that are hard: a signal or timer that meets a task in an
unexpected state (new, stopped, ended, inside the disk driver); `exec` built out of
the code that ends a task; adoption of children that are already dead; sleeping
on a condition that changes in between; reference counts shared by dup, fork and
exit; ring positions at the wrap; a latched interrupt or a signal that is taken
for a device's answer; multi-step transfers that fail half way; a crash between
two writes of one update; directory blocks read, kept over a sleep and written back;
an answer that comes after it was given up; pipe ends that live on in
processes that never asked for them. `PROJECT.json` lists each with its line under
"hazards".

## Modules

| Module | Models | Notes |
|---|---|---|
| `KSched` | task table, `schedule_impl`, fork, exec, exit, wait, sleep, signals | the core |
| `KSchedProofs` | inductive invariants and theorems about `KSched`, who ends a sleep or a stop among them | TLAPS |
| `ByteStream` | what a pipe promises: an ordered byte stream with an end | abstract |
| `Pipe` | `fs/pipe.c`, the reference counts of the two ends, descriptors, poll | implements `ByteStream` |
| `PipeProofs` | inductive invariant and theorems about `Pipe`, the refinement among them | TLAPS |
| `AtaDma` | `block/ata.c` with `locks/mutex.c`, the device as environment | |
| `AtaProofs` | inductive invariant and theorems about `AtaDma` | TLAPS |
| `PrivateMemory` | what user memory promises: every process its own, copied by fork | abstract |
| `Vmm` | `mm/pmem.c`, `mm/paging.c`, `mm/vmm.c`, and what fork, exec, exit and sbrk do to memory | implements `PrivateMemory` |
| `VmmProofs` | inductive invariants and theorems about `Vmm`, the refinement among them | TLAPS |
| `Fat` | `fs/fat.c` under `fs/vfs.c`, with failures, crash and mount | |
| `FatProofs` | inductive invariants and theorems about `Fat` | TLAPS |
| `Pty` | `fs/pty.c`: two queues and the line discipline | |
| `PtyProofs` | inductive invariant and theorems about `Pty` | TLAPS |
| `Kuid` | the compositor's processes, pipes and exchanges | above the kernel |
| `KuidProofs` | inductive invariants and theorems about `Kuid` | TLAPS |
| `Arena` | what a memory allocator promises: what is handed out overlaps nothing held | abstract |
| `Heap` | `mm/mm.c`: the block list, split and merge | implements `Arena` |
| `HeapProofs` | inductive invariant and theorems about `Heap`, the refinement among them | TLAPS |
| `MCKSched`, `MCPipe`, `MCAtaDma`, `MCVmm`, `MCFat`, `MCPty`, `MCKuid` | instances for TLC | |

Composition: `AtaDma` contains the mutex of `locks/mutex.c` with its sleeps, whose exclusion
alone `Fat` uses; that a disk write is one step of `Fat` is what `SuccessIsReal` and
`CacheCoherent` of `AtaDma` give: one that succeeds has happened, and one that fails is in doubt, so that in `Fat` it has happened or not. `Kuid` uses pipes as queues of messages, which is
`ByteStream` with messages that are written whole. A woken task runs again in `Pipe` and
`AtaDma` because of `ReadyRuns` of `KSched`.

Operators whose names end in `Mutant` are wrong variants of the operator that
follows them. They are not used by any specification; they record, for each
property, a plausible slip in the code that the property catches.

### KSched

State: one function per field of `struct ktask` that control depends on, indexed
by slot; `prev_task`, `next_task`, the pid counter; and `phase`, the point the
CPU has reached (user code, inside a resumed system call, in `signal_deliver`, in
`schedule_impl`, or halted in one of the panics). `kpc` says where a task resumes:
in user code, inside `wait`, `sleep` or the stop of `signal_deliver`, in `acquire_mutex`
(`mutex`) or in the polls of the disk driver (`disk`). `holder` is the owner of the driver's
mutex; what is done under it is `AtaDma`. `saved`
says whether `s_rsp` is a context that belongs to the task's present kernel
stack; a `READY` task that is resumed without one puts the CPU in phase "wild".
A full user stack is `MaxFrames` signal frames. Handlers are abstracted to
default, ignore and catch; a time is the number of ticks left.

Actions: `Schedule` is the whole of `schedule_impl` (save, timers, search, idle
skip, switch); one action per system call; one per branch of the loop in
`signal_deliver`; `AcquireMutex`, `PollRelax` and `ReleaseMutex`, the points at which a system
call in the disk driver gives the CPU away or comes back: a sleep that, unlike `wait` and `sleep`, looks at no signal
(`sched_sleep_on_if`); `KeyboardIrq` and `TimerIrq`. Exit also stands for the fatal
page and protection faults, which call `sched_process_kill` and `schedule()` in
the same way. In `Kill` and `KeyboardIrq` a process group is signalled one
member per step. The initial state is the one boot leaves: idle in slot 0, init
in slot 1, both new, and no current task.

### Pipe and ByteStream

`Pipe` has the fields of `struct pipe_data`, the reference counts of the two
open-file entries, and the descriptors of each process. A read or write is a round of its loop:
copy what fits, then return or sleep; `Resume` is the next round after a wakeup. Bytes carry their
position in the stream as value, so that order and loss are visible. `IsByteStream` maps
the ring to the sequence of its bytes and the counters to open ends, and states
that every step of `Pipe` is a step, or a stutter, of `ByteStream`.

### AtaDma

Tasks enter `read_sec`, `read_sectors` or `write_sectors`, contend for the mutex, and go through cache,
DMA chunks (fast poll, then sleep with a timeout) or PIO. `cpu` is the task inside the kernel. The
device is external: a started transfer completes, fails or does neither, at any
time; the completion sets the status bit and latches the edge-triggered interrupt, which is
taken when no task is inside the kernel. An aborted write may or may not have
reached the disk. `FastDevice` says whether transfers may end within the fast poll; `SignalsSent`
whether signals are sent.

### Vmm and PrivateMemory

A process is its `struct vmm_map`. `page_refs` is the count of each frame (the bitmap always changes
with it), `root`, `tables` and `pte` are the page table, `areas` the block lists in the order in
which `vmm_find_block` searches them, `tlb` what the CPU has cached. Kernel code is not interrupted, but
it is long, allocates several times and can fail in between: `job` says which handler is at work, and each of its
allocations, mappings and pages is a step (`CowStep`, `DemandStep`, `MapStep`, `SharePage`,
`ShareBlock`, `FailStep`). The two places where it sleeps, the read of a page of the executable and the
program headers in `exec`, are in `io`; meanwhile other processes run. Contents of frames are
abstracted to two values, of which one is also what is left in a frame that nobody holds. A signal frame is
populated like a write to the stack.

`PrivateMemory` knows the memory of each process, who has the CPU, and what each process is at (in user mode, in a fault, in
`fork`, in `exec`). A byte changes only by a store of the process that runs in user mode, to a page it may write; `sbrk` adds a block
of zeroes; a fork copies, and the copy lacks pages only when no frame is left; a memory goes when its program exits, when `exec` replaces it, or
after a fault at a page that is not there, not writable, on a disk that fails, or without a frame to serve it. Nothing that the kernel does in
between changes any memory. `IsPrivateMemory` maps `Vmm` to it: a page that is not present has the contents that
the fault would give it, so every step of a handler, every copy and every frame that is freed and filled again must be invisible.

### Fat

One directory of one cluster. `fat` is the table in memory and `dfat` the one on the disk, `dir` the
records, `data` the data clusters; a file is a sequence of blocks of one cluster each. Every disk command is a
step: a write is a turn per cluster (find, zero, mark, link, data), then the directory record;
a truncate frees a cluster per step and then writes the record; unlink and rmdir write the record first and
free afterwards; create, mkdir and the new name of a rename read the directory without `fat_lock` and
write it back later. First cluster, size and position of an open file are copies, as in
`struct file`. A disk write may fail, after which the disk has it or not (`InDoubt`, `SetFatFails`; a table copy in memory follows only a
write that succeeded), and `Crash` ends every call and mounts the volume again.

History variables: `content` is what a file must read back; `torn` records that a truncate was cut
short after it freed a cluster, or that a link reached only the first copy of the table. The code promises nothing
for such a volume, and nothing is claimed of it (`Next` stops there). `leaky` records that the code has given clusters up: after a crash,
a record that could not be written, a truncate or unlink that stopped half way or whose name may be gone, a cluster that could neither be linked nor given back,
and a first cluster that no block went into (a full volume had no second one, or the write of the block failed). Otherwise a full volume and failed writes of data, of zeroes or of a mark do not set it.
`raced` records that two calls have met where the code has no lock: two programs have one file open to write it, or a name is made while another
is, or while `fat_lock` is held. Nothing in the code prevents it, so nothing in the model does; `VolumeSound`, `ReadsBack` and `NothingLost` are about what happens up to the
first race, and the hazards and the run `fat_create` say what comes after. Programs that only read a file are no party to a race.
Left out: a write of part of a cluster, clusters of several sectors (a failed write of one may have reached a part of them), reads that fail (most callers of `read_cluster` look at no result), long names, directories of several clusters.

### Pty

A queue is a byte count (the ring is that of `Pipe`). `Typed` is what `pty_write` does on the master's side with one byte: canonical mode, echo, erase, kill,
end of file and signal characters; a write to the master is a round over its bytes until one
does not fit. Reads and writes of both ends (on the slave SIGTTIN and SIGTTOU for a job in the background), poll, `tcsetattr`,
`tcsetpgrp`, close and signals are actions. `skipped` holds the writers that were asleep when room was made without a wakeup, and `stranded`
says that canonical mode was left in the middle of a line; both are what the code does and are named in the properties.

### Kuid

`kuid` is one thread: `kpc` is where it is, `turn` its place in the loop of `desktop_shell_run()`. Each process it
starts has two pipes of whole messages. An exchange writes an event with a serial number, then
reads header and drawing commands with a deadline; a client that misses it is closed and its window
goes to `retired`, from which it is reaped. `serial` wraps at `Serials`. `holds` is the set of
processes whose pipe ends (kuid's side) a process has inherited at fork, since nothing is closed on exec.
Applications keep to the protocol of `kui_client.c` (`PRead`, `PReply`, `PChunk`: an answer to each event read, and nothing unasked), and
may stall or die at any point of it; one that wrote what nobody asked for and read nothing is outside the model. A program without a window runs on the whole screen (`OpenExclusive`,
`run_exclusive`), and kuid sleeps in `waitpid` until it has ended. The shell is restarted once after it dies. Which window an input
goes to and what a response asks for is left to choice; drawing, stacking and dragging are left out.

### Heap and Arena

`block` is the list: a function from the addresses of the headers that can be reached from `head` to their fields. A header that a merge
takes off the list leaves the domain, as nothing follows a pointer to it any more. `Split`, `Merge` and `Freed` are
`split_block`, `merge_with_next` and the two merges of `kfree`; the search of `kmalloc` is the lowest block that fits, since
`Tiled` keeps the list in the order of addresses. `held` is what callers hold; they give back what they hold and nothing
else, so the magic number and the checks of `kfree` against misuse are left out. Both calls run with interrupts off and never sleep.
`IsArena` states that every call is an allocation or a release of `Arena`, which knows only who holds which range.

## Runs

| Run | Bounds | Shows |
|---|---|---|
| `ksched_family` | 4 slots, pids up to 3 | `OneRunner`, `AlwaysATask`, `OrphansAdopted`, `WaiterWoken` through fork, exec, exit, wait, sleep |
| `ksched_signals` | 3 slots, SIGINT and SIGKILL sent, SIGINT caught, masks, one frame | `TypeOK`, `NoSleepThroughSignal`, `ZombieStays` |
| `ksched_live` | 3 slots that fill up, pids up to 3, SIGKILL, SIGSTOP and SIGCONT sent | `KilledNeverParks`, `StopHolds`, `ReadyRuns`, `SleepEnds`, `KilledDies` |
| `pipe` | 2 processes, 2 descriptors each, ring of 2, transfers up to 3, 5 bytes | `InOrder`, `SleeperNotFreed`, `NoLostWakeup`, `RefcountsExact`, refinement of `ByteStream`, `SleepersSeeEnd` |
| `ata` | 2 tasks, 2 sectors in one cache entry, 2 values, chunks of 1, signals | `CacheCoherent`, `SuccessIsReal`, `ChannelOwned`, `NoLostWakeup`, `ChannelFreed` |
| `vmm` | 2 address spaces, 6 frames, 3 pages, 3 tables | `WritableExclusive`, `RefsExact`, `TlbCoherent`, refinement of `PrivateMemory` |
| `fat` | 2 tasks, 3 clusters, 2 records, files of up to 2 blocks, 1 failed write or crash, up to the first race (`CONSTRAINT Unraced`: the step into the race is checked, what follows is not explored) | `TypeOK`, `VolumeSound`, `ReadsBack`, `NothingLost` |
| `kuid` | 2 applications, 2 shells, 2 windows, 3 events and 1 piece in a pipe, 1 piece of drawing, 2 serials | `TypeOK`, `InStep`, `DesktopLives` |
| `pty` | 1 terminal, 2 jobs, queues of 2, writes of up to 2 bytes, 3 modes | `TypeOK`, `NoLostWakeup` |
| `heap` | 40 bytes, headers of 4, alignment 2, least size 3, requests of 0, 5, 6 and 11 | `HeapSound`, `PanicJustified`, `LiveExact`, refinement of `Arena` |
| `fat_create` | as `fat`, no failure, races followed | violation of `TruncatedIsEmpty` |
| `kuid_quit` | as `kuid` | violation of `Quits` |

Why the bounds are enough to be interesting: with three pids there are a
grandparent, a parent and a child, so adoption, reaping and waiting meet; a two-byte
ring with three-byte transfers wraps, fills, drains and blocks in one call; two sectors that share one
cache entry evict each other, and chunks of one sector make every two-sector
transfer a two-chunk one that can fail in between; two contenders make a
woken task lose the mutex to the one that calls again first (any number of them is `AtaProofs`); six frames hold one process with all its pages, or two that share, so that
every allocation of every handler fails in some state and succeeds in another. Three live spaces on
enough frames are beyond TLC, so that counts above two come from leaked references only. Three clusters
under two files of two blocks fill the volume in the middle of a write, and two tasks are
enough for every overlap of two calls. Two serials make a late answer carry the number of the next event but one, and one piece per
output pipe makes every application that draws wait for kuid. A two-byte pty is filled
by one line, so that every limit is met by two keys. Forty bytes hold five blocks of the least size, so that a block is freed between two
free, two used or one of each, at either end of the heap too; the requests lie below the least size, off the
alignment, and on both sides of what a split leaves over.

The type invariants of `Pipe`, `AtaDma` and `Vmm` and `TablesPrivate` of `Vmm` are in no run: they are
theorems, for every value of the constants.

`CHECK_DEADLOCK` is off where the system really may stop: all processes of `pipe`, `vmm` and `pty` may have ended,
a volume of `fat` may be torn, the desktop of `kuid` may have quit.

The two violation runs show a disagreement between the code and what its
comments or documents say:

| Run | Property | What happens |
|---|---|---|
| `fat_create` | `TruncatedIsEmpty` | `fat.c:560` says that a truncate updates the record atomically under `fat_lock`; `fat_create_file` reads the directory before and writes it back after without the lock (`fat.c:764`), and the emptied file names free clusters again |
| `kuid_quit` | `Quits` | `README.md:168` says that a stalled client cannot block the display server forever; an application that stalls keeps the inherited write end of the shell's input open (`shell.c:232`), and `stop_shell` waits for a shell that never sees the end of it |

### Known and without a run

These follow from the models, are what the code does, and either contradict a document only in part or no
document at all.

* `exec` runs the adoption loop of `sched_process_kill`, so a process that forks and then calls
  `exec` loses its children to init, while `README.md:340` speaks of exit only.
* SIGKILL to a task that `exec` has just made new marks it ready, and it is resumed from the stack pointer of its
  freed kernel stack (`signal.c:157`; phase "wild" of `KSched`).
* A zombie that init adopts while it sleeps in `wait` does not wake it (`sched.c:794`); `WaiterWoken`
  leaves adopted zombies out.
* A signal during a DMA sleep counts as the two-second timeout (`ata.c:328`), and the latched interrupt of a polled
  transfer aborts the next one (`ata.c:474`); both turn DMA off for good. No data is harmed: that is
  `SuccessIsReal` and `CacheCoherent`.
* When a table for the child of a fork cannot be allocated, `vmm_share_block` returns `NULL` with a reference
  taken, `llist_copy` appends the `NULL`, and the next search of that list follows it. Out of
  memory in `vmm_map_new`, in the first page of `exec` and in a page touched by a system call panics the
  kernel, whereas `README.md:504` says that only the allocating process is killed.
* Room made in a pty by a signal character, by erasing, by TCSAFLUSH and by leaving canonical mode wakes no writer. A line
  as long as the queue and without a newline blocks the writer of the master and the reader of
  the slave for ever, and neither an erase nor Ctrl-C can be typed on a full queue. An end of
  file is one flag, looked at when the queue is empty, so that a line typed after it is read before it.
* A create in a FAT directory of several clusters always appends a cluster, because the buffer it searches is stale. A truncate that is
  cut short leaves a record on free clusters. Open files keep copies of first cluster and
  size, so two processes that write one file lose each other's size.
* When `retired_window_pids` is full, a closed application is forgotten and stays a zombie.
* `run_exclusive` (`shell.c:810`) waits for a program on the whole screen without a deadline: while it lives no window is drawn, closed or
  reaped, and one that never ends freezes the desktop. `DesktopLives` names this case (`WholeScreen`).

### Fairness

`KSched`: weak fairness of `schedule_impl` and of the kernel's own continuations (kernel code
runs on), strong fairness of the rescheduling timer tick: an interrupt that
is latched while interrupts are off is taken when user mode comes back. The polls of the driver are bounded
(`ATA_POLL_LIMIT`), so the owner of its mutex does not yield for ever: strong fairness of `ReleaseMutex`. Nothing is assumed of user programs.
`Pipe`: a woken task is run (that is `ReadyRuns` of `KSched`) and a
returning call returns. `AtaDma`: the task inside the driver gets the CPU again when it is ready, kernel code runs on (the
polls that yield are bounded by `ATA_POLL_LIMIT`, hence strong fairness of the steps other than
yielding), the sleep's timer runs out; nothing is assumed of the device, nor of who gets the mutex next. `Kuid`: kuid runs and its deadlines pass, and
the shell does not stall; an application or a program on the whole screen may stop for ever at any point. `Fat`, `Pty` and `Vmm` state
safety only.

## Proofs

All theorems hold for every value of the constants that satisfies the named assumption of the module. TLC
checked each inductive invariant on the instances of the runs before it was proved.

### KSched

For every table size of at least two, every pid bound and every
choice of signals, masks, sleep lengths and stack depths (`KSchedAssumption`):

* `TypeCorrect`: `TypeOK`, with the fact that masks in use, stored or saved never hold SIGKILL or SIGSTOP;
* `OneRunnerHolds`, `KilledNeverParksHolds`, `OrphansAdoptedHolds`, `AlwaysATaskHolds`;
* `ZombieStaysHolds`: the action property `ZombieStays`.

None of these is inductive alone. `IInv` adds: the idle slot is never asleep,
stopped or ended (`IdleInv`, why `schedule_impl` finds a task), which in turn needs that kernel
code never resumes on behalf of idle and that the current task is alive
(`CurrentInv`); a running timer belongs to a task that is asleep or on its way
into `schedule_impl`, is on no wait channel and has no SIGKILL pending
(`TimerInv`, why timers neither revive a zombie nor park a killed task); only
blocked tasks are on a wait channel (`WaitInv`); SIGKILL keeps its default action
(`ActionInv`, why `signal_has_unmasked_pending` sees it). `KilledNeverParks` also rests on `signal_next` taking
the lowest number first: SIGKILL is 9, the stop signals are 17 and above. Its exception is real: a task that is
killed in `acquire_mutex` is made ready, looks at the mutex and sleeps again until `release_mutex`. There is one
lemma per action; `TerminateStep` serves every way a task can end, `SignalSendStep` every sender.

A second part adds `NoSleepThroughSignalHolds`, `WaiterWokenHolds` and `StopHoldsAlways` (the action property `StopHolds`).
`WakeInv` strengthens the first two: a running timer is that of a task in `sleep` with nothing to act on (`SleepInv`, because it
is `schedule_impl` that parks it, later than the call that looked at its signals), and a task asleep in `wait` is on its own channel
(`ChannelInv`, so that what a child does reaches it). Most steps put nobody to sleep and make no child reportable
to a sleeper (`NobodySleeps`); an end, a stop or an `exec` makes a child reportable and tells the parent in the same step
(`ToldStep`); a task that goes to sleep in `wait` has looked at its children and its signals in the same step (`WaitWakes`).
`StopHolds` is proved from `IInv` alone: a step that takes a task out of a stop is one whole `signal_send` of SIGKILL or SIGCONT to
it. The step of the timers, the wakeup of a parent and that of a mutex leave stopped tasks as they are.

### Pipe

For every number of processes and descriptors, every ring size and every length of transfer (`PipeAssumption`): `CountsExact`,
`BytesInOrder`, `WakeupsKept`, `PipeOutlivesCalls`, and `PipeRefines`, that `Pipe` implements `ByteStream`.

`IInv` is `TypeOK`, `RefcountsExact`, `InOrder` and `NoLostWakeup` with `CallInv`: a task inside a read, write or poll
holds a descriptor of the end it works on. `CallInv` is what makes the rest inductive: the end a call works on
has a count above zero as long as somebody holds it (`HolderKeepsOpen`), so a close by another process never frees
the pipe under a sleeper, and the counter a sleeper waits for changes only in steps that wake it. `InOrder` rests on
arithmetic of ring positions (`AfterAfter`, `AfterInjective`): a transfer is no longer than the
ring, so that no position is written twice. The refinement uses that the ring, read from `read_pos`, is the run of numbers from the
bytes got so far, so that copying in appends a run to its end and copying out takes one off its front.

### AtaDma

For every number of tasks, sectors and cache entries, every chunk size and with or without fast devices and signals (`AtaAssumption`):
`TypeCorrect`, `CacheStaysCoherent`, `SuccessMeansDone`, `OneOwner`, `WakeupsKept`.

`IInv` has three further parts. `OwnInv`: who has the CPU is inside the driver and awake, and whoever is inside holds the mutex alone.
`DevInv`: while a request is in flight, the job of the device is the chunk of the task inside, the bounce buffer
holds that chunk of a write, and a device that is idle without an error has done it. `Work(t)`: how far a task has
come; the sectors before its chunk are copied, those of the chunk too when the result says so, and a write that is past its
first step has no valid cache entry for its sectors. Two lemmas carry the proof: `OwnerStep` (a step of the task inside, or
of the device on its behalf, leaves all others outside) and `ChunkEnds` (fast poll, end of a sleep and
interrupt handler all end a wait in the same way: success is reported only when the engine was idle without an error, so that stopping it
changes nothing on the disk).

### Vmm

For every number of spaces, frames, pages and tables, every shape of the page tables, every program and every limit of the counts
(`VmmAssumption`): `CountsExact`, `WritersAlone`, `TablesApart`, `TlbAgrees` and `StaysTyped`.

The counts and the exclusive frames need each other. `Counts`: the count of a frame is the number of its holders (entries, tables, roots,
reads, the handler that is mapping it) plus what a fork out of memory lost. `Soles`: a writable entry, a table, a root, a frame
that is being read into and a frame that is about to be mapped writable have a count of 1. From both, such a frame has
no other holder (`SoleHolder`), a frame that is free has none (`FreshFrame`), and a step that takes, shares or gives back a
frame moves the count with the holders (`MappedChange` and its kin, `CountRow` for a space that is freed). The other parts say what the handler at
work relies on across its steps and across the disk: the entry it is going to write is still absent, also for the blocks a
fork has yet to copy (`Forking`, `BlocksApart`), nobody else has taken its space (`Handling`), and a space that waits for a read or for
program headers still has its place (`Waits`). `FreeAllowed` is why `vmm_free` never meets a frame without
a reference.

The second half of `VmmProofs` shows that all this is `PrivateMemory` (`VmmIsPrivateMemory`). It needs to know more about contents (`RInv`): a page that is
present lies in a block of its program (`Present`); what is read from disk is a page of the executable (`Reads`); a frame on its way to a page
holds what a fresh page holds (`Arriving`); a new program has its image and no page (`Starting`); the child of a fork has the
pages of the blocks it got, in the frames of its parent (`Copied`); and a running space has at least the blocks of the
image, so `sbrk` adds heap (`Grown`). It also needs to know why the kernel refuses (`PInv`): what an entry allows is what its block allows (`Entries`, `Arrivals`, `Mappings`),
a handler works on a page that is absent, or present and read-only (`Faults`), and a fork that has lost a block goes on without a free frame to its end (`Shortage`).

Each step of `Vmm` is then a step of `PrivateMemory` or none (`Implements`, one lemma per action). A store goes to a frame that
only this page has (`Soles`, through the TLB by `TlbCoherent`), and its page is one the program may write (`Entries`). The steps of a handler
change no memory: a frame that is filled belongs to no page (`FilledUnseen`), one that is given back has no page left (`LeftoverKept`), a page that is copied or downgraded keeps
its contents (`EntryUnseen`), and a page that arrives has the contents it was missing (`MapUnseen`). A fault that is given up has one of the four reasons
(`GivesUpIs`): `PInv` turns each failing branch of `CowStep`, `DemandStep` and `MapStep` into one of them.

### Kuid

For every number of applications, shells and windows, every size of the pipes that takes two events and every length of an answer
(`KuidAssumption`): `StaysInStep` and `StaysTyped`, for applications that keep to the protocol.

`InStep` says only what holds between exchanges. `IInv` adds what holds during one: while kuid waits for the header (`Asked`), the
application has not read the event, is at work on it, or has answered and as many pieces as its header announces are in the pipe
or still to come; while kuid reads the drawing commands (`Drawing`), as many as it still wants. An application that dies
leaves at most that many. So the piece that ends an exchange empties the pipe, and an exchange that fails at any
other point takes the window, with whatever is in the pipe, off the table (`ReleaseStep`). A window has at most one event in its
input pipe, hence room for CLOSE. `TInv` adds the control of kuid (`Control`: without a shell it is at the end of its loop, so
no step uses a closed connection), its tables (`Tables`) and the room in the output pipes.

### Heap

For every size of the heap and of a header, every alignment that divides both, every least size and every set of requests (`HeapAssumption`):
`HeapStaysSound` (from `HeapTiled` and `HeapHeldFits`), `HeapPanicJustified`, `HeapLiveExact` and `HeapIsArena`, that `Heap` implements `Arena`.

`IInv` is `Shape` of the list (`Linked`: next and prev are inverse and a block ends where its successor starts; `Apart`: blocks
do not overlap; `Covers`: every byte is in a block; `Stepped`: addresses and sizes are multiples of the alignment), `PairOK` for every
block (it and its successor are not both free) and `Holding` (the used blocks are what is held). `SplitShape`, `MergeShape` and `FlagShape`
are about one list operation each. `MergePairs` says what a merge does to `PairOK`: it mends the pair that starts at the block and harms only the
one that ends there, which is why `kfree` needs two merges and no more (`FreedShape`). `PanicJustified` follows from `Covers`, `PairOK` and
the failed search: a gap that is not one free block would have to contain a used one.

`LiveExact` speaks of a recursive sum over the list. `Counts` says what such a sum is (at each block, the block's share and the sum from
its successor on); a walk from high addresses to low ones shows that there is exactly one (`CountsUnique`). A split and a
merge leave the sum from the head on as it is, and setting a flag moves it by the size of that block.

### Pty

For every number of processes, every size of the queues, every length of a transfer, every set of bytes and every setting of the
terminal in use (`PtyAssumption`): `StaysTyped` and `WakeupsKept`, both from `StaysIInv`.

`IInv` is `Queues` (the line under edit lies behind what was queued before it and fits), `Tasks` (a task that waits is inside a call on
its end, with what that call needs to go on) and `Dozing` (for each sleeper: no signal, the other end held, and what it waits for
still missing unless it was skipped). A write to the master is a round of `Typed` over its bytes; `DisciplineSteps` carries through it what one
byte does (`TypedFacts`): queues stay within their size, and the other end is woken in the same round for whatever the
bytes put there (`Since`). One lemma per action, and two for every call that returns or goes to sleep (`ReturnDozing`, `BlockDozing`).

### Fat

For every number of tasks, clusters and records, every size of file and every number of disk errors and crashes (`FatAssumption`): `StaysTyped`,
`StaysSound` (`VolumeSound`), `StaysNothingLost` (`NothingLost`) and `StaysReadBack` (`ReadsBack`). They assume nothing of the programs: that no race has happened yet is part
of what the three properties say, and the run `fat_create` shows what a race does.

A chain is not in the state, so the invariant `VInv` asserts that there is one per record: `Owned(ch)` says that `ch` maps each record to a
sequence of clusters, that both the table in memory and the one on the disk follow each of them to its end (`Path`), and that they share no
cluster. Where a chain starts is known to whoever works on it (`Owner`: the open file, or the call on it; `Namer`: a call that
removes or makes a name) and otherwise to the record (`Closed`). `Grower` is about the cluster a call has taken and not linked
yet: it is marked in both copies of the table and on no chain. `Exclusive` holds where `Race` does not (`NoRace`): no two tasks use one record, and one task at a
time changes the volume. Each step then gets the chains that hold after it (`After`: longer by the linked cluster, shorter by a freed one, renamed,
dropped with what a failed write had not named yet), so that the proof has one lemma per action and one per change of a chain
(`LongerChains`, `ShorterChains`, `ShutChains`, `MadeChains`, `RenamedChains`); a crash falls back to the chains that records name.
`WriteTurn` finds its way by `Nth` and a cardinality; `TurnReaches` shows that these are the chain and its length.

`NothingLost` needs the converse (`UInv`): a cluster in use is on one of the chains or is the one a call has just taken (`InUse`), and as long as no
failure has stranded clusters a record agrees with its open file outside of a truncate (`Known`).
The one failure of a truncate that strands nothing is that of its last step, which empties the chain before (`TornNamed`).

`ReadsBack` speaks of files at rest; its invariant `BInv` says what the chain holds while a call works on it. `Reads(q, c, A, W, v)`: the clusters of `q` hold
the file `c`, but `v` in the blocks `W`, and zeroes behind the end, which is why a gap left by `lseek` reads as zeroes and why a cluster is
written before it is linked. A file without a user is `Plain` (`W` is empty); one with a user is `Full` until its truncate has freed a cluster, with the blocks
that the write under way has finished as `W` (`WroteBy`), and the size and first cluster of the open file are those of the record (`Current`). The write
of the record puts `W` into the file (`OverlayReads`). A step touches only the record of its caller (`BlocksCarries`), since the chains are disjoint and `Exclusive`
keeps the users apart; a crash finds no write between its first block and its record except on files of which nothing is claimed (`CrashBlocks`).

### Only model-checked

The liveness properties and `ENABLED` are beyond the prover: every invariant and action property of a passing run is also a theorem. RECURSIVE
operators are out of its reach as well, and no module with theorems has one: `Nth` of `Fat`, the sum of `Heap` and the round of `Pty` over the
bytes typed are recursive functions. Induction over those is by sets of numbers: the least number outside a set of naturals (`LeastElement`)
has a predecessor inside, hence `UpTo`, and from it that a recursive function is what its equations say (`Iterate`).

## Plan

Done: `KSched`, `Pipe` over `ByteStream`, `AtaDma`, `Vmm` over `PrivateMemory`, `Fat`, `Pty`, `Kuid`, `Heap` over `Arena`; the proofs of all of them.
Left, in this order: the open-file table with its limit; the locks that are held over a sleep (`exec_spinlock`, the append lock, the pipe lock over a page fault);
process groups and sessions; the console in `output/tty.c`; FAT directories of several clusters.

## Not modelled

* Hardware bring-up (PCI, ACPI, MTRR, interrupt controllers, descriptor tables), drawing and input
  decoding, path lookup and the checks of the ELF format, and the debug shell: I/O or pure functions over formats.
* `fs/ramfs.c`: every call but the read of a console runs to its end.
* The 32-bit `jiffies`: the times of `KSched` are ticks left.
* The FPU context, names, exit codes and /proc reports carry no control and are left out of `KSched`. The kernel
  stack that `exit` and `exec` free while they still run on it is below the grain of the models.
* Eager mappings, which no caller uses for user memory, and boot-time mappings are not in `Vmm`.
* Applications (`extras/`): each is sequential, and most of its code draws. They appear as the arbitrary processes of every kernel module and as the
  clients of `Kuid` that keep to the protocol of `kui_client.c`.
* Lua, newlib, the Doom and Quake ports: third-party code, and by far the largest part of the implementation's lines. Together with
  the applications they are why the modelled share of all lines is small although the kernel's concurrent core is covered.
