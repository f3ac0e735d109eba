# Rumicos: TLA+ models, model checking and proofs

Rumicos is an x86-64 kernel in Rust (`src/crates/*`, `src/kernel`) with a small
user space (`src/userspace`, `src/init`, `src/initrd`). This directory keeps
TLA+ models of it, TLC configurations that check them on small instances, and
TLAPS proofs of the main safety properties for every value of the constants.
Paths below are relative to `src/crates` unless they start with `kernel/`,
`userspace/` or `docs/`. `PROJECT.json` maps every definition to the lines it
models, lists every component with its status, and every hazard with the
properties that cover it.

## 1. The system and how its parts interact

| Part | State | What is hard about it |
|---|---|---|
| wait queues, futexes (`sched/src/{waitqueue,block,futex}.rs`) | FIFO of `WaitNode`s, the futex word | a wake between check and sleep; a mark in the word that is lost |
| scheduler (`sched/src/{lib,queue,steal,thread,percpu}.rs`) | MLFQ queues, thread states, FPU area | losing or duplicating a thread; idling beside work; starvation |
| pipes and descriptors (`fs/src/pipe.rs`, `proc/src/fd.rs`) | ring, generations, reference counts, tables | lost wakes, close against sleep, counts through fork, dup2, exit |
| process lifetime (`proc/src/{fork,process,wait,ptable,syscall}.rs`) | `Process` records, two tables | exit racing reap; tables naming freed frames; lost exits |
| signals (`proc/src/signal.rs`, `cpu/src/syscall.rs`) | pending set, actions, one saved frame, a per-CPU slot | delivery during a handler or after a sleep; SIGKILL |
| address spaces, copy-on-write, page cache (`proc/src/{cow,address_space,vma,pagefault}.rs`, `fs/src/pagecache.rs`) | page tables, share counts, mappings | two owners of a frame; freeing what is still mapped |
| TLB shootdown (`proc/src/shootdown.rs`, `memory/src/pcid.rs`) | active masks, request, acknowledgements, PCIDs | a CPU that switches or refills between the steps |
| exec and ELF (`proc/src/{exec,elf}.rs`) | new image and stack | page offsets, bss, alignment, failure half-way |
| files (`fs/src/{ramfs,dentry,cpio,devfs,syscall}.rs`) | inodes, blocks, directories, offsets | two copies of a size; contents that survive truncation |
| allocators (`memory/src/*`) | buddy lists, bitmap, lock-free stack | ABA; state changed outside the lock; cut regions |
| SeqLock and IPC rings (`sync/src/*`, `ipc/src/*`) | sequence, slots, positions | torn reads; claimed but unwritten slots; laps |
| keyboard (`keyboard/src/lib.rs`) | ring, generation, interrupt flag | locks shared with an interrupt handler |
| boot: APIC, ACPI, CPUs, page tables, PCI (`apic`, `smp`, `cpu`, `paging`, `pci`, `kernel/src/main.rs`) | registers, tables, one trampoline page | order of initialisation; EOI; page sizes; 64-bit BARs |
| virtio-net (`virtio/src/*`) | two rings shared with the device | indices that wrap; a completion as the handler leaves |
| shell, cat, echo (`userspace/*`) | a line, a pipeline, descriptors | a descriptor left open; limits of the parser |

Every blocking call samples a generation counter, looks at its own condition
and calls `thread_block_if`, which compares the counter again under the wait
queue's lock. Wakes push the thread on CPU 0's run queue; `schedule` takes it
from there. `Process::exit` closes descriptors (pipe release hooks) before it
becomes a zombie and wakes its parent.

Facts of the code that shape all the models:

* **User threads run on CPU 0.** `enqueue_thread` and `try_make_runnable` push
  there and only CPU 0 has a timer; the other CPUs idle with interrupts on.
  Concurrency of user threads is preemption, plus interrupts.
* **Handlers and system calls run with interrupts off until they have slept
  once.** `thread_block_if` ends in `sti` (`sched/src/block.rs:94`) whether or
  not it slept, so every later step of that call is preemptible. Handlers
  that never sleep (files, descriptors, mappings, signals) are one step.
* Boot runs with interrupts off until the first `schedule`.

## 2. Modules

| Module | Models |
|---|---|
| `WaitQueue`, `RunQueue` | operators on a wait queue and on an MLFQ queue |
| `Pipe`, `PipeUni` | one pipe with sets of threads at each end, one step per shared access; the same restricted to one CPU with the interrupt flag |
| `ProcLife` | fork, exit, wait4, reap and the two process tables |
| `Sched` | schedule, yield, tick, block, exit, wake, fork, stealing |
| `Keyboard` | keyboard_read, the interrupt handler, the tick, the locks they share |
| `KMutex` | the blocking mutex over futex_wait and futex_wake |
| `SeqLock` | readers and lock-serialised writers of a two-word value |
| `Rings`, `Fifo` | MpscRing and SpscRing; the bounded queue they implement |
| `TaggedStack` | the lock-free free list with links in free memory |
| `Frames` | the buddy allocator, its start from a memory map, the tracking bitmap |
| `VirtualMemory`, `PrivateMemory` | address spaces with copy-on-write, faults, mmap, fork, CLONE_VM, exec, exit, page cache; the private memory programs are promised |
| `Shootdown` | TLBs, PCIDs, active masks, the request and its acknowledgements |
| `Descriptors`, `Pipeline` | descriptor tables and pipe ends' counts; the shell, echo and cat running a pipeline on them |
| `Ramfs` | unpacking the initrd, directories, open, read, write, truncate |
| `Signals` | raise, deliver, sigreturn, fork, execve, exit, with the context each return resumes |
| `Exec` | phase 1 of execve: ELF checks, segments, stack |
| `Shell` | line input and `parse_line` |
| `Apic`, `BringUp` | interrupt delivery and handlers; MADT parsing, kernel_main's order, the APs |
| `Paging`, `PagingMachines` | the builder, the walker, the direct map, device windows, copies of the top table; the machines it is checked on |
| `Pci` | enumeration, BAR sizing, capabilities |
| `Virtio` | discovery, handshake, receive and transmit queues, the MSI-X handler |
| `MCStructures`, `MCProcesses`, `MCKernel`, `MCLive`, `MCVirtualMemory`, `MCPipe`, `MCSched`, `MCKeyboard`, `MCPaging` | instances for TLC |
| `SyncProofs`, `PipeProofs`, `ProcLifeSteps`, `ProcLifeProofs`, `RingsProofs`, `VirtioProofs`, `DescriptorsProofs`, `DeliveryProofs` | theorems |

`MCStructures`, `MCProcesses`, `MCKernel` and `MCLive` put parts that do not interact side by
side: `part`, chosen in the initial state, says which one a behaviour is
about, and the others stand still. A property of such a run is the property
of its own module, where needed guarded by `part`.

How state and actions correspond to the code, where it is not obvious:

**Pipe.** `len` is the ring's length (contents do not influence control),
`read_open`/`write_open` the threads whose descriptor is open (their number is
the end vnode's reference count). One action per access to shared state;
`ReadRing` is the section under the ring lock, `ReadBlock` the one under the
queue lock, `ReadRelease`, `ReadCloseBump`, `ReadCloseWake` the release hook.
`Pipe`'s `Next` lets any thread step at any time, more than one CPU allows;
what holds there holds on the machine. `PipeUni` is used where a
counterexample has to be one the machine can produce.

**ProcLife.** `fork` is one step, since the child is unreachable before its
last action; `wait4` and `exit` are cut at each access another process can
see. `masked` says of each exit whether it runs with interrupts off: then
nothing comes between its first store and its last `schedule`. It does not
when a signal ends a call that slept, because that exit runs after `sti`. Both
kinds meet in one behaviour. All pids share one ptable bucket, the worst case
of the hash.

**Sched.** Each call runs with interrupts off from its first shared access to
the switch and is one step. `fpu[t]` and `registers` name the thread whose
x87/SSE state they hold. A level never overflows as long as there are fewer
threads than `QUEUE_DEPTH`; the instances respect that.

**Keyboard.** `irq` is the handler's position, `intr` the readers with
interrupts on. `IrqHitsLock` lets an interrupt arrive while the running reader
holds a lock; the code does not prevent it (run `keyboard_deadlock`), and
`NoLostKey` needs it to be FALSE (section 4).

**KMutex, SeqLock, Rings, TaggedStack.** One step per atomic instruction or
per section under a lock; sequential consistency, which the acquire/release
accesses of these protocols give on x86. `TaggedStack!Scribble` is the owner
of a node overwriting the link that another CPU may be about to read.

**Frames.** `doing` holds a block between the allocator's lock and the change
of the bitmap, in either direction. Memory is measured in quarters of a frame,
so regions and reservations need not be aligned.

**VirtualMemory.** A page's contents are one value. Each fault and each call
is one step (see above); what interleaves is the processes. `Switch` is
`activate_address_space`, `Store` a user store that does not fault. A page of a
file may fail to be read (`ReadFails`, the fault ends in SIGSEGV), and a
write-back may stop at a write error (`Flushed`), which leaves the rest dirty.

**Shootdown.** `Fill` is the processor caching a translation of the loaded
space at any moment. Steps follow the order entry changed, mask read, local
flush, request posted, IPIs sent, wait. A page-table entry is a number no
other entry ever had, so a stale one shows. Processors without PCIDs, where
every load of CR3 flushes, are left out: they have fewer stale translations.

**Signals.** The user context is how far the main program has come, or the
handler that runs. System-call entry keeps it on the kernel stack (`kctx`) and
in the per-CPU slot that delivery reads (`slot`); both are modelled.

**Apic, BringUp.** A CPU's interrupt flag and the handler it is in are one
value. The trampoline page holds the stack of the CPU being started; firmware
tables are records of the fields `parse_madt` reads; an entry shorter than
its type is skipped, one shorter than its header ends the walk.

**Exec.** Too many arguments are refused before the file is read. A write of
the stack to a page that is not mapped would panic (`write_bytes_to_user`);
`NewImageExact` says that it never happens.

**Paging.** A table has 8 entries instead of 512 and a page 2 units instead of
4096; the arithmetic (alignment, indices, page-size choice) is the code's.

**Virtio, Pci.** The device and the PCI functions are external: the device
takes posted buffers in any order and signals each used entry; a BAR of size s
keeps the address bits from s up, and a function without the capability bit
in its status register has no list to walk. The device may also return an
entry too short for the packet header: `poll_rx` passes it over and does not
post its buffer again (`lost`). `init` gives up on a device
with an empty queue and panics on one without an MSI-X table (`vpc`). Indices
run modulo `IdxMod` (65536 in the code) and not modulo the queue size.

## 3. Runs

| Run | Instance | Result |
|---|---|---|
| `structures` | pipe: 2 readers, 2 writers, capacity 2, length 3, 2 calls; mutex: 4 threads; SeqLock: 1 reader, 2 writers, sequence up to 6; rings: 2 slots, 2 producers, 5 pushes; stack: 2 users, 3 nodes, 3 exchanges; frames: 2 regions with reservations, orders 0 to 2, 2 CPUs | holds |
| `processes` | 3 processes, exits masked or not; signals: 2 processes, 2 kills | holds |
| `kernel` | see *Bounds* | holds |
| `live` | keyboard: 2 readers, ring of 2, 3 keys; scheduler: 2 user threads and kidle over 3 CPUs; pipe: 1 reader, 1 writer; pipeline: echo into cat | holds |
| `vm` | 2 processes, 3 spaces, text, stack and one mappable page, 8 frames, one file page | holds |
| `pipe_eof`, `pipe_two_readers` | `PipeUni`, 2 readers, 1 writer | violated |
| `proc_reap_race` | 2 processes, exits masked or not | violated |
| `proc_bucket_full` | 2 processes, one bucket slot | violated |
| `sched_fpu` | 2 user threads and kidle | violated |
| `keyboard_deadlock` | interrupts at any point | violated |
| `direct_map_gap` | machines with 1 GiB pages and a region that holds a whole gigabyte | violated |

What the passing runs show:

* `structures`. `NoLostReadWake`: a reader that sleeps after the writers' last
  close has its waker on the way, and so has one that does all the reading and
  sleeps on a non-empty ring; `NoLostWriteWake` says the same of writers. With
  several threads reading from one end the second half is false
  (`pipe_two_readers`): a wake goes to one of them.
  `NoForgottenWaiter`: a sleeper of a KMutex is owed a wake. `NoTornRead`: a
  SeqLock read is one write. `RingsAreFifos`: both rings refine `Fifo`.
  `ObjectsAccounted`: no interleaving of pops and pushes loses or doubles a
  node. `FramesPartitioned`: every usable, unreserved frame is in exactly one
  place, and the tracking assertions never fire on correct use.
* `processes`. `NoLostChildExit`: wait4 never sleeps through the exit of a
  child it would accept. `NoDanglingEntry`: no table names a freed process.
  `MaskedExitWhole`: a process whose exit is masked is freed only after its
  last `schedule`, whatever the preemptible exits around it do.
  `StatusIsExitCode`: wait4 reports the code passed to exit, or the initial 0
  of a preemptible exit it met between the stores of `Zombie` and of the code.
  `NotifiesLiveParent`: the parent a masked exit notifies is not freed
  meanwhile, even if it is in a preemptible exit of its own. `WaitReturns`:
  wait4 with a child that ends returns. `KillEnds`: a pending SIGKILL ends the
  process, also when it is raised while a handler runs or beside another
  signal.
* `kernel`. Files:
  `NoOldContents` (nothing from before a truncation is read again),
  `SizesAgree` (the inode's and the vnode's size; one entry per name).
  Descriptors: `SleepersHavePeers` (counts are exact over all processes,
  nobody sleeps on a pipe whose other end has gone, a finished pipeline leaves
  nothing), both for the shell's pipelines of up to three stages and for two
  programs that make any descriptor call. Signals: `ContextKept` (a program
  resumes where it was interrupted), `SignalsKept` (a pending signal leaves
  only by delivery, in order). Shootdown: `ShootdownSound` (no CPU uses a
  replaced entry once the shootdown has returned, PCID reuse included, and the
  initiator is owed exactly the answers to come). Loading: `NewImageExact`
  (every byte and permission of the image, the ABI's stack). `ParseExact` (a
  line's pipeline against a declarative reading of the same bytes, over every
  line of up to 5 bytes). Boot: `ApReady` (an AP that takes interrupts has its
  APIC, its stack, its TSS and, if every AP before it came up, its run queue),
  `NoDeafCpu`, `DirectMapSound`, `BarsExact`. Network: `DeviceSound` (one owner
  per buffer, none out of use but those of refused entries, and a device that
  is live is set up), `FramesKept` (no frame waits unseen, and they stay in
  order).
* `live`. `KeyIsRead`, `NoStarvation`, `WorkConserving`, `ReadReturns`,
  `WriteReturns`, `PipelineReturns`, with `NoLostKey` and `ThreadsAccounted` as
  invariants on the way.
* `vm`. `PrivateMemorySpec`: with frames, sharing and faults hidden, every
  step of `VirtualMemory` is a step of `PrivateMemory` or none. `MemoryLive`:
  no frame that is mapped, cached or in CR3 is free. `CowExact`: the share
  table holds exactly the number of private claims of each shared frame.

What the violated ones show:

* `pipe_eof`: reader r1 sleeps, a write wakes it, r2 takes the byte. r1 sees
  an empty ring, is preempted before it loads the writers' count, the writer
  writes and closes, and r1 returns 0 with bytes left in the ring. The comment
  at `fs/src/pipe.rs:160` states EOF "iff no writer remains"; the emptiness it
  goes with is stale by then. A reader that reads again gets the bytes.
* `pipe_two_readers`: two readers sleep, one write of two bytes wakes one,
  which reads one byte; the other sleeps on a non-empty ring and nobody is on
  the way to wake it.
* `proc_reap_race`: `Process::exit` stores `Zombie` first
  (`proc/src/process.rs:275`); a parent that scans then frees the child's
  process frame and kernel stack while the child still executes on it.
* `proc_bucket_full`: a full bucket drops the insert. The comment calls the
  process "simply unreachable by `kill`", but `find_zombie` also goes through
  ptable, so its parent sleeps in wait4 for ever.
* `sched_fpu`: `schedule_yield` neither saves nor restores the FPU area that
  `schedule` does.
* `keyboard_deadlock`: the second iteration of `keyboard_read` takes
  `KBD_RING` with interrupts on; the handler then spins on it on the same CPU.
  The tick handler and the scheduler lock in `thread_block_if:63` are the same
  case.
* `direct_map_gap`: `map_huge_page_1g` (`paging/src/init.rs:330`) maps one
  2 MiB page for a gigabyte; `IMPLEMENTATION_DETAILS.md:197` says 512.

**Bounds.** Capacity 2 with lengths 1 and 3 gives partial reads and writes, an
empty, a half-full and a full ring; two threads per end are what the
wake_one/wake_all distinction needs (in `structures` every read empties the
ring: short reads by two readers meet the stall of `pipe_two_readers`). Four
mutex threads give an owner, a fast-path taker, a sleeper and a waker. Three
writes let a SeqLock reader overlap two; five pushes take a ring of two
through its third lap with two producers; three nodes and two users are the
smallest ABA, and three exchanges the shortest one. Three processes give a
grandparent chain and two siblings. In `kernel`: a file of two blocks of two
units, a directory of three entries, a cut name; pipelines of up to three
stages over two pipes; two processes and one pipe for arbitrary descriptor
calls, with three slots, so that sys_pipe finds room for two, one or none; a
caught, a default, a killing and an ignored signal; three CPUs, two spaces and
two PCIDs, so that a PCID is used again; ELF files with every offset of a
segment in its page and each reason to be refused; five-byte lines with two
words and two stages at most; four CPUs with a table for three, three firmware
descriptions (one with entries that are too short), APs that answer or not, so
that one can come up after another that never does; page tables of eight entries on machines
with and without large pages; BARs of each kind with the capability list at
each place and with none (every BAR lies in the first entry of the top table);
a queue of two with indices modulo 4, which wrap many times. In
`vm`: two processes with a spare space for execve, and more frames than
claims; text is not stored to there only to keep the run short. Three MLFQ
levels give a top, a middle and a clamped bottom; three CPUs give a steal
cursor that skips itself and finds an empty and a non-empty victim.
`MaxCalls`, `MaxPid`, `MaxKeys`, `MaxSeq`, `MaxPos`, `MaxTag`, `MaxAt`,
`MaxKills`, `MaxVal`, `MaxTops` bound counters the code does not bound.
`CHECK_DEADLOCK FALSE` where the system really may stop: every process has
exited, boot has ended, a counter is at its bound. In `structures` and `live`
deadlock is checked, and only the parts named in `Rest` may stop.

**Symmetry and view.** `structures` takes the threads of a pipe end as
interchangeable, `vm` the processes; `vm`'s view forgets which number a frame
or a space slot has. `live` uses neither.

**Assumptions.** Constants that leave executions out name conditions without
which a property fails on the code as it is:

| Constant | What is left out | What fails otherwise |
|---|---|---|
| `IrqHitsLock = FALSE` (`live`) | an interrupt on a held lock | `NoLostKey`, and run `keyboard_deadlock` |
| `TidySleep` | blocking calls of a process with a handler | `ContextKept`: delivery reads a slot that another entry overwrote (`docs/shell-checkpoint.md:138`) |
| `HandlerCalls` without fork | a fork inside a handler | `ContextKept`: the child is in a handler and has no saved context |
| `TidyExec` (`processes` only) | execve with a signal pending | `KillEnds`: execve empties the pending set |
| `TidyDup2` | dup2 over the last descriptor of a pipe end | `SleepersHavePeers`: it runs no release hook (`proc/src/fd.rs:192` says so) |
| `SoleTruncate` | O_TRUNC under a descriptor past the start | `NoOldContents`: blocks are not cleared |
| `TidyExit` | exec, exit or a fatal fault with a shared file mapping | `MemoryLive`: teardown frees the page cache's frame |
| `PromptAps` | an AP that comes up after its time-out | `ApReady`: the trampoline is patched for the next one |
| one `Initiators` | shootdowns from two CPUs at once | the second waits for the lock with interrupts off and never answers; only CPU 0 runs user threads |
| `CowCap` above the number of frames | a full share bucket | `CowExact`: the share is dropped (`proc/src/cow.rs:55`) |

**Fairness.** `Pipe`, `ProcLife`, `Pipeline`: weak fairness of the steps of a
thread inside a call or program; the tick calls `schedule`, and
`NoStarvation` shows that every runnable thread gets the CPU again. Starting
a call or closing is never fair. `Sched`: weak fairness of the tick, which its
handler re-arms. `Keyboard`: strong fairness of the running reader's steps (a
tick may interrupt each of them, and it resumes) and of switching to a ready
reader. `Signals`: weak fairness of interrupts in user mode (the tick), and of a
handler's sigreturn and the wake of a sleeping call: the kernel delivers
nothing before either, so `KillEnds` says that SIGKILL ends every process
whose handlers return and whose calls are woken, not more.

## 4. Proofs

Each proof holds for every value of the constants; TLC checked each formula,
and each inductive invariant, on small instances first.

**`PipeProofs`**, for any sets of threads, capacity and number of calls, with
non-empty buffers (`NonemptyBuffers`: a read of zero bytes on a non-empty ring
moves nothing and goes to sleep, so the claim is false for it):
`PipeTypeCorrect`, `PipeReadersWoken`, `PipeWritersWoken`, the data half of the
last two for a thread that is alone in using its end (`Lone`). The inductive
invariant `IInv` adds that each queue links exactly the sleeping threads, once
each; that a snapshot is never ahead of its counter; and the debt: while a
thread that is about to sleep still holds the current counter, whoever made
its condition true has not bumped the counter yet. Without the debt a step of
`ReadBlock` could not be shown safe.

**`ProcLifeProofs`**, for any number of processes, children and codes,
provided no ptable bucket overflows (`BucketsSuffice`; `proc_bucket_full` shows
why), masked and preemptible exits together: `ProcTypeCorrect`, `NoExitMissed`,
`TablesNeverDangle`, `ReapIsSafe`, `StatusIsExact`, `ParentIsLive`. The last three
say something of masked exits only, or less of the others: `proc_reap_race`
shows what goes wrong there. `IInv`
relates program counters to `Process.state`, says that children lists, ptable
and parent pids agree, how far a reap has got, that `child_count` is the number
of children, and the same debt as above; `ExitInv` adds that a child of a masked
exit has finished it when a reap has found it, that the status of any reap is
the child's code or the 0 of before, from which step on `exit_code` holds the
code, and that a zombie is in exit or past it.
`ProcLifeSteps` has one lemma per action that says what it changes and, for
most of them, that it keeps the shape of the tables; `ProcLifeProofs` does the
same for reap and exit, puts the actions together, adds the debt and
concludes.

**`SyncProofs`** has three sections, one per primitive.

*KMutex*, for any set of threads: `MutexExcludes`,
`MutexNeverForgets`. `MutexInv` adds that the word is 0 exactly while nobody
holds the mutex (exclusion needs it) and that the queue holds sleeping
threads, each once (a wake then turns one sleeper into a thread about to swap
and moves no other).

*TaggedStack*, for any number of users and objects: `StackObjectsAccounted`.
`StackInv` says that the head begins a list that ends and meets no node twice
(`IsList`), and what a user that has loaded the head knows (`Knows`): its tag is
never ahead of the head's; if the tags are equal the head is the one it
loaded, and then the link it read is still that node's. So an exchange that
succeeds took a current link, though the node may have been written to by an
owner between the load and the exchange. The free list is the least closed
set of nodes, so that pops and pushes are shown to take out and put in exactly
one node (`TakeFirst`, `PutFirst`, `WriteOff`) without a recursive definition.
The tag never comes back; its wrap is left out.

*Keyboard*, for any number of readers, keys and ring slots:
`KeyboardNoLostKey`, under `KbConstants`, which has `IrqHitsLock = FALSE`. TLC
refutes the claim with three readers when an interrupt may land on a reader
that holds the scheduler's lock: two wakes then find the lock taken and are
dropped. `KbInv` says who may hold which lock and queue node, and `DebtInv` that
the keys in the ring are covered by wakes still owed: by the handler on its
way to `wake_one`, or by readers that have been woken and will look.

**`RingsProofs`**, for any capacity, items, number of pushes and, for MpscRing,
any set of producers: `RingIsFifo`, that `RgSpec` implements `Fifo`. The
refinement mapping is the sequence of values at the positions from `head` to
`tail`, taken from the producer that has claimed a position and not yet
written its slot. So a push takes effect at the exchange of the tail (at the
store of the tail in SpscRing), a pop at the store of the head. `RingInv` says
who may touch which position: at most N are in use, so no two share a slot; a
claimed one has one producer; the one the consumer is at has none, and what
it has read is still there. Initial states map to initial states
(`FifoInitially`), every step to a step or a stutter (`RingRefines`).
`RingConstants` is what the constructors assert and, for SpscRing, its one
producer. The run checks the same formula for both rings as `RingsAreFifos`.

Its second section is about *SeqLock*, for any sets of readers and writers: `ReadsAreWhole`.
`SeqInv`: the spin lock leaves one writer at work, the sequence number is odd
exactly while it is between its two stores to it, both words agree while it is
even, and a reader whose first number is still current has loaded the words as
they still are. The number never comes back; the 64-bit wrap is left out.

**`VirtioProofs`**, for any queue length, number of receive buffers, range of the
indices and numbering of the frames: `VirtioBuffersOwned`, `VirtioFramesInOrder`.
`VInv` counts: the stretch of the available ring that the device has not taken,
the buffers it holds, the stretch of the used ring that the driver has not
read, the buffer in the handler's hands and those of refused entries are
`RX_BUFFER_COUNT` in all, and
every buffer is among them (`Owning`). So none is in two of them (`NotTwice`), and
an entry written behind a stretch falls on no slot of it (`WriteNext`), however
often the index has wrapped (`SlotInc`, `SlotEnd`). `Ordered` says which frame each
entry of the used ring holds, and needs that the device fills no buffer that
is still there; `Staged` and `Filling` follow the set-up. `VConstants` has what the
arithmetic needs: a queue that is set up holds the receive buffers (`fill_rx`
takes it for granted, see section 5), and its length divides the range of the
indices (a power of two in the standard, 65536 in the code). If it did not,
the slots would jump when the index wraps.

**`DescriptorsProofs`**, for any processes, descriptors and pipes:
`DescriptorsEndsCounted`, `DescriptorsSleepersHavePeers`. A pipe end's reference
count is the number of slots that name it, those of descriptor tables and
those of the `open_vns` array an exit is working through (or the one vnode a
close has taken out), plus one for a pipe whose descriptors could not be
installed (`CountInv`; also: a pipe not made yet and a process not born yet
have nothing). From the count, a release that leaves an end at zero is the
last one, and it wakes the sleepers of the other end; a thread that goes to sleep reads
a count above zero, and the slots behind it are still to be released.
`SleepersHavePeers` needs `TidyDup2`, the count does not.

**`DeliveryProofs`** has two sections, for the requests that one party leaves and
another picks up.

*Signals*, for any processes and signal numbers: `SignalsAreKept`, that no step drops a pending signal, without further hypotheses; and
`SignalContextKept`, under `TidyPrograms`. `SigInv` relates the context a process
will resume to the frame that delivery saved: either it is in its main
program and the frame is free, or it is in a handler and the frame holds the
main program's context. `TidyPrograms` has, beside `TidySleep`, that handlers do
not fork: the proof fails for a handler that does, since the child gets the
handler's context and no saved frame, and its sigreturn would have nothing to
resume. Both runs keep fork out of handlers.

*Shootdown*, for any number of CPUs, initiators, address spaces, pages and PCIDs:
`ShootdownIsSound`, from `ShootNoStaleTranslation` and `ShootAnsweredOnce`. `ShootInv`
says that a CPU is in the mask of the space it has loaded or is about to load (`Marked`),
that `remaining` counts exactly the IPIs not sent, those not taken and the
flushes not acknowledged (`Accounted`), and that a cached translation either is
the page table's or is due a flush by a shootdown of that page (`Covered`).
Stating `Marked` for PCIDs showed that an allocator without numbers to hand
out must refuse a new space; with 4095 of them the code takes this branch
too rarely for a test, so the instance has few enough PCIDs for it to be taken.

Only model-checked: every liveness property (outside the prover's reach); the
refinement of `PrivateMemory`, whose mapping and invariant rest on
cardinalities of claims per frame; `Frames`, `Sched`, `Exec`, `Shell`,
`Paging` and the other parts whose operators are recursive or fold over
sequences, which would need induction over data. (That a non-empty set of
numbers has a least element is proved from the well-foundedness of `<`, in
`LeastNumber`, and carries the proofs that choose a lowest signal, PCID or slot;
what a recursive definition computes is another matter.)

## 5. Not modelled, and known hazards without a property

Not modelled, with the reason:

* `arch-x86_64/*`: wrappers of single instructions.
* `futex_requeue`, `requeue_matching`, `thread_block`: no caller.
* `readdir`, the dentry cache's buckets, the mount table (one mount): they
  only read the tree that `Ramfs` models.
* The scancode decoder, descriptor and IDT bit layouts, the bootloader
  protocol, PIT counting: encodings of hardware; a choice of outcome in the
  models that use them.
* The dispatch table, user-copy helpers, the shell's builtins, `liblow`'s
  formatting, init: no state shared with anything modelled.
* `ipc/src/{wait,descriptor}.rs`: a back-off and plain data.
* Host tools (`xtask`, `miscompile-repro`), benchmarks, the site.
* Weak-memory reorderings beyond acquire/release; counters that wrap at 2^32
  or 2^64 (generations, positions, sequence numbers).

Behaviour met while modelling that no property covers:

* Pipes: a read or write of zero bytes on a ready ring sleeps (`fs/src/pipe.rs:285`).
* Processes: `PROCESS_TABLE` panics when full (`proc/src/syscall.rs:349`);
  orphans stay zombies (`proc/src/process.rs:281`); wait4 for a pid that is
  not a child blocks while any child lives (`proc/src/wait.rs:94`).
* CPUs: an AP's number is its position in the MADT (`smp/src/trampoline.rs:157`),
  the scheduler initialises as many queues as CPUs are online
  (`kernel/src/main.rs:165`); an AP after one that never answered idles with a
  number beyond them. `ApReady` claims the run queue only without such a gap.
* Memory: fork marks read-only pages copy-on-write and the fault makes them
  writable (`proc/src/address_space.rs:670`); a file mapping holds no vnode
  reference (`proc/src/address_space.rs:481`); freed blocks are never merged
  (`memory/src/buddy.rs:245`).
* Paging: frame numbers keep 36 bits (`paging/src/address.rs:73`);
  `map_region_2m` maps past both ends of a region inside one 2 MiB page
  (`paging/src/init.rs:301`);
  `ensure_next_table` follows a huge entry (`paging/src/mmio.rs:47`), which
  `DirectMapSound` shows is not met on the machines modelled.
* exec: segments that overlap, or overlap the stack, are not refused; sys_execve
  keeps 32 arguments, `liblow` passes 16.
* execve relies on interrupts being off for the whole call
  (`proc/src/syscall.rs:785`), which holds because it never sleeps.
* Shell: `>>` opens without truncation at offset 0 and does not append (a
  known limitation, `userspace/shell/src/exec.rs:158`).
* PCI: the scan stops adding devices at 32; I/O BARs are taken as 32-bit.
* virtio: a transmit that times out leaves its descriptor with the device; a
  refused used entry takes its buffer out of use for good (`virtio/src/net.rs:165`);
  `fill_rx` posts 16 buffers also to a queue with fewer entries
  (`virtio/src/net.rs:106`).
