# A verification project for the kernel in `src/kernel`

The repository holds a teaching kernel for 64-bit ARM (QEMU `virt`, one CPU), its earlier stages,
and a small fuzzer for Linux's netdevsim. These TLA+ modules model the latest kernel, `src/kernel`;
TLC checks them on small instances, and TLAPS proves the theorems listed below for every value
of the constants. `PROJECT.json` maps each definition to the lines it stands for.

## The system

| component | state | operations | talks to |
|---|---|---|---|
| scheduler (`core/scheduler/sched.c`) | `rq_head`, `rq_tail`, `current`; per task `state`, `slice_left`, `context`, `next` | `sched_ready_enqueue`, `sched_set_current`, `schedule_on_tick` | called by `kmain` at boot and by `irq_dispatcher` |
| trap path (`vectors.s`, `handlers.c`) | frames on the kernel stacks, PSTATE, TTBR0/SP_EL0/ELR/SPSR | interrupt entry, syscall entry, `RESTORE_AND_ERET`, the two dispatchers | hardware, scheduler, block driver |
| boot (`start.s`, `kmain.c`) | none of its own | set-up in a fixed order, two tasks, then `first_user_enter` | everything |
| spinlock (`spinlock.c`) | the lock word, the CPU's exclusive monitor, PSTATE.I | lock, unlock, both with interrupt masking | block driver |
| block driver (`block_driver.c`) | `used_request_index`, descriptors, avail and used rings, the lock | `block_read`, `block_write`, `find_free_index` | device through shared memory; syscall 64 and `kmain` call it |
| timer and GIC | one virtual timer, one interrupt | `set_cntv`, acknowledge, end | `irq_dispatcher` |
| virtio set-up (`virtio_blk.c`) | device status, queue registers | reset, features, `init_queue`, DRIVER_OK | device |
| page allocator (`mmu.c`) | the bitmap, kernel page tables | `kmalloc`, `free_pages`, `map_pagetable_entry` | every part that allocates |
| user page tables (`mmu.c`) | four tables per process | `map_user_to_physical` | `init_task` |
| device tree (`dtd.c`) | none (reads a blob) | `get_total_ram`, `get_drive_info` | boot |
| UART (`uart.c`) | none | formatting and output | everywhere |
| fuzzer (`fuzz_nsim.c`) | an operation sequence, Linux's devices | two threads replay one sequence | sysfs, netlink |

What is hard: timer interrupts in kernel code (the trap path unmasks in the middle of a syscall), a
list that is whole only at the end of each tick, exclusive stores that may fail, a device that
reads and writes shared memory at its own pace, and limits (slots, ring positions, stack, bitmap)
that only long runs reach. `PROJECT.json` lists these hazards at their lines.

What would make each part correct: the scheduler is a round robin that loses nobody; a context
switch is invisible to programs and never happens inside the kernel; the lock excludes and comes
free; a block call returns after its own request and before that request's slot is used again; the
allocator hands out no page twice; a page table maps what was asked, and only that; the
set-up tells the device it is ready only once it is; the reader stays inside the blob.

## Modules

**`RoundRobin`** is the promise of the scheduler: a turn and the ticks used in it. **`Scheduler`**
is `sched.c`: `RqPush`, `RqPop`, `SchedReadyEnqueue`, `SchedSetCurrent`, `ScheduleOnTick` (its two
outcomes `KeepCurrent` and `SwitchTask`), and `InitTask` and `FirstUserEnter` of `kmain`. A Context
pointer is the task whose stack holds the frame and the frame's depth. The list is kept as the code
has it, so `rq_pop` removes one task and returns another, and `next` fields start with any value
because `kmalloc` does not clear. `ImplementsRoundRobin` is the refinement.

**`Kernel`** extends `Scheduler` with the CPU: mode, mask, pending timer, general and system
registers, and the frames on each kernel stack. An exception masks interrupts, so interrupt entry,
`irq_dispatcher` and the return are one action (`Irq`). The syscall path and `first_user_enter` run
unmasked from `spin_unlock_with_mask` (or `kmain`'s `DAIFClr`) to the eret; there the loads of
`RESTORE_AND_ERET` are actions of their own: TTBR0_EL1 and SP_EL0 (which an interrupt saves and
restores), ELR_EL1, SPSR_EL1 (which it overwrites), the general registers, the eret. An interrupt fits
between any two of them. Block operations, of `kmain` at boot and of syscall 64, are four actions in
the code's order: mask, lock, unlock, unmask; what follows is the wait for the device, which
`BlockDriver` is about and which is taken to end here. Its scheduler is the one of
`Scheduler`, called with the frame the vector code saved; `ImplementsScheduler` says that nothing
else ever happens to the scheduler's state. Of a frame are kept x0 (scratch of `SAVE_CONTEXT`,
clobbered by the missing 35th word), x10 and x11 as one value (the class of an exception is left in them),
all other registers as one value, and the four system registers. A kernel stack has room for
`MaxDepth` + 1 frames. The code does not check that; `Overflow` ends the run where the next frame
would not fit (`overflow`). The variables of `history` record faults and lost registers for the properties;
no action reads them.

**`Mutex`** is the promise of a lock; **`SpinLock`** is the asm of `spinlock.c`, one action per
instruction, running the test in that file's comment on several CPUs. The kernel has one CPU, so
`Kernel` uses the lock as a word and adds what `..._with_mask` does to PSTATE.

**`BlockService`** is the promise of a block call; **`BlockDriver`** is `block_read` and
`block_write`, one program since they differ in the direction of the data only, with one action per
access to memory shared with the device, and the device: it takes entries of the avail ring at
`idx % QueueNum` and reports them at `used.idx % QueueNum`, in any order. It refuses a descriptor
beyond the queue size and may take an entry as soon as `avail.idx` counts it, once some notification
has set it to work. Nothing else of the device is assumed.

**`PageAlloc`** is `mmu.c` from `allocate_mem` to `map_pagetable_entry`. The bitmap is the set of its set
bits and a page is its number; nothing clears it before its first use, so that the model starts, as the code
does, from RAM past the image that reads zero (QEMU's does); `find_free` called n times takes the n lowest free pages
(`FindFree`), so partial failure, the count of 0 that `kmalloc` does not look at and the read of an
uninitialized `res[0]` (`Res0`: any page) are as in the code. The level 3 tables are one array:
`WriteSlot` is where `map_pagetable_entry` writes a descriptor, `ReadSlot` where the processor looks
for it. The first call clears 512 * 10 bytes, that is 640 descriptors (`ClearedSlots`); those may have held
anything before, the ones beyond rest on RAM that reads zero, too. `FreePages` is there too, in `FreeingSpec`, as nothing in the kernel calls `free_pages`.
**`Memory`** extends it by `mmu_init`'s 2 MB blocks, `add_virtio_page`, the sequence of allocations
of `kmain`, `init_virtio_backend` and `init_task` (`BootCalls`), and the page tables of both programs,
each with the single level 3 table all its regions share. Its addresses are those of the code.
Where the linker put `sys_write`, `uart_printf` and the two entries is chosen at the start, each on its own
(`layout`, from `LibraryPages` and `EntryPages`): the code maps ten pages from each function's own page.
`UserTranslate` is what a program finds through its own tables, the lower half of the address space.
TTBR1_EL1 stays in place in user mode and `make_l3_block_desc` marks every page `kmalloc` maps as
accessible from any exception level, so that programs also reach all mapped pages of the pool at
their kernel addresses (`KernelPages`), each other's stacks, the kernel stacks and the rings included.

**`DeviceTree`** is `dtd.c`, one token a step, over the words of trees built from a list of nodes, so
that a reference reading of the nodes can be compared with what the byte loops return. Values of
properties include the numbers of tokens. **`Boot`** extends it by the probe in
`init_virtio_backend`, `init_virtio_driver`, `init_queue` and the first `block_write`. The device is
external: it resets on a status of 0, refuses FEATURES_OK when it is not given VERSION_1 or something it
did not offer, serves a ready queue once DRIVER_OK is set, and starts as an earlier system left it.
A transport may also hold a device that is no disk: `check_virtio_driver` accepts any device id but 0,
and such a device never serves the transfer.

**`Format`** is `uart.c`: one `uart_printf` in steps of one character or digit, against a FIFO
that the line empties. **`NsimFuzz`** is `fuzz_nsim.c`: the builder of the list, two threads, and
netdevsim, which refuses a second device of one id and the deletion of none.

**`Scheduler_proofs`**, **`Kernel_proofs`**, **`SpinLock_proofs`**, **`BlockDriver_proofs`**,
**`Memory_proofs`**, **`Boot_proofs`**, **`Format_proofs`** and **`NsimFuzz_proofs`** hold the proofs
about the module they are named after; `Memory_proofs` also those about `PageAlloc`, and `Boot_proofs`
those about `DeviceTree`.

Definitions such as `UartPutc_NoWait` are the definition before the underscore with one plausible mistake (a dropped guard, a forgotten
reset); replacing that definition by them makes TLC report the property `PROJECT.json` names beside it.

## Runs

| run | constants | what it shows |
|---|---|---|
| `Scheduler` | 4 tasks, slice 3 | the list is whole, one task runs, frames stay with their task, nobody starves, strict round robin |
| `Kernel` | 2 tasks, slice 2, room for 2 frames, syscalls 5 and 64 | programs cannot tell that they were switched; no switch inside the kernel; the lock holder is undisturbed; only faults leave frames behind; both programs keep running |
| `SpinLock` | 3 CPUs, 2 rounds | exclusion, exact count, mutex, termination |
| `BlockDriver` | 2 callers one at a time, 8 requests, 6 slots, queue of 6 | slots come back, ring positions agree, each request performed once and before its call returns, every call returns |
| `KernelEret` | as `Kernel` | violated: an interrupt after ELR_EL1 is loaded makes the eret stay at EL1 or, between the two loads, enter EL0 at a kernel address |
| `KernelSavedX0` | as `Kernel` | violated: an interrupt at the start of the return clobbers the saved x0 |
| `BlockDriverSnapshot` | 1 caller, 2 requests | violated: a completion before the snapshot is never noticed |
| `Memory` | the code's constants, except a pool of 44 pages | one owner per page, mapped is marked, an address leads to its page and stays so, a failure means a full pool; programs find their text and stack, and reach by their own tables no other page of the pool, by the kernel's none that was not handed out; device windows lead to the devices |
| `PageAllocTables` | tables of 8 descriptors, 1 apart; 20 pages | violated: an address beyond the first table leads elsewhere |
| `Boot` | trees of 2 nodes, 3 transports | memory and drive found as in the reference; no device on rings not the driver's; a usable disk that is the first device serves the first transfer |
| `NsimFuzz` | first bytes 0, 1, 3, 26; up to 3 operations behind | the input's device is gone afterwards; the list outlives the threads |
| `Format` | formats of 5 characters, ints of 5 bits, FIFO of 2 | the line carries the reference text, and all of it |

**Bounds.** Four tasks and slices of three ticks give every shape of push and pop (two tasks alone
would make every successor a predecessor). Two tasks and a slice of two are enough for `Kernel`, whose
questions concern one running and one waiting program. Room for two frames holds a syscall's frame and an
interrupt's on top (interrupts do not nest further, as the handler is masked), or a leaked one below a
syscall's; whatever comes on top of that overflows. A fault may happen at any instruction and any number of
times until then; a whole stack is a matter of the number, and the proofs are for every one.
A program issues one syscall and then loops, as both programs of `kmain.c` do.
`SpinLock` needs a third CPU for a store by somebody else between a tag and its use. Eight
requests wrap a queue of six. `NSlots` and `QueueNum` are 12 in the code; 6 keeps two
slots whose descriptors the device accepts.

`Memory` needs 23 pages for boot; 44 let every mix of sizes fill the pool from different sides
and go on afterwards, below one table's 512 pages. 81920 and 86016 bytes are 20 and 21 pages, the two
sides of `MaxMap`; syscall 5 can ask for any size. Each function and each
entry lies in one of two pages, near enough that the ten pages from one may or may not hold the other.
`PageAllocTables` keeps the ratio of 8 between
a table and the distance, so that the first regions share a table as in the code.
`Boot`: two nodes give each kind before and after each other with a first and a second reg;
`Cell` and `Block` are 16, the page of `drive_info` holds something else before (3), and the tree lists the first or the last of three transports. `NsimFuzz`:
the first bytes give one to four operations, odd and even, and a device id that is the left-over one or not.
`Format`: five characters hold two conversions, or a conversion with text before and behind it;
-16 is the lowest int of 5 bits.

**Deadlock** is checked in `Scheduler`, `Kernel`, `Memory` and `NsimFuzz` and not in the others: they end. In
`Kernel` an eret that stays at EL1, kernel code that used a clobbered word and a stack that overflowed are
states of their own (`strayed`, `crashed`, `overflow`) in which the CPU stays; invariants hold in them too.
A program that was sent to a kernel address (`lost`) is not stuck: it faults there, and the timer interrupts
it.

**Fairness.** `Scheduler`: something keeps happening, since `set_cntv` re-arms the timer on every
tick. `Kernel`: kernel code executes, the timer fires again, a pending unmasked interrupt is taken;
nothing of user programs. `EveryProgramRuns` excepts a kernel that is lost: astray, crashed, or with a kernel
stack that overflowed, which is where a program that faults for ever gets. `SpinLock`: every CPU
executes; `TestEnds` assumes that tags are eventually lost only to stores, which the architecture
promises for loops like these. `BlockDriver`: the CPU runs an active call, and the device serves what was
announced by a notification. `EveryCallReturns` assumes in addition that the device takes
nothing earlier (`DeviceWaits`); `BlockDriverSnapshot` shows what happens otherwise.
The safety properties do not assume it. `Boot`: the one processor runs `kmain`, with interrupts masked,
and a usable device serves a notification. `Format`: the processor runs the call and the line
sends. `Memory` and `NsimFuzz` have safety properties only.

## Proofs

The assumptions say of what kind the constants are: `SchedulerAssumption` (at least one task and one
tick), `KernelAssumption`, `SpinLockAssumption`, `BlockDriverAssumption`, `PageAllocAssumption` (page and
table sizes above 0), `MemoryAssumption` (the text, wherever the linker puts functions and entries, ends below the
pool), `DeviceTreeAssumption` (a word has values, addresses and the number of nodes are natural numbers),
`BootAssumption` (at least one transport), `NsimFuzzAssumption` (bytes, and device ids of 5 bits),
`FormatAssumption` (an int has an even number of values, the FIFO holds a character). Five theorems or
groups of them need more, and say so as a hypothesis: `MaxParallel <= 1`, `InFirstTable` (within the
property), `CodeSized`, `BoardSized`, and in `UsableDiskServed` that all transports lie in one block;
see below.

`Scheduler_proofs`: the invariant is the conjunction of the checked invariants and `BootOrder`, which
says how far boot has come (tasks are initialized in order; none is current before all are; slices
of initialized tasks are positive). It is needed because `QueueSpellsRotation` alone does not say
why `SwitchTask` never finds an empty list. The heart is `PushPopRotates`: on a list that spells the
rotation from its head, pushing the head and popping it turns the rotation by one, for any number of
tasks. There is one lemma per action; `SwitchTaskEffect` first reduces the action's nested cases to
the only one that occurs. From the invariant follow `TypeCorrect`, `QueueCorrect`, `ExactlyOneRuns`,
`FramesStayHome` and the refinement `RefinesRoundRobin`.

The same module proves what `EveryTaskRuns` says only with fairness as a bound in ticks. `Distance` counts
the turns before a task's own and `TicksToTurn` the ticks, `LongestWait` is one slice of each of the other
tasks. `WaitIsBounded`: no task ever has more than `LongestWait` ticks to wait, and exactly the task the
CPU executes has none. `WaitCountsDown`: each tick takes one from every wait, and a task that loses the CPU
starts with exactly `LongestWait`. The step needs that a waiting task holds a full slice (`OneRuns`), or a
short slice in the middle would not add up.

`Kernel_proofs` builds on it, for any size of the kernel stacks. That programs are undisturbed is far from
inductive: it must be known what lies on every kernel stack while a syscall, a fault or boot is under way and
an interrupt sits on top. The invariant adds `IoProgress` (the block operations, and the mask around the
lock), `StackInUse` (whose stack the CPU is on), `FramesCounted` (a syscall adds one frame to those the
task's faults left), `ProgramKept`, which says at each point of the path where the program's registers are
while they are not in the CPU, and `ReturnKept`: ELR_EL1 leads to the program while SPSR_EL1 leads to EL0,
except in the tasks whose return was interrupted between the two loads. Where an interrupt may have
replaced both, or the saved x0, it claims nothing: those are the two violated runs, and the proof goes
around exactly them. From it follow `KTypeCorrect`, `ProgramsUndisturbed`,
`ContextsIntact`, `LockHolderSafe`, `StacksGrowByFaultsOnly`, and `RefinesScheduler`: each step of the kernel
is a step of `Scheduler` or leaves its variables alone. With `Scheduler_proofs`, `KernelIsRoundRobin`: the
whole kernel is a strict round robin, and `KernelWaitsAreBounded`: no syscall, fault or interrupt makes a
waiting program wait for more ticks of the timer.

`SpinLock_proofs`: the invariant adds `TagVouches` (a tag that survived vouches for the value that was read)
and `ReadIsFresh`. From it follow `TypeCorrect`, `LockExcludes`, `NoIncrementLost` and
`RefinesMutex`, which adds to the exclusion that only the holder releases.

`BlockDriver_proofs` assumes `MaxParallel <= 1`, calls one at a time: a syscall is not preempted
(`RefinesScheduler`: only interrupts from EL0 switch) and `kmain` makes its calls before there are programs. With two calls at a time
`SlotsAccounted` is false. The invariant says that then only slot 0, descriptor 0 and
entries that lead to it are ever used (`FirstSlotOnly`), what the active call has done by each line of
`block_read` (`OneCall`), and where the ring's counters and the device stand (`QueueInStep`,
`DeviceInStep`). Everything holds for any number of requests, slots and ring entries, so that
wrapping needs no bound. `RefinesBlockService` maps each step; `ReturnedIsDone` is a property no run
lists, since `ImplementsBlockService` covers it on the instance.

`Memory_proofs`, the allocator: that no page has two owners is not inductive, because `kmalloc` looks at the first
page found only and takes the rest to follow it. The invariant adds `Prefix` (the marked pages are
the first ones: pages are taken from below and never given back), `LentMarked`, `TablesMarked` and
`FirstTable` (a descriptor of the first table leads to the page of its own number). `FindFreeIsNext`
counts: on a prefix, n calls of `find_free` give the next n pages or all there are. A call then
either gets exactly those (`GrantedStep`) or leaves no page free (`RefusedStep`), and `TablesKept` says
what `map_pagetable_entry` makes of both. The layout is any: the overlap of the tables breaks nothing
below the first table's end, whatever `Stride` and `ClearedSlots` are. What is not cleared must not look mapped:
that, like the empty bitmap, is the assumption that RAM past the image reads zero at the start. `MemStep` shows that every step of boot and
of the programs is a call of the allocator or leaves it alone, so that all of this holds for `MemSpec`.
`FreeingSpec` is not covered: giving pages back breaks `Prefix`.

The page tables of the programs are proved call by call of boot. `BootCallsListed` is the order of the 27
calls, `MapUserEffect` what `map_user_to_physical` does to the table all regions share. A program's table
leads below the pool or, once that is mapped, to its own stack (`LeadsToOwn`); through the kernel's half it
reaches what is mapped, and that is marked (`MappedPagesMarked`). Hence `ProgramsReachHandedOut`, for any pool
and also where `kmalloc` fails and returns any page. It does not say that programs are kept from each
other's memory, as they are not. That each program
finds its text and stack (`ProgramsFindTheirPages`) does depend on numbers: `CodeSized` has the code's
table size, a pool of at least the 23 pages boot takes, and entries in the first ten pages of the image, so
that the ten pages mapped from them end before the indices of the stacks. `TakenInOrder` then follows the bitmap through boot: the stacks are pages 19 and 22 of the pool, and
their entries clear of the text's. `WindowsAreRight` assumes the table size and that the transports are
where QEMU has them (`BoardSized`); `BlocksInPlace` says which block is the last for its index.

`Boot_proofs`: the invariant is about the probe and the handshake, for any number of transports, any
device behind each and any state an earlier system left: `ProbeFindsFirst` (everything before the
current index was no device), `QueueWritten` (a ready queue has the driver's registers), `FeaturesAgreed`
and `ServedLive`. `RingsAreOurs` is the property of the run. `ProbeIsRight` and `HandshakeIsRight` say more of
what the run shows through `FirstTransferServed`, and `UsableDiskComesUp` is its safety half: where the
first device is a usable disk, `kmain` reaches the first transfer and finds the queue live. None of them
says that features are agreed before the queue is made ready: the driver does not read FEATURES_OK back,
and a device that refused it has a ready queue that is never served.

The readers of the device tree are proved for trees of any number of nodes. What makes this hard is that
they walk over words without bounds, some of which, as values of properties, are the numbers of tokens.
`FlattenLaid` and `TreeLaid` therefore say where in the blob every node and every property lies, unfolding
the recursion of `FlattenSeq` by induction over sets of numbers, and `TokenRead` what is at each of these
places. The invariant (`TInv`, with `Place`) then says that a reader is always at the root, at the token of
some node, at one of its properties, or at the end, that it knows whether it is in a node of its
kind, and that it has passed no such node with a reg of its least length (`Passed`). From it follow
`ReadersStayAtTokens`, that they leave neither the structure block nor its tokens, `RamIsRight` and
`DriveIsRight`, that both return what a reading of the nodes would, and `AddressIsListed`, that the window
`init_virtio_backend` maps is around a transport of the machine, or whatever the page of `drive_info` held
where the tree names none. `UsableDiskServed` puts tree,
probe and handshake together: if all transports are in the block `Boot` places its own in, a usable disk
that is the first device, behind any of them, is found and brought up, whatever the tree says.

`Format_proofs`: the text a call should print is defined by recursion over the format, for the arguments
taken so far, so that it grows with every conversion and an invariant about it alone is not
inductive. `Accounted` speaks of every list of arguments that begins with those taken: its text is what
was sent, what is in the FIFO and what is due, followed by the text of the format from `i` on. `Due` is
what is due in each function and loop of `uart.c`; in the loop over the digits it is the digits of what is left of the
number, then the buffer backwards. `TextUnfolds` and `DecimalUnfolds` show that the recursive definitions
have the solutions they need, again by induction over sets. Then each step prints a character of
what is due or moves it: `OutputIsRight`, and `CallPrintsAll`, that nothing is missing at the end, for every
format, argument, width of int and FIFO. `NoIntMin` is needed in one step, `IntStartStep`, where the lowest
int would stay negative.

`NsimFuzz_proofs`: `EndsClean` holds because whoever ends last has just deleted the device
(`LastDeletes`): a thread ends only with the last operation, the list ends in a deletion for every length
and first byte (`ListBuilt`), and a thread that is still under way is inside the list and acts on what it
looked up only if its operation is no deletion (`ThreadsInList`).

Only model-checked: liveness (`EveryTaskRuns`, `TestEnds`, `EveryProgramRuns`, `EveryCallReturns`,
`FirstTransferServed`, `AllSent`, the fairness part of `ImplementsRoundRobin`), which is beyond the
prover. Five have a safety half that is proved: `WaitIsBounded` with `WaitCountsDown`,
`KernelWaitsAreBounded`, `ReturnedIsDone`, `UsableDiskServed` and `CallPrintsAll`. Every invariant and every
action property the runs check is a theorem.

## What the code does that one might not expect

- The four violated runs above.
- A syscall's result never reaches the program: the dispatcher leaves it in x0, and the return
  reloads x0 from the frame. Its first argument is TTBR0_EL1, for the same reason. `Svc` and
  `LoadGeneralRegisters` model this; it is unconditional, so no run is spent on it.
- A slot other than the first is never given back, as `used_request_index` is then indexed by
  descriptor. Calls in sequence only use the first slot, so `SlotsAccounted` holds; with
  `MaxParallel` = 2 it does not.
- The length a block call returns is the first request's from the second call on (`AnswerIsOwn`, which
  no run checks; no caller uses the length), and of two calls that overlapped, one could
  return on the other's completion (`ReturnsWhenDone` with `MaxParallel` = 2; calls do not overlap
  in this kernel).
- After more than 20 pages in one call, or a call that failed, `kmalloc` returns an address that is not
  mapped, or someone else's; `lent` records only calls that got their pages.
- With `free_pages`, pages in use would be given away: `HeldIsMarked` fails under `FreeingSpec`.
- `%d` prints the lowest int as `-`; a `%` at the end or an unknown conversion takes a string.
- A transport is taken if its device id is not 0, whatever the device is, and DRIVER_OK is set even
  if features or queue were refused: then, and without any device, the first transfer hangs.
  `Usable` excludes exactly those machines: it asks that the first device be a disk.
- `docs.md` (331-332, 393) says the driver sets DRIVER_OK before the queue is initialised. The code no longer
  does: `init_virtio_driver` calls `init_queue` (`virtio_blk.c:206`) and then sets DRIVER_OK (`:207`), so the
  modules have that order. What remains of the remark is that FEATURES_OK is not read back.
- A fault that is not a syscall returns without popping its frame, and with TTBR0_EL1 in x0 and the
  exception's class in x10 and x11. `UserSeesItsOwnState` excepts these three registers of a program
  that has faulted; `StackGrowsOnlyByFaults` counts the frames.
- Programs can read and write every page `kmalloc` mapped, at its kernel address (see `Memory`).
- `PublishedIsRead` holds for calls in sequence because every ring position then holds 0.

## Not modelled

The bytes transferred and the status byte (which no decision reads). Memory attributes, caches, TLBs
and barriers: `SpinLock` is sequentially consistent, the driver's barriers are taken to order its
accesses, and `TranslationsStable` shows why the missing TLB invalidation does no harm while the pages in use fit one
level 3 table; beyond 512 pages descriptors of pages in use are replaced (`PageAllocTables`), and stale TLB
entries are one more way for an address to lead astray. RAM that does not read zero at the start. What
happens after a kernel stack has overflowed, or an eret has stayed at EL1. The bytes of
names in the device tree. Allocations beyond the 64 pages `kmalloc` has room for, which overwrite
its stack. Whether the pool is backed by RAM: total RAM only places the bitmap. Interrupts other
than the timer's, which the GIC set-up does not enable. Lines of several writers that mix on the
UART. The earlier kernels (`kernel-boot-minimal`, `kernel-interrupts`, `kernel-simple-mmu`,
`kernel-simple-scheduler`) are stages of the same files. Scripts, `file.h` (included nowhere) and `syscall.c`
(commented out).

## What is left

1. Which addresses still lead right beyond the first level 3 table, for the code's distance between
   tables: `AddressesLead` stops where `PageAllocTables` finds the first wrong one.
2. `SlotsAccounted` and `ReturnsWhenDone` are proved for calls one at a time, which is all this kernel does. A
   kernel that blocks in `block_read` needs another driver before it needs another proof.
3. Liveness could only be proved with a prover that handles ENABLED.
