------------------------------ MODULE Memory ------------------------------
(***************************************************************************)
(* Memory from mmu_init to the running system: the 2 MB blocks of the      *)
(* kernel's level 2 table, the allocations kmain makes on the way, and the *)
(* page tables init_task fills for the two user programs.  Allocation is   *)
(* PageAlloc.  An address is the number of its 4 KB page (bits 47 to 12).  *)
(***************************************************************************)
EXTENDS PageAlloc, Sequences, SequencesExt

CONSTANTS TextPages,    \* pages map_user_to_physical maps: 10
          LibraryPages, \* where sys_write and uart_printf may lie,
          EntryPages,   \* and the two programs, counted from the start of the text
          VirtioRegs    \* pages of the transport the device tree may list first

VARIABLES pc,      \* the next call of BootCalls; 0 before mmu_init
          kl2,     \* the kernel's level 2 table: index to page
          utab,    \* per process, the entries of its level 1, 2 and 3 tables
          ustack,  \* per process, the page of its user stack; PoolBase before
          layout   \* the pages of the functions and of the registers, fixed at start

boot  == <<pc, kl2, utab, ustack, layout>>
mvars == <<vars, boot>>

Tasks == {1, 2}
KernelText == \h80000   \* PHYS_KERNEL_BASE
PoolBase   == \hC0000   \* PHYS_BASE_ADDR, the page of bit 0
VirtioWindow == \h86400 \* VIRTIO_REG_RANGE

\* The kernel's image, with the functions the programs use, lies below the pool.
ASSUME MemoryAssumption ==
    /\ TextPages \in Nat /\ VirtioRegs \subseteq Nat
    /\ \A r \in LibraryPages \cup EntryPages :
          r \in Nat /\ KernelText + r + TextPages <= PoolBase

L1Index(a) == (a \div (TableEntries * TableEntries)) % TableEntries
L2Index(a) == (a \div TableEntries) % TableEntries
L3Index(a) == a % TableEntries

\* The blocks mmu_init sets, virtual and physical page, in its order: kernel
\* (twice), UART, user tables, GIC, device tree, stack, kmalloc's tables.
KernelBlocks ==
    << <<\h80000, \h80000>>, <<\h80000, \h80000>>, <<\h82400, \h09000>>,
       <<\h80A00, \h80A00>>, <<\h81400, \h08000>>, <<\h85400, \h40000>>,
       <<\h801F0, \h801F0>>, <<\h8008E, \h8008E>> >>

\* What a table holds after set_table_entry for each of the entries.
set_table_entries(table, entries) ==
    [k \in DOMAIN table \cup DOMAIN entries |->
        IF k \in DOMAIN entries THEN entries[k] ELSE table[k]]

\* One block after the other: the last one for an index is the one that stays.
SetBlocks(blocks) ==
    LET index(n) == L2Index(blocks[n][1])
        last(i)  == Max({n \in DOMAIN blocks : index(n) = i})
    IN  kl2' = set_table_entries(kl2, [i \in {index(n) : n \in DOMAIN blocks} |->
                                          blocks[last(i)][2]])

\* A block reaches 2 MB; the hardware ignores the address bits below, which
\* make_block_desc does not clear.
KernelTranslate(a) ==
    IF L2Index(a) \in DOMAIN kl2
    THEN {kl2[L2Index(a)] - L3Index(kl2[L2Index(a)]) + L3Index(a)} ELSE {}

-----------------------------------------------------------------------------
(* The calls of kmain that take or map memory. Sizes below a page are 1.   *)
Alloc(size) == [call |-> "kmalloc", size |-> size, id |-> 0]
Call(name, id) == [call |-> name, size |-> PageSize, id |-> id]

\* Block data, lock, virtio, descriptors and both rings; the registers; the queue.
BackendCalls ==
    << Alloc(1), Alloc(1), Alloc(1), Alloc(1), Alloc(1), Alloc(1),
       Call("add_virtio_page", 0), Alloc(1) >>

BlockCalls == << Alloc(1), Alloc(1) >>   \* a request and its status byte

InitTaskCalls(id) ==
    << Call("sys_write", id), Call("uart_printf", id), Alloc(1), Alloc(PageSize),
       Call("ustack", id), Call("entry", id) >>

\* The tasks set up first.
BootCalls_TasksFirst ==
    InitTaskCalls(1) \o InitTaskCalls(2) \o << Alloc(16000), Alloc(48) >>
    \o BackendCalls \o << Alloc(1) >> \o BlockCalls \o BlockCalls

BootCalls ==
    << Alloc(16000), Alloc(48) >> \o BackendCalls \o << Alloc(1) >>
    \o BlockCalls \o BlockCalls \o InitTaskCalls(1) \o InitTaskCalls(2)

Booted == pc > Len(BootCalls)
Now(name) == pc > 0 /\ ~Booted /\ BootCalls[pc].call = name /\ pc' = pc + 1

MemInit ==
    /\ Init
    /\ pc = 0
    /\ kl2 = << >>
    /\ utab = [t \in Tasks |-> [l1 |-> {}, l2 |-> {}, l3 |-> << >>]]
    /\ ustack = [t \in Tasks |-> PoolBase]
    /\ layout \in [sys_write : LibraryPages, uart_printf : LibraryPages,
                   entry : [Tasks -> EntryPages], reg : VirtioRegs]

MmuInit ==
    /\ pc = 0
    /\ pc' = 1
    /\ SetBlocks(KernelBlocks)
    /\ UNCHANGED <<vars, utab, ustack, layout>>

\* The window put where the device tree's is.
AddVirtioPage_OverDtb ==
    /\ Now("add_virtio_page")
    /\ SetBlocks(<< <<\h85400, layout.reg>> >>)
    /\ UNCHANGED <<vars, utab, ustack, layout>>

\* add_virtio_page, with the address get_drive_info found.
AddVirtioPage ==
    /\ Now("add_virtio_page")
    /\ SetBlocks(<< <<VirtioWindow, layout.reg>> >>)
    /\ UNCHANGED <<vars, utab, ustack, layout>>

BootAlloc ==
    /\ Now("kmalloc")
    /\ \E base \in Res0(PagesFor(BootCalls[pc].size)) : Kmalloc(BootCalls[pc].size, base)
    /\ UNCHANGED <<kl2, utab, ustack, layout>>

TablesOf_Same(id) == 1

\* The tables of a process: one of each level, whatever the address. The one
\* level 3 table serves all 2 MB regions.
TablesOf(id) == IF id = 1 THEN 1 ELSE 2

\* map_user_to_physical for count pages from page a on. The address of a
\* kernel function keeps its upper bits in the level 3 descriptor, where they
\* forbid execution in user mode.
MapUser(id, a, count, upper) ==
    LET entries == [k \in {L3Index(b) : b \in a .. a + count - 1} |->
                       [page |-> CHOOSE b \in a .. a + count - 1 : L3Index(b) = k,
                        uxn  |-> upper]]
        t == TablesOf(id)
    IN  utab' = [utab EXCEPT ![t] =
                    [l1 |-> @.l1 \cup {L1Index(a)}, l2 |-> @.l2 \cup {L2Index(a)},
                     l3 |-> set_table_entries(@.l3, entries)]]

\* The ten pages from the one a function lies in: two kernel functions under
\* their kernel address, then, when the stack is there, the program's own entry
\* under its physical address.
EntryPage(t) == KernelText + layout.entry[t]

MapLibrary(name) ==
    /\ Now(name)
    /\ MapUser(BootCalls[pc].id, KernelText + layout[name], TextPages, TRUE)
    /\ UNCHANGED <<vars, kl2, ustack, layout>>

MapEntry ==
    /\ Now("entry")
    /\ MapUser(BootCalls[pc].id, EntryPage(BootCalls[pc].id), TextPages, FALSE)
    /\ UNCHANGED <<vars, kl2, ustack, layout>>

MapUserStack ==
    /\ Now("ustack")
    /\ \E base \in Res0(PagesFor(PageSize)) :
          /\ Kmalloc(PageSize, base)
          /\ MapUser(BootCalls[pc].id, PoolBase + base, 1, FALSE)
          /\ ustack' = [ustack EXCEPT ![BootCalls[pc].id] = PoolBase + base]
    /\ UNCHANGED <<kl2, layout>>

\* Programs run: a block call takes one page at a time, syscall 5 any number.
RunAlloc ==
    /\ Booted
    /\ \E size \in Sizes : \E base \in Res0(PagesFor(size)) : Kmalloc(size, base)
    /\ UNCHANGED boot

MemNext ==
    \/ MmuInit \/ AddVirtioPage \/ BootAlloc
    \/ MapLibrary("sys_write") \/ MapLibrary("uart_printf")
    \/ MapUserStack \/ MapEntry \/ RunAlloc

MemSpec == MemInit /\ [][MemNext]_mvars

-----------------------------------------------------------------------------
\* What a program reaches at page a of the lower half, through its own tables.
UserTranslate(t, a) ==
    IF L1Index(a) \in utab[t].l1 /\ L2Index(a) \in utab[t].l2
          /\ L3Index(a) \in DOMAIN utab[t].l3
    THEN {utab[t].l3[L3Index(a)]} ELSE {}

\* The pages of the pool a program reads and writes: those of its own level 3
\* table, and through TTBR1, which stays in place in user mode, whatever kmalloc
\* mapped: make_l3_block_desc sets DESC_AP, make_block_desc does not.
OwnPages(t) ==
    {v \in Pages : \E k \in DOMAIN utab[t].l3 : utab[t].l3[k].page = PoolBase + v}
KernelPages == {Translate(v) : v \in Pages} \ {Invalid}

\* Once the first program can be entered, both find the ten pages from their
\* own entry, executable, and their stack, although functions, entries and stacks
\* share one level 3 table: the pages taken before keep the stacks clear of the
\* entries' pages. What a program calls, sys_write for one, it can execute if it
\* lies within the ten pages, and nowhere else.
ProgramsAreMapped ==
    Booted => \A t \in Tasks :
        /\ \A a \in EntryPage(t) .. EntryPage(t) + TextPages - 1 :
              UserTranslate(t, a) = {[page |-> a, uxn |-> FALSE]}
        /\ UserTranslate(t, ustack[t]) = {[page |-> ustack[t], uxn |-> FALSE]}

\* By the tables map_user_to_physical fills a program reaches no page of the
\* pool except its own stack: not a kernel stack, nor the rings, nor the other's
\* stack. It does reach all of these at their kernel addresses; what no program
\* reaches, by either half, is a page nobody was handed.
PoolReach ==
    \A t \in Tasks :
        /\ \A v \in OwnPages(t) : PoolBase + v = ustack[t]
        /\ OwnPages(t) \cup KernelPages \subseteq bitmap

\* Every window through which the kernel uses a device, the device tree or
\* its own tables leads there, in particular all 32 transports whichever of
\* them the device tree lists first, and no block replaced another.
WindowsReachTheirDevices ==
    /\ pc > 0 =>
        \A w \in { <<\h80000, \h80000>>, <<\h800C0, \h800C0>>, <<\h801F0, \h801F0>>,
                   <<\h82400, \h09000>>, <<\h81400, \h08000>>, <<\h81410, \h08010>>,
                   <<\h85400, \h40000>>, <<\h80A00, \h80A00>>, <<\h80A90, \h80A90>> } :
            KernelTranslate(w[1]) = {w[2]}
    /\ Booted => \A i \in 0 .. 3 : KernelTranslate(VirtioWindow + i) = {\h0A000 + i}
=============================================================================
