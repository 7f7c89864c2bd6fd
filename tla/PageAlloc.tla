----------------------------- MODULE PageAlloc -----------------------------
(***************************************************************************)
(* The page allocator of core/mmu.c: the bitmap, kmalloc, free_pages, and  *)
(* the level 2 and level 3 tables that map what kmalloc returns.  A page   *)
(* is its number in the bitmap; kmalloc maps it at the virtual address     *)
(* whose low 48 bits are its physical address, so the same number stands   *)
(* for the page of virtual memory.  Level 3 tables are one flat array of   *)
(* descriptors (__block_l2_memory_start), as in the code.  RAM past the    *)
(* kernel's image is assumed to read zero when the machine starts, as      *)
(* QEMU's does: the code clears neither the bitmap nor more than the first *)
(* ClearedSlots descriptors.                                               *)
(***************************************************************************)
EXTENDS Naturals, FiniteSets

CONSTANTS NPages,       \* bits find_free looks at: 16386 bytes of bitmap
          PageSize,     \* 4096
          TableEntries, \* descriptors in a table: 512
          Stride,       \* distance of level 3 tables, 512 bytes: 64 descriptors
          ClearedSlots, \* descriptors the first call clears: 512 * 10 bytes, 640
          MaxMap,       \* largest count map_pagetable_entry accepts: 20
          Sizes         \* the sizes kmalloc is called with

ASSUME PageAllocAssumption ==
    /\ {NPages, PageSize, TableEntries} \subseteq Nat \ {0}
    /\ {Stride, ClearedSlots, MaxMap} \subseteq Nat
    /\ Sizes \subseteq Nat

VARIABLES bitmap,    \* the pages whose bit is set
          l2,        \* the 2 MB regions with a table descriptor
          l3,        \* the level 3 descriptors, all tables in one array
          ALLOCATED, \* the flag of the first call, which links the level 2 table
          lent,      \* what callers hold: first page and count of each call
          failed     \* some call did not find its pages

vars == <<bitmap, l2, l3, ALLOCATED, lent, failed>>

Pages   == 0 .. NPages - 1
Invalid == NPages                  \* a descriptor without its valid bit
Region(v) == v \div TableEntries   \* calc_index_l2
Index(v)  == v % TableEntries      \* calc_index_l3

\* Where map_pagetable_entry writes the descriptor of page v, and where the
\* hardware reads it: make_table_desc drops the low 12 bits of the address of
\* the table, that is, rounds it down to a whole table.
WriteSlot(v) == Stride * Region(v) + Index(v)
ReadSlot(v)  == ((Stride * Region(v)) \div TableEntries) * TableEntries + Index(v)
Slots == {WriteSlot(v) : v \in Pages} \cup {ReadSlot(v) : v \in Pages}

Translate(v) == IF ALLOCATED /\ Region(v) \in l2 THEN l3[ReadSlot(v)] ELSE Invalid

Span(a) == a.base .. a.base + a.count - 1     \* the pages of an allocation

TypeOK ==
    /\ bitmap \subseteq Pages
    /\ l2 \subseteq {Region(v) : v \in Pages}
    /\ l3 \in [Slots -> Pages \cup {Invalid}]
    /\ ALLOCATED \in BOOLEAN
    /\ \A a \in lent : a.count # 0 /\ Span(a) \subseteq Pages
    /\ failed \in BOOLEAN

\* init_bitmap only stores the address of the bitmap, and finds it zero. The
\* level 2 table is cleared by mmu_init; what is in the descriptors that the
\* first call clears does not matter, the others are zero like the bitmap.
Init ==
    /\ bitmap = {}
    /\ l2 = {}
    /\ \E before \in {0, Invalid} :
          l3 = [s \in Slots |-> IF s < ClearedSlots THEN before ELSE Invalid]
    /\ ALLOCATED = FALSE
    /\ lent = {}
    /\ failed = FALSE

-----------------------------------------------------------------------------
Free == Pages \ bitmap

\* allocate_mem: pages for a size in bytes; nothing asked still gets a page.
PagesFor(size) ==
    IF size < PageSize THEN 1
    ELSE size \div PageSize + (IF size % PageSize > 0 THEN 1 ELSE 0)

FindFree_LastBitMissed(n) ==
    {p \in Free : p < NPages - 1 /\ Cardinality({q \in Free : q < p}) < n}

\* n calls of find_free: the n lowest free pages, or all if there are fewer.
FindFree(n) == {p \in Free : Cardinality({q \in Free : q < p}) < n}

\* The byte is stored without the bits it held.
SetBitmap_Overwrites(n) ==
    /\ bitmap' = {q \in bitmap : \A p \in FindFree(n) : q \div 8 # p \div 8}
                    \cup FindFree(n)
    /\ failed' = (failed \/ Cardinality(FindFree(n)) < n)

SetBitmap_FirstOnly(n) ==
    /\ bitmap' = bitmap \cup FindFree(1)
    /\ failed' = (failed \/ Cardinality(FindFree(n)) < n)

\* set_bitmap marks each page as it finds it, and keeps the marks when it
\* runs out of pages.
SetBitmap(n) ==
    /\ bitmap' = bitmap \cup FindFree(n)
    /\ failed' = (failed \/ Cardinality(FindFree(n)) < n)

TotalAllocated_Asked(n) == n

\* The number allocate_mem returns: what was asked, or 0 if any is missing.
TotalAllocated(n) == IF Cardinality(FindFree(n)) = n THEN n ELSE 0

\* What kmalloc reads from res[0]: the first page found, and whatever was on
\* the stack if none was.
Res0(n) == IF FindFree(n) = {} THEN Pages
           ELSE {p \in FindFree(n) : \A q \in FindFree(n) : p <= q}

\* Without the flag, every call clears the tables.
MapPagetableEntry_ClearsAlways(base, total) ==
    LET mapped == {v \in base .. base + total - 1 : v \in Pages}
    IN  /\ ALLOCATED' = TRUE
        /\ l2' = l2 \cup {Region(v) : v \in mapped}
        /\ l3' = [s \in Slots |-> IF s \in mapped THEN s ELSE Invalid]

\* map_pagetable_entry: from the first page on, total consecutive pages. The
\* first call clears 512 * 10 bytes of the array, 640 descriptors and not ten
\* tables, and links the level 2 table below the level 1 table.
MapPagetableEntry(base, total) ==
    LET mapped == {v \in base .. base + total - 1 : v \in Pages}
        writers(s) == {v \in mapped : WriteSlot(v) = s}
        last(s) == CHOOSE v \in writers(s) : \A w \in writers(s) : w <= v
    IN  IF total > MaxMap
        THEN UNCHANGED <<l2, l3, ALLOCATED>>
        ELSE /\ ALLOCATED' = TRUE
             /\ l2' = l2 \cup {Region(v) : v \in mapped}
             /\ l3' = [s \in Slots |->
                          IF writers(s) # {} THEN last(s)
                          ELSE IF ALLOCATED \/ s >= ClearedSlots THEN l3[s]
                          ELSE Invalid]

\* kmalloc returns base. It looks neither at a count of 0 nor at the answer of
\* map_pagetable_entry, so its caller cannot tell; lent records the calls that
\* got what they asked for.
Kmalloc(size, base) ==
    LET n == PagesFor(size)
    IN  /\ base \in Res0(n)
        /\ SetBitmap(n)
        /\ MapPagetableEntry(base, TotalAllocated(n))
        /\ lent' = IF TotalAllocated(n) = 0 THEN lent
                   ELSE lent \cup {[base |-> base, count |-> n]}

Next == \E size \in Sizes : \E base \in Res0(PagesFor(size)) : Kmalloc(size, base)

Spec == Init /\ [][Next]_vars

-----------------------------------------------------------------------------
\* free_pages, which the kernel does not call. deallocate_mem shifts a 0 to
\* the bit and stores it: the byte of eight pages is cleared.
DeallocateMem(p) ==
    IF p \in bitmap THEN bitmap \ {q \in Pages : q \div 8 = p \div 8} ELSE bitmap

FreePages(a) ==
    /\ a \in lent
    /\ lent' = lent \ {a}
    /\ bitmap' = {q \in bitmap : \A p \in Span(a) : q \in DeallocateMem(p)}
    /\ UNCHANGED <<l2, l3, ALLOCATED, failed>>

FreeingSpec == Init /\ [][Next \/ \E a \in lent : FreePages(a)]_vars

-----------------------------------------------------------------------------
\* No page has two owners: kmalloc never returns pages that an earlier call
\* returned, although it assumes without looking that the pages set_bitmap
\* found follow its first one.
DistinctOwners ==
    \A a, b \in lent : a # b => Span(a) \cap Span(b) = {}

\* Only marked pages are mapped: a page kmalloc makes reachable is one that
\* set_bitmap took, also after a call that found too few.
MappedIsMarked ==
    \A v \in Pages : Translate(v) # Invalid => Translate(v) \in bitmap

\* A call fails only when memory is full, and a failed call leaves it full:
\* set_bitmap keeps what it marked, so that every later call fails too.
FailsOnlyWhenFull == failed => bitmap = Pages

InFirstTable == bitmap \subseteq 0 .. TableEntries - 1

\* While the pages handed out fit into one level 3 table, the virtual address
\* kmalloc returned leads to its own physical page. The block driver relies on
\* it when it gives the device kernal_to_user_space(va) as physical address.
AddressIsPhysical ==
    InFirstTable =>
        \A a \in lent : a.count <= MaxMap => \A v \in Span(a) : Translate(v) = v

\* The same without the limit: "for every l2 index, we need to create a new
\* table l3 table".
EveryRegionHasItsTable ==
    \A a \in lent : a.count <= MaxMap => \A v \in Span(a) : Translate(v) = v

\* A translation in use never changes, as set_table_entry invalidates no TLB
\* entry; again while one table is enough.
TranslationsStable ==
    [][InFirstTable' => \A v \in Pages :
          Translate(v) # Invalid => Translate(v)' = Translate(v)]_vars

\* What a caller holds stays marked, whatever others free.
HeldIsMarked == \A a \in lent : Span(a) \subseteq bitmap
=============================================================================
