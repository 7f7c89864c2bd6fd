--------------------------- MODULE Memory_proofs ---------------------------
(***************************************************************************)
(* The allocator's theorems, for every number of pages, every layout of    *)
(* the tables and every size asked for; then the same for the calls the    *)
(* kernel really makes: those of boot, in order, and those of running      *)
(* programs, in any order.                                                 *)
(***************************************************************************)
EXTENDS Memory, FiniteSetTheorems, WellFoundedInduction, TLAPS

USE PageAllocAssumption

-----------------------------------------------------------------------------
(* PageAlloc: the invariant of the allocator.                              *)

\* kmalloc only ever takes the lowest free pages and gives none back: the marked
\* pages are the first ones.
Prefix == \E k \in 0 .. NPages : bitmap = 0 .. k - 1

\* An allocation got whole pages, and they stay marked.
LentMarked ==
    /\ lent \subseteq [base : Pages, count : Nat \ {0}]
    /\ \A a \in lent : Span(a) \subseteq bitmap

\* A descriptor that counts: the first call clears the others.
Counts(s) == ALLOCATED \/ s >= ClearedSlots

\* Descriptors lead to marked pages, and only regions of marked pages have any.
TablesMarked ==
    /\ l3 \in [Slots -> Pages \cup {Invalid}]
    /\ \A s \in Slots : Counts(s) => l3[s] \in bitmap \cup {Invalid}
    /\ l2 \subseteq {Region(v) : v \in bitmap}

\* In the first table a descriptor leads to the page of its own number, and the
\* pages of every allocation that was mapped have one.
FirstTable ==
    InFirstTable =>
        /\ \A s \in Slots : Counts(s) /\ l3[s] # Invalid => l3[s] = s
        /\ \A a \in lent : a.count <= MaxMap =>
              /\ ALLOCATED
              /\ \A v \in Span(a) : Region(v) \in l2 /\ l3[v] = v

IInv ==
    /\ ALLOCATED \in BOOLEAN /\ failed \in BOOLEAN
    /\ Prefix /\ LentMarked /\ TablesMarked /\ FirstTable
    /\ DistinctOwners /\ FailsOnlyWhenFull

-----------------------------------------------------------------------------
(* Arithmetic.                                                             *)

\* The quotient of a natural number is one.
LEMMA QuotientNat ==
  ASSUME NEW m \in Nat, NEW n \in Nat \ {0}
  PROVE  m \div n \in Nat /\ m % n \in 0 .. n - 1
  OBVIOUS

\* A page of the first table is in region 0, at its own index.
LEMMA FirstRegion ==
  ASSUME NEW v \in 0 .. TableEntries - 1
  PROVE  Region(v) = 0 /\ Index(v) = v
  BY DEF Region, Index

\* Nothing else is in region 0.
LEMMA RegionZero ==
  ASSUME NEW v \in Nat, Region(v) = 0
  PROVE  v \in 0 .. TableEntries - 1
  BY DEF Region

\* The first table is written and read at the same place.
LEMMA FirstSlots ==
  ASSUME NEW v \in 0 .. TableEntries - 1
  PROVE  WriteSlot(v) = v /\ ReadSlot(v) = v
  <1>1. Region(v) = 0 /\ Index(v) = v
    BY FirstRegion
  <1>2. Stride * 0 = 0 /\ 0 \div TableEntries = 0 /\ 0 * TableEntries = 0
    OBVIOUS
  <1>3. QED
    BY <1>1, <1>2 DEF WriteSlot, ReadSlot

\* A slot is a number.
LEMMA SlotsTyped ==
  ASSUME NEW v \in Pages
  PROVE  WriteSlot(v) \in Int /\ ReadSlot(v) \in Int
  <1>1. Region(v) \in Nat /\ Index(v) \in Nat
    <2>1. v \in Nat /\ TableEntries \in Nat \ {0}
      BY DEF Pages
    <2>2. v \div TableEntries \in Nat /\ v % TableEntries \in 0 .. TableEntries - 1
      BY <2>1, QuotientNat
    <2>3. QED
      BY <2>1, <2>2 DEF Region, Index
  <1>2. PICK m : m = Region(v)
    OBVIOUS
  <1>3. m \in Nat /\ Stride * m \in Nat
    BY <1>1, <1>2
  <1>4. PICK p \in Nat : p = Stride * m
    BY <1>3
  <1>5. p \div TableEntries \in Nat
    BY QuotientNat
  <1>6. PICK q \in Nat : q = p \div TableEntries
    BY <1>5
  <1>7. q * TableEntries \in Nat
    OBVIOUS
  <1>8. WriteSlot(v) = p + Index(v) /\ ReadSlot(v) = q * TableEntries + Index(v)
    BY <1>2, <1>4, <1>6 DEF WriteSlot, ReadSlot
  <1>9. QED
    BY <1>1, <1>7, <1>8

\* allocate_mem asks for at least one page.
LEMMA PagesForPositive ==
  ASSUME NEW size \in Nat
  PROVE  PagesFor(size) \in Nat \ {0}
  <1>1. CASE size < PageSize
    BY <1>1 DEF PagesFor
  <1>2. CASE size >= PageSize
    <2>1. size \div PageSize \in Nat /\ size \div PageSize # 0
      BY <1>2
    <2>2. QED
      BY <1>2, <2>1 DEF PagesFor
  <1>3. QED
    BY <1>1, <1>2

\* Among pages of an interval there is a last one.
LEMMA LastOfInterval ==
  ASSUME NEW a \in Nat, NEW b \in Nat, NEW S, S \subseteq a .. b, S # {}
  PROVE  \E v \in S : \A w \in S : w <= v
  <1> DEFINE T == {b - v : v \in S}
  <1>1. T \subseteq Nat /\ T # {}
    OBVIOUS
  <1>2. PICK x \in T : \A y \in T : ~(<<y, x>> \in OpToRel(<, Nat))
    <2> HIDE DEF T
    <2>1. QED
      BY <1>1, NatLessThanWellFounded, WFMin
  <1>3. \A y \in T : ~(y < x)
    BY <1>1, <1>2 DEF OpToRel
  <1>4. PICK v \in S : x = b - v
    BY <1>2
  <1>5. ASSUME NEW w \in S
        PROVE  w <= v
    <2>1. ~(b - w < b - v)
      BY <1>3, <1>4
    <2>2. v \in Nat /\ w \in Nat
      OBVIOUS
    <2>3. QED
      BY <2>1, <2>2
  <1>6. QED
    BY <1>5

-----------------------------------------------------------------------------
(* find_free and set_bitmap.                                               *)

Smaller(a, b) == IF a < b THEN a ELSE b

\* On a prefix, find_free called n times finds the next n pages, or those there
\* are.
LEMMA FindFreeIsNext ==
  ASSUME NEW k \in 0 .. NPages, bitmap = 0 .. k - 1, NEW n \in Nat
  PROVE  /\ FindFree(n) = k .. Smaller(k + n, NPages) - 1
         /\ Cardinality(FindFree(n)) = Smaller(n, NPages - k)
  <1>1. Free = k .. NPages - 1
    BY DEF Free, Pages
  <1>2. ASSUME NEW p \in Free
        PROVE  Cardinality({q \in Free : q < p}) = p - k
    <2>1. {q \in Free : q < p} = k .. p - 1
      BY <1>1, <1>2
    <2>2. k \in Int /\ p - 1 \in Int /\ k <= p
      BY <1>1, <1>2
    <2>3. Cardinality(k .. p - 1) = IF k > p - 1 THEN 0 ELSE (p - 1) - k + 1
      BY <2>2, FS_Interval
    <2>4. Cardinality(k .. p - 1) = p - k
      BY <2>2, <2>3, <1>1, <1>2
    <2>5. QED
      BY <2>1, <2>4
  <1>3. FindFree(n) = {p \in Free : p - k < n}
    BY <1>2 DEF FindFree
  <1>4. FindFree(n) = k .. Smaller(k + n, NPages) - 1
    BY <1>1, <1>3 DEF Smaller
  <1>5. Cardinality(k .. Smaller(k + n, NPages) - 1) = Smaller(n, NPages - k)
    <2>1. ASSUME NEW b \in Int
          PROVE  Cardinality(k .. b) = IF k > b THEN 0 ELSE b - k + 1
      BY FS_Interval
    <2>2. Smaller(k + n, NPages) - 1 \in Int
      BY DEF Smaller
    <2>3. QED
      BY <2>1, <2>2 DEF Smaller
  <1>6. QED
    BY <1>4, <1>5

\* What one kmalloc does to the bitmap and what it reports. It either gets the
\* next n pages, or fails and leaves every page marked.
LEMMA KmallocPages ==
  ASSUME IInv, NEW n \in Nat \ {0}, SetBitmap(n), NEW base \in Res0(n)
  PROVE  \E k \in 0 .. NPages :
            /\ bitmap = 0 .. k - 1
            /\ base \in Pages
            /\ \/ /\ TotalAllocated(n) = n /\ k + n <= NPages /\ base = k
                  /\ bitmap' = 0 .. k + n - 1
                  /\ failed' = failed
               \/ /\ TotalAllocated(n) = 0 /\ k + n > NPages
                  /\ bitmap' = Pages
                  /\ failed' = TRUE
  <1>1. PICK k \in 0 .. NPages : bitmap = 0 .. k - 1
    BY DEF IInv, Prefix
  <1>2. /\ FindFree(n) = k .. Smaller(k + n, NPages) - 1
        /\ Cardinality(FindFree(n)) = Smaller(n, NPages - k)
    BY <1>1, FindFreeIsNext
  <1>3. bitmap' = bitmap \cup FindFree(n)
        /\ failed' = (failed \/ Cardinality(FindFree(n)) < n)
    BY DEF SetBitmap
  <1>4. base \in Pages
    BY <1>2 DEF Res0, Pages, Smaller
  <1>5. CASE k + n <= NPages
    <2>1. FindFree(n) = k .. k + n - 1 /\ Cardinality(FindFree(n)) = n
      BY <1>2, <1>5 DEF Smaller
    <2>2. base = k
      <3>1. k \in FindFree(n)
        BY <2>1
      <3>2. base \in FindFree(n) /\ base <= k
        BY <3>1 DEF Res0
      <3>3. QED
        BY <2>1, <3>2
    <2>3. bitmap' = 0 .. k + n - 1
      BY <1>1, <1>3, <2>1
    <2>4. failed' = failed
      BY <1>3, <2>1 DEF IInv
    <2>5. QED
      BY <1>1, <1>4, <1>5, <2>1, <2>2, <2>3, <2>4 DEF TotalAllocated
  <1>6. CASE k + n > NPages
    <2>1. FindFree(n) = k .. NPages - 1 /\ Cardinality(FindFree(n)) < n
      BY <1>2, <1>6 DEF Smaller
    <2>2. TotalAllocated(n) = 0
      BY <2>1 DEF TotalAllocated
    <2>3. bitmap' = Pages
      BY <1>1, <1>3, <2>1 DEF Pages
    <2>4. failed' = TRUE
      BY <1>3, <2>1
    <2>5. QED
      BY <1>1, <1>4, <1>6, <2>2, <2>3, <2>4
  <1>7. k + n <= NPages \/ k + n > NPages
    OBVIOUS
  <1>8. QED
    BY <1>1, <1>5, <1>6, <1>7, Zenon

-----------------------------------------------------------------------------
(* map_pagetable_entry.                                                    *)

Mapped(base, total) == {v \in base .. base + total - 1 : v \in Pages}

\* A level 3 descriptor is the one of a page just mapped, or the one it was, or
\* is cleared by the first call if that reaches it; the pages just mapped all have one.
LEMMA MappedEntries ==
  ASSUME NEW base \in Pages, NEW total \in Nat, total <= MaxMap,
         MapPagetableEntry(base, total), NEW s \in Slots
  PROVE  \/ l3'[s] \in Mapped(base, total) /\ WriteSlot(l3'[s]) = s
         \/ /\ \A v \in Mapped(base, total) : WriteSlot(v) # s
            /\ l3'[s] = IF Counts(s) THEN l3[s] ELSE Invalid
  <1> DEFINE W == {v \in Mapped(base, total) : WriteSlot(v) = s}
             top == CHOOSE v \in W : \A w \in W : w <= v
  <1>1. l3'[s] = IF W # {} THEN top ELSE IF Counts(s) THEN l3[s] ELSE Invalid
    <2>1. ~(total > MaxMap)
      OBVIOUS
    <2>2. l3' = [r \in Slots |->
                   IF {v \in Mapped(base, total) : WriteSlot(v) = r} # {}
                   THEN CHOOSE u \in {v \in Mapped(base, total) : WriteSlot(v) = r} :
                           \A w \in {v \in Mapped(base, total) : WriteSlot(v) = r} : w <= u
                   ELSE IF Counts(r) THEN l3[r] ELSE Invalid]
      BY <2>1, Zenon DEF MapPagetableEntry, Mapped, Counts
    <2>3. QED
      BY <2>2, Zenon
  <1>2. CASE W = {}
    BY <1>1, <1>2
  <1>3. CASE W # {}
    <2>1. base \in Nat /\ base + total - 1 \in Int /\ W \subseteq base .. base + total - 1
      BY DEF Pages, Mapped
    <2>2. base + total - 1 \in Nat
      BY <2>1, <1>3
    <2>3. \E v \in W : \A w \in W : w <= v
      BY <1>3, <2>1, <2>2, LastOfInterval
    <2>4. top \in W
      BY <2>3
    <2>5. QED
      BY <1>1, <1>3, <2>4
  <1>4. QED
    BY <1>2, <1>3

\* The level 2 descriptors are kept, and the regions of the mapped pages get one.
LEMMA MappedRegions ==
  ASSUME NEW base \in Pages, NEW total \in Nat, total <= MaxMap,
         MapPagetableEntry(base, total)
  PROVE  /\ ALLOCATED' = TRUE
         /\ l2' = l2 \cup {Region(v) : v \in Mapped(base, total)}
         /\ DOMAIN l3' = Slots
         /\ l3' = [s \in Slots |-> l3'[s]]
  BY DEF MapPagetableEntry, Mapped

\* A count above MaxMap changes nothing.
LEMMA RefusedEntries ==
  ASSUME NEW base, NEW total, total > MaxMap, MapPagetableEntry(base, total)
  PROVE  UNCHANGED <<l2, l3, ALLOCATED>>
  BY DEF MapPagetableEntry

\* A step marks pages and adds to the tables, and keeps the descriptors of marked
\* pages in the first one.
TablesGrow ==
    /\ bitmap \subseteq bitmap'
    /\ ALLOCATED => ALLOCATED'
    /\ l2 \subseteq l2'
    /\ InFirstTable' /\ ALLOCATED => \A v \in bitmap : l3[v] = v => l3'[v] = v

\* What any call of map_pagetable_entry on marked pages does to the tables.
LEMMA TablesKept ==
  ASSUME IInv, NEW base \in Pages, NEW total \in Nat, MapPagetableEntry(base, total),
         bitmap \subseteq bitmap', bitmap' \subseteq Pages,
         Mapped(base, total) \subseteq bitmap'
  PROVE  /\ TablesMarked' /\ ALLOCATED' \in BOOLEAN /\ TablesGrow
         /\ InFirstTable' => \A s \in Slots : Counts(s)' /\ l3'[s] # Invalid => l3'[s] = s
  <1>1. CASE total > MaxMap
    <2>1. UNCHANGED <<l2, l3, ALLOCATED>>
      BY <1>1, RefusedEntries
    <2>2. InFirstTable' => InFirstTable
      BY DEF InFirstTable
    <2>3. QED
      BY <2>1, <2>2 DEF IInv, TablesMarked, FirstTable, TablesGrow, Counts
  <1>2. CASE total <= MaxMap
    <2>1. /\ ALLOCATED' = TRUE
          /\ l2' = l2 \cup {Region(v) : v \in Mapped(base, total)}
          /\ l3' = [s \in Slots |-> l3'[s]]
      BY <1>2, MappedRegions
    <2>2. ASSUME NEW s \in Slots
          PROVE  \/ l3'[s] \in Mapped(base, total) /\ WriteSlot(l3'[s]) = s
                 \/ /\ \A v \in Mapped(base, total) : WriteSlot(v) # s
                    /\ l3'[s] = IF Counts(s) THEN l3[s] ELSE Invalid
      BY <1>2, MappedEntries
    <2>3. TablesMarked'
      <3>1. ASSUME NEW s \in Slots
            PROVE  l3'[s] \in bitmap' \cup {Invalid}
        BY <2>2, <3>1 DEF IInv, TablesMarked
      <3>2. l3' \in [Slots -> Pages \cup {Invalid}]
        BY <2>1, <2>2 DEF IInv, TablesMarked, Mapped
      <3>3. l2' \subseteq {Region(v) : v \in bitmap'}
        BY <2>1 DEF IInv, TablesMarked
      <3>4. QED
        BY <3>1, <3>2, <3>3 DEF TablesMarked
    <2>4. ASSUME InFirstTable', NEW s \in Slots, l3'[s] # Invalid
          PROVE  l3'[s] = s
      <3>1. CASE l3'[s] \in Mapped(base, total) /\ WriteSlot(l3'[s]) = s
        BY <2>4, <3>1, FirstSlots DEF InFirstTable
      <3>2. CASE l3'[s] = IF Counts(s) THEN l3[s] ELSE Invalid
        BY <2>4, <3>2 DEF IInv, FirstTable, InFirstTable, Counts
      <3>3. QED
        BY <2>2, <3>1, <3>2
    <2>5. ASSUME InFirstTable', ALLOCATED, NEW v \in bitmap, l3[v] = v
          PROVE  l3'[v] = v
      <3>1. v \in 0 .. TableEntries - 1 /\ v \in Pages
        BY <2>5 DEF InFirstTable
      <3>2. v \in Slots
        BY <3>1, FirstSlots DEF Slots
      <3>3. QED
        BY <2>2, <2>5, <3>1, <3>2, FirstSlots DEF InFirstTable, Counts
    <2>6. QED
      BY <2>1, <2>3, <2>4, <2>5 DEF TablesGrow
  <1>3. QED
    BY <1>1, <1>2


-----------------------------------------------------------------------------
(* The invariant.                                                          *)

\* At first nothing is marked, mapped or lent.
LEMMA InitInvariant == Init => IInv
  <1>1. SUFFICES ASSUME Init PROVE IInv
    OBVIOUS
  <1>2. Prefix
    <2>1. bitmap = 0 .. 0 - 1
      BY <1>1 DEF Init
    <2>2. 0 \in 0 .. NPages
      OBVIOUS
    <2>3. QED
      BY <2>1, <2>2 DEF Prefix
  <1>3. /\ l3 \in [Slots -> Pages \cup {Invalid}]
        /\ \A s \in Slots : Counts(s) => l3[s] = Invalid
    <2>1. PICK before \in {0, Invalid} :
             l3 = [s \in Slots |-> IF s < ClearedSlots THEN before ELSE Invalid]
      BY <1>1 DEF Init
    <2>2. before \in Pages \cup {Invalid} /\ ALLOCATED = FALSE
      BY <1>1 DEF Init, Pages
    <2>3. Slots \subseteq Int
      <3>1. \A v \in Pages : WriteSlot(v) \in Int /\ ReadSlot(v) \in Int
        BY SlotsTyped
      <3>2. QED
        BY <3>1 DEF Slots
    <2>4. QED
      BY <2>1, <2>2, <2>3 DEF Counts
  <1>4. QED
    BY <1>1, <1>2, <1>3 DEF Init, IInv, LentMarked, TablesMarked, FirstTable,
       DistinctOwners, FailsOnlyWhenFull

\* A call that gets its n pages: they are the next ones, and nobody holds them.
LEMMA GrantedStep ==
  ASSUME IInv, NEW k \in 0 .. NPages, bitmap = 0 .. k - 1,
         NEW n \in Nat \ {0}, k + n <= NPages,
         bitmap' = 0 .. k + n - 1, failed' = failed,
         MapPagetableEntry(k, n),
         lent' = lent \cup {[base |-> k, count |-> n]}
  PROVE  IInv' /\ TablesGrow
  <1> DEFINE new == [base |-> k, count |-> n]
  <1>1. Span(new) = k .. k + n - 1 /\ Mapped(k, n) = k .. k + n - 1
    BY DEF Span, Mapped, Pages
  <1>2. k \in Pages /\ bitmap \subseteq bitmap' /\ bitmap' \subseteq Pages
    BY DEF Pages
  <1>3. Span(new) \subseteq bitmap' /\ Span(new) \cap bitmap = {}
    BY <1>1
  <1>4. /\ TablesMarked' /\ ALLOCATED' \in BOOLEAN /\ TablesGrow
        /\ InFirstTable' => \A s \in Slots : Counts(s)' /\ l3'[s] # Invalid => l3'[s] = s
    BY <1>1, <1>2, TablesKept
  <1>5. Prefix'
    BY DEF Prefix
  <1>6. LentMarked'
    <2>1. new \in [base : Pages, count : Nat \ {0}]
      BY <1>2
    <2>2. QED
      BY <1>2, <1>3, <2>1 DEF IInv, LentMarked
  <1>7. DistinctOwners'
    BY <1>3 DEF IInv, LentMarked, DistinctOwners
  <1>8. FailsOnlyWhenFull'
    BY <1>2 DEF IInv, FailsOnlyWhenFull
  <1>9. FirstTable'
    <2>1. ASSUME InFirstTable', NEW a \in lent', a.count <= MaxMap
          PROVE  ALLOCATED' /\ \A v \in Span(a) : Region(v) \in l2' /\ l3'[v] = v
      <3>1. CASE a \in lent
        <4>1. InFirstTable
          BY <1>2, <2>1 DEF InFirstTable
        <4>2. Span(a) \subseteq bitmap
          BY <3>1 DEF IInv, LentMarked
        <4>3. ALLOCATED /\ \A v \in Span(a) : Region(v) \in l2 /\ l3[v] = v
          BY <2>1, <3>1, <4>1 DEF IInv, FirstTable
        <4>4. QED
          BY <1>4, <2>1, <4>2, <4>3 DEF TablesGrow
      <3>2. CASE a = new
        <4>1. n <= MaxMap
          BY <2>1, <3>2
        <4>2. ALLOCATED' /\ \A v \in Mapped(k, n) : Region(v) \in l2'
          <5>1. /\ ALLOCATED' = TRUE
                /\ l2' = l2 \cup {Region(v) : v \in Mapped(k, n)}
            BY <1>2, <4>1, MappedRegions
          <5>2. QED
            BY <5>1
        <4>3. ASSUME NEW v \in Mapped(k, n)
              PROVE  l3'[v] = v
          <5>1. v \in 0 .. TableEntries - 1 /\ v \in Pages
            BY <1>1, <1>2, <2>1 DEF InFirstTable
          <5>2. v \in Slots /\ WriteSlot(v) = v
            BY <5>1, FirstSlots DEF Slots
          <5>3. l3'[v] \in Mapped(k, n) /\ WriteSlot(l3'[v]) = v
            BY <1>2, <4>1, <5>2, MappedEntries
          <5>4. QED
            BY <1>1, <2>1, <5>3, FirstSlots DEF InFirstTable
        <4>4. QED
          BY <1>1, <3>2, <4>2, <4>3
      <3>3. QED
        BY <2>1, <3>1, <3>2
    <2>2. QED
      BY <1>4, <2>1 DEF FirstTable
  <1>10. QED
    BY <1>4, <1>5, <1>6, <1>7, <1>8, <1>9 DEF IInv

\* A call that does not: every page is marked from now on, and nobody gets more.
LEMMA RefusedStep ==
  ASSUME IInv, bitmap' = Pages, failed' = TRUE, NEW base \in Pages,
         MapPagetableEntry(base, 0), lent' = lent
  PROVE  IInv' /\ TablesGrow
  <1>1. bitmap \subseteq bitmap' /\ bitmap' \subseteq Pages
    BY DEF IInv, Prefix, Pages
  <1>2. Mapped(base, 0) = {}
    BY DEF Mapped, Pages
  <1>3. /\ TablesMarked' /\ ALLOCATED' \in BOOLEAN /\ TablesGrow
        /\ InFirstTable' => \A s \in Slots : Counts(s)' /\ l3'[s] # Invalid => l3'[s] = s
    BY <1>1, <1>2, TablesKept
  <1>4. Prefix'
    <2>1. NPages \in 0 .. NPages
      OBVIOUS
    <2>2. QED
      BY <2>1 DEF Prefix, Pages
  <1>5. LentMarked'
    BY <1>1 DEF IInv, LentMarked
  <1>6. DistinctOwners' /\ FailsOnlyWhenFull'
    BY DEF IInv, DistinctOwners, FailsOnlyWhenFull
  <1>7. FirstTable'
    <2>1. InFirstTable' => InFirstTable
      BY <1>1 DEF InFirstTable
    <2>2. \A a \in lent : Span(a) \subseteq bitmap
      BY DEF IInv, LentMarked
    <2>3. QED
      BY <1>3, <2>1, <2>2 DEF IInv, FirstTable, TablesGrow
  <1>8. QED
    BY <1>3, <1>4, <1>5, <1>6, <1>7 DEF IInv

\* Both cases of kmalloc.
LEMMA KmallocStep ==
  ASSUME IInv, NEW size \in Nat, NEW base \in Res0(PagesFor(size)), Kmalloc(size, base)
  PROVE  IInv' /\ TablesGrow
  <1> DEFINE n == PagesFor(size)
  <1>1. n \in Nat \ {0}
    BY PagesForPositive
  <1>2. /\ SetBitmap(n)
        /\ MapPagetableEntry(base, TotalAllocated(n))
        /\ lent' = IF TotalAllocated(n) = 0 THEN lent
                   ELSE lent \cup {[base |-> base, count |-> n]}
    BY DEF Kmalloc
  <1> HIDE DEF n
  <1>3. base \in Res0(n)
    BY DEF n
  <1>4. PICK k \in 0 .. NPages :
            /\ bitmap = 0 .. k - 1
            /\ base \in Pages
            /\ \/ /\ TotalAllocated(n) = n /\ k + n <= NPages /\ base = k
                  /\ bitmap' = 0 .. k + n - 1
                  /\ failed' = failed
               \/ /\ TotalAllocated(n) = 0 /\ k + n > NPages
                  /\ bitmap' = Pages
                  /\ failed' = TRUE
    BY <1>1, <1>2, <1>3, KmallocPages
  <1>5. CASE /\ TotalAllocated(n) = n /\ k + n <= NPages /\ base = k
             /\ bitmap' = 0 .. k + n - 1
             /\ failed' = failed
    BY <1>1, <1>2, <1>4, <1>5, GrantedStep
  <1>6. CASE /\ TotalAllocated(n) = 0 /\ bitmap' = Pages /\ failed' = TRUE
    BY <1>2, <1>4, <1>6, RefusedStep
  <1>7. QED
    BY <1>4, <1>5, <1>6

\* The invariant speaks of the allocator's variables only.
LEMMA VarsStep ==
  ASSUME IInv, UNCHANGED vars
  PROVE  IInv'
  BY DEF vars, IInv, Prefix, LentMarked, TablesMarked, FirstTable, InFirstTable,
     DistinctOwners, FailsOnlyWhenFull, Counts

\* Every call keeps the invariant.
LEMMA StepInvariant == IInv /\ [Next]_vars => IInv'
  <1>1. ASSUME IInv, Next
        PROVE  IInv'
    BY <1>1, KmallocStep DEF Next
  <1>2. ASSUME IInv, UNCHANGED vars
        PROVE  IInv'
    BY <1>2, VarsStep
  <1>3. QED
    BY <1>1, <1>2

\* The marked pages are the first ones, allocations lie among them without
\* overlap, and the tables lead to them (mmu.c, kmalloc).
THEOREM Invariant == Spec => []IInv
  BY InitInvariant, StepInvariant, PTL DEF Spec


-----------------------------------------------------------------------------
(* What follows from the invariant.                                        *)

\* The state has its types: only pages are marked, tables hold only pages.
LEMMA TypesFollow == IInv => TypeOK
  <1>1. SUFFICES ASSUME IInv PROVE TypeOK
    OBVIOUS
  <1>2. bitmap \subseteq Pages
    BY <1>1 DEF IInv, Prefix, Pages
  <1>3. l2 \subseteq {Region(v) : v \in Pages} /\ l3 \in [Slots -> Pages \cup {Invalid}]
    BY <1>1, <1>2 DEF IInv, TablesMarked
  <1>4. \A a \in lent : a.count # 0 /\ Span(a) \subseteq Pages
    BY <1>1, <1>2 DEF IInv, LentMarked
  <1>5. QED
    BY <1>1, <1>2, <1>3, <1>4 DEF IInv, TypeOK

\* What the tables lead to is marked.
LEMMA MarksFollow == IInv => MappedIsMarked
  <1>1. SUFFICES ASSUME IInv, NEW v \in Pages, Translate(v) # Invalid
                 PROVE  Translate(v) \in bitmap
    BY DEF MappedIsMarked
  <1>2. Translate(v) = l3[ReadSlot(v)] /\ ReadSlot(v) \in Slots
    BY <1>1 DEF Translate, Slots
  <1>3. QED
    BY <1>1, <1>2 DEF IInv, TablesMarked, Translate, Counts

\* In the first table an address leads to its own page.
LEMMA AddressesFollow == IInv => AddressIsPhysical
  <1>1. SUFFICES ASSUME IInv, InFirstTable, NEW a \in lent, a.count <= MaxMap,
                        NEW v \in Span(a)
                 PROVE  Translate(v) = v
    BY DEF AddressIsPhysical
  <1>2. v \in 0 .. TableEntries - 1
    BY <1>1 DEF IInv, LentMarked, InFirstTable
  <1>3. ALLOCATED /\ Region(v) \in l2 /\ l3[v] = v
    BY <1>1 DEF IInv, FirstTable
  <1>4. QED
    BY <1>2, <1>3, FirstSlots DEF Translate

\* A translation in use is one of the first table, and leads to its own page,
\* before the call and after.
LEMMA TranslationsKept ==
  ASSUME IInv, NEW size \in Nat, NEW base \in Res0(PagesFor(size)), Kmalloc(size, base),
         InFirstTable', NEW v \in Pages, Translate(v) # Invalid
  PROVE  Translate(v)' = Translate(v)
  <1>1. ALLOCATED /\ Region(v) \in l2 /\ l3[ReadSlot(v)] # Invalid
    BY DEF Translate
  <1>2. TablesGrow
    BY KmallocStep
  <1>3. InFirstTable
    BY <1>2 DEF TablesGrow, InFirstTable
  <1>4. v \in 0 .. TableEntries - 1
    <2>1. PICK p \in bitmap : Region(v) = Region(p)
      BY <1>1 DEF IInv, TablesMarked
    <2>2. Region(p) = 0
      BY <1>3, FirstRegion DEF InFirstTable
    <2>3. QED
      BY <2>1, <2>2, RegionZero DEF Pages
  <1>5. l3[v] = v /\ v \in bitmap
    <2>1. ReadSlot(v) = v /\ v \in Slots
      BY <1>4, FirstSlots DEF Slots
    <2>2. QED
      BY <1>1, <1>3, <2>1 DEF IInv, FirstTable, TablesMarked, Counts
  <1>6. Translate(v) = v
    BY <1>1, <1>4, <1>5, FirstSlots DEF Translate
  <1>7. Translate(v)' = v
    <2>1. ALLOCATED' /\ Region(v) \in l2' /\ l3'[v] = v
      BY <1>1, <1>2, <1>5 DEF TablesGrow
    <2>2. QED
      BY <1>4, <2>1, FirstSlots DEF Translate
  <1>8. QED
    BY <1>6, <1>7

-----------------------------------------------------------------------------
(* The theorems, for calls of any sizes in any order.                      *)

\* The state keeps its types: only pages are marked, tables hold only pages. The
\* descriptors that the first call does not clear are zero by Init's assumption on
\* RAM; those it clears may have held anything.
THEOREM TypeCorrect == Spec => []TypeOK
  BY Invariant, TypesFollow, PTL

\* No page has two owners, however many calls are made and fail (kmalloc,
\* mmu.c).
THEOREM OneOwner == Spec => []DistinctOwners
  <1>1. IInv => DistinctOwners
    BY DEF IInv
  <1>2. QED
    BY Invariant, <1>1, PTL

\* kmalloc fails only when the bitmap is full, and stays without pages then
\* (set_bitmap, mmu.c).
THEOREM FailureFillsMemory == Spec => []FailsOnlyWhenFull
  <1>1. IInv => FailsOnlyWhenFull
    BY DEF IInv
  <1>2. QED
    BY Invariant, <1>1, PTL

\* Every page reachable through the tables is marked, also when the tables of
\* neighbouring regions overlap (map_pagetable_entry, mmu.c), however few of the
\* descriptors the first call clears: those are cleared before they are linked, and
\* the others are zero from the start, as Init assumes of RAM.
THEOREM MappedPagesMarked == Spec => []MappedIsMarked
  BY Invariant, MarksFollow, PTL

\* Within one level 3 table the address kmalloc returned leads to the page it
\* stands for, whatever was allocated before and after.
THEOREM AddressesLead == Spec => []AddressIsPhysical
  BY Invariant, AddressesFollow, PTL

\* Within one level 3 table no call changes a translation that is in use, so
\* that the missing TLB invalidation of set_table_entry shows nowhere.
THEOREM StableTranslations == Spec => TranslationsStable
  <1>1. IInv /\ [Next]_vars =>
          [InFirstTable' => \A v \in Pages :
              Translate(v) # Invalid => Translate(v)' = Translate(v)]_vars
    BY TranslationsKept DEF Next
  <1>2. QED
    BY Invariant, <1>1, PTL DEF Spec, TranslationsStable

-----------------------------------------------------------------------------
(* Memory: the calls of boot and of the running programs.                  *)

\* The calls BootCalls lists.
CallNames == {"kmalloc", "add_virtio_page", "sys_write", "uart_printf", "ustack", "entry"}
BootCall == [call : CallNames, size : Nat, id : Nat]

\* Every call of boot asks for a number of bytes.
LEMMA BootCallsTyped == BootCalls \in Seq(BootCall)
  <1>1. \A size \in Nat : Alloc(size) \in BootCall
    BY DEF Alloc, BootCall, CallNames
  <1>2. \A name \in CallNames, id \in Nat : Call(name, id) \in BootCall
    BY DEF Call, BootCall
  <1>3. BackendCalls \in Seq(BootCall)
    BY <1>1, <1>2 DEF BackendCalls, CallNames
  <1>4. BlockCalls \in Seq(BootCall)
    BY <1>1 DEF BlockCalls
  <1>5. \A id \in Nat : InitTaskCalls(id) \in Seq(BootCall)
    BY <1>1, <1>2 DEF InitTaskCalls, CallNames
  <1>6. << Alloc(16000), Alloc(48) >> \in Seq(BootCall) /\ << Alloc(1) >> \in Seq(BootCall)
    BY <1>1
  <1>7. ASSUME NEW s \in Seq(BootCall), NEW t \in Seq(BootCall)
        PROVE  s \o t \in Seq(BootCall)
    OBVIOUS
  <1>8. << Alloc(16000), Alloc(48) >> \o BackendCalls \o << Alloc(1) >> \in Seq(BootCall)
    BY <1>3, <1>6, <1>7
  <1>9. << Alloc(16000), Alloc(48) >> \o BackendCalls \o << Alloc(1) >>
           \o BlockCalls \o BlockCalls \in Seq(BootCall)
    BY <1>4, <1>7, <1>8
  <1>10. QED
    <2>1. InitTaskCalls(1) \in Seq(BootCall) /\ InitTaskCalls(2) \in Seq(BootCall)
      BY <1>5
    <2>2. QED
      BY <1>7, <1>9, <2>1 DEF BootCalls

\* The allocator's invariant; pc counts calls.
MemInv == IInv /\ pc \in Nat

\* Before mmu_init no call was made.
LEMMA MemInitInvariant == MemInit => MemInv
  BY InitInvariant DEF MemInit, MemInv

\* A step of Memory is one of the allocator's or leaves it alone.
LEMMA MemStep ==
  ASSUME MemInv, MemNext
  PROVE  /\ pc' \in Nat
         /\ \/ \E size \in Nat : \E base \in Res0(PagesFor(size)) : Kmalloc(size, base)
            \/ UNCHANGED vars
  <1>1. pc \in Nat
    BY DEF MemInv
  <1>2. CASE MmuInit
    BY <1>2 DEF MmuInit
  <1>3. CASE AddVirtioPage
    BY <1>1, <1>3 DEF AddVirtioPage, Now
  <1>4. CASE BootAlloc
    <2>1. pc \in 1 .. Len(BootCalls) /\ pc' = pc + 1
      BY <1>1, <1>4, BootCallsTyped DEF BootAlloc, Now, Booted
    <2>2. BootCalls[pc].size \in Nat
      <3>1. BootCalls[pc] \in BootCall
        BY <2>1, BootCallsTyped
      <3>2. QED
        BY <3>1 DEF BootCall
    <2>3. QED
      BY <1>1, <1>4, <2>1, <2>2 DEF BootAlloc
  <1>5. CASE \E name \in {"sys_write", "uart_printf"} : MapLibrary(name)
    BY <1>1, <1>5 DEF MapLibrary, Now
  <1>6. CASE MapUserStack
    BY <1>1, <1>6 DEF MapUserStack, Now
  <1>7. CASE MapEntry
    BY <1>1, <1>7 DEF MapEntry, Now
  <1>8. CASE RunAlloc
    <2>1. Sizes \subseteq Nat
      OBVIOUS
    <2>2. QED
      BY <1>1, <1>8, <2>1 DEF RunAlloc, boot
  <1>9. QED
    BY <1>2, <1>3, <1>4, <1>5, <1>6, <1>7, <1>8 DEF MemNext

\* Every step of boot and of the programs keeps the allocator's invariant.
LEMMA MemStepInvariant == MemInv /\ [MemNext]_mvars => MemInv'
  <1>1. ASSUME MemInv, MemNext
        PROVE  MemInv'
    BY <1>1, MemStep, KmallocStep, VarsStep DEF MemInv
  <1>2. ASSUME MemInv, UNCHANGED mvars
        PROVE  MemInv'
    BY <1>2, VarsStep DEF mvars, boot, MemInv
  <1>3. QED
    BY <1>1, <1>2

\* The allocator's invariant holds throughout boot and afterwards.
THEOREM MemInvariant == MemSpec => []MemInv
  BY MemInitInvariant, MemStepInvariant, PTL DEF MemSpec

\* During boot and afterwards memory has its types and no page two owners; what
\* is mapped is marked, a failure means a full pool, and an address within the
\* first table leads to its page (kmalloc as kmain, block_driver.c and
\* handlers.c call it). As above, RAM reads zero before boot.
THEOREM BootKeepsMemory ==
  MemSpec => [](/\ TypeOK /\ DistinctOwners /\ MappedIsMarked
                /\ FailsOnlyWhenFull /\ AddressIsPhysical)
  <1>1. MemInv => /\ TypeOK /\ DistinctOwners /\ MappedIsMarked
                  /\ FailsOnlyWhenFull /\ AddressIsPhysical
    BY TypesFollow, MarksFollow, AddressesFollow DEF MemInv, IInv
  <1>2. QED
    BY MemInvariant, <1>1, PTL

\* No step of boot or of a program changes a translation in use, while one level
\* 3 table is enough.
THEOREM BootKeepsTranslations == MemSpec => TranslationsStable
  <1>1. MemInv /\ [MemNext]_mvars =>
          [InFirstTable' => \A v \in Pages :
              Translate(v) # Invalid => Translate(v)' = Translate(v)]_vars
    <2>1. ASSUME MemInv, MemNext
          PROVE  [InFirstTable' => \A v \in Pages :
                     Translate(v) # Invalid => Translate(v)' = Translate(v)]_vars
      BY <2>1, MemStep, TranslationsKept DEF MemInv
    <2>2. QED
      BY <2>1 DEF mvars
  <1>2. QED
    BY MemInvariant, <1>1, PTL DEF MemSpec, TranslationsStable

-----------------------------------------------------------------------------
(* Boot call by call.                                                      *)

\* The call of boot that maps the text or the stack of a program.
StackCall(t) == 14 + 6 * t
EntryCall(t) == 15 + 6 * t

\* The calls of kmain, one by one.
LEMMA BootCallsListed ==
  /\ Len(BootCalls) = 27
  /\ BootCalls[1] = Alloc(16000) /\ BootCalls[2] = Alloc(48)
  /\ \A k \in (3 .. 8) \cup (10 .. 15) : BootCalls[k] = Alloc(1)
  /\ BootCalls[9] = Call("add_virtio_page", 0)
  /\ \A t \in Tasks :
        /\ BootCalls[10 + 6 * t] = Call("sys_write", t)
        /\ BootCalls[11 + 6 * t] = Call("uart_printf", t)
        /\ BootCalls[12 + 6 * t] = Alloc(1)
        /\ BootCalls[13 + 6 * t] = Alloc(PageSize)
        /\ BootCalls[StackCall(t)] = Call("ustack", t)
        /\ BootCalls[EntryCall(t)] = Call("entry", t)
  <1> USE DEF BootCalls, BackendCalls, BlockCalls, InitTaskCalls
  <1>1. Len(BootCalls) = 27 /\ BootCalls[1] = Alloc(16000) /\ BootCalls[2] = Alloc(48)
    OBVIOUS
  <1>2. BootCalls[3] = Alloc(1) /\ BootCalls[4] = Alloc(1) /\ BootCalls[5] = Alloc(1)
    OBVIOUS
  <1>3. BootCalls[6] = Alloc(1) /\ BootCalls[7] = Alloc(1) /\ BootCalls[8] = Alloc(1)
    OBVIOUS
  <1>4. BootCalls[9] = Call("add_virtio_page", 0)
    OBVIOUS
  <1>5. BootCalls[10] = Alloc(1) /\ BootCalls[11] = Alloc(1) /\ BootCalls[12] = Alloc(1)
    OBVIOUS
  <1>6. BootCalls[13] = Alloc(1) /\ BootCalls[14] = Alloc(1) /\ BootCalls[15] = Alloc(1)
    OBVIOUS
  <1>7. /\ BootCalls[16] = Call("sys_write", 1) /\ BootCalls[17] = Call("uart_printf", 1)
        /\ BootCalls[18] = Alloc(1) /\ BootCalls[19] = Alloc(PageSize)
        /\ BootCalls[20] = Call("ustack", 1) /\ BootCalls[21] = Call("entry", 1)
    OBVIOUS
  <1>8. /\ BootCalls[22] = Call("sys_write", 2) /\ BootCalls[23] = Call("uart_printf", 2)
        /\ BootCalls[24] = Alloc(1) /\ BootCalls[25] = Alloc(PageSize)
        /\ BootCalls[26] = Call("ustack", 2) /\ BootCalls[27] = Call("entry", 2)
    OBVIOUS
  <1>9. QED
    <2> USE DEF StackCall, EntryCall
    <2>1. ASSUME NEW k \in (3 .. 8) \cup (10 .. 15)
          PROVE  BootCalls[k] = Alloc(1)
      <3>1. k \in {3, 4, 5} \/ k \in {6, 7, 8} \/ k \in {10, 11, 12} \/ k \in {13, 14, 15}
        OBVIOUS
      <3> HIDE DEF BootCalls
      <3>2. QED
        BY <1>2, <1>3, <1>5, <1>6, <3>1
    <2> HIDE DEF BootCalls
    <2>2. QED
      BY <1>1, <1>4, <1>7, <1>8, <2>1 DEF Tasks

\* Where in boot a call of a given name is.
LEMMA WhichCall ==
  ASSUME NEW k \in 1 .. 27, BootCalls[k].call # "kmalloc"
  PROVE  \/ k = 9 /\ BootCalls[k] = Call("add_virtio_page", 0)
         \/ \E t \in Tasks :
               \/ k = 10 + 6 * t /\ BootCalls[k] = Call("sys_write", t)
               \/ k = 11 + 6 * t /\ BootCalls[k] = Call("uart_printf", t)
               \/ k = StackCall(t) /\ BootCalls[k] = Call("ustack", t)
               \/ k = EntryCall(t) /\ BootCalls[k] = Call("entry", t)
  <1>1. \A size : Alloc(size).call = "kmalloc"
    BY DEF Alloc
  <1>2. k \notin (1 .. 8) \cup (10 .. 15)
    <2>1. \A i \in (1 .. 8) \cup (10 .. 15) : i \in {1, 2} \/ i \in (3 .. 8) \cup (10 .. 15)
      OBVIOUS
    <2>2. QED
      BY <1>1, <2>1, BootCallsListed
  <1>3. k \notin {18, 19, 24, 25}
    <2>1. 12 + 6 * 1 = 18 /\ 13 + 6 * 1 = 19 /\ 12 + 6 * 2 = 24 /\ 13 + 6 * 2 = 25
      OBVIOUS
    <2>2. 1 \in Tasks /\ 2 \in Tasks
      BY DEF Tasks
    <2>3. QED
      BY <1>1, <2>1, <2>2, BootCallsListed
  <1>4. k \in {9, 16, 17, 20, 21, 22, 23, 26, 27}
    BY <1>2, <1>3
  <1>5. CASE k = 9
    BY <1>5, BootCallsListed
  <1>6. CASE k \in {16, 17, 20, 21}
    <2>1. 1 \in Tasks /\ (k = 10 + 6 * 1 \/ k = 11 + 6 * 1 \/ k = StackCall(1) \/ k = EntryCall(1))
      BY <1>6 DEF Tasks, StackCall, EntryCall
    <2>2. QED
      BY <2>1, BootCallsListed
  <1>7. CASE k \in {22, 23, 26, 27}
    <2>1. 2 \in Tasks /\ (k = 10 + 6 * 2 \/ k = 11 + 6 * 2 \/ k = StackCall(2) \/ k = EntryCall(2))
      BY <1>7 DEF Tasks, StackCall, EntryCall
    <2>2. QED
      BY <2>1, BootCallsListed
  <1>8. QED
    BY <1>4, <1>5, <1>6, <1>7

\* The calls that map, from their names.
LEMMA CallNamed ==
  ASSUME NEW k \in 1 .. 27
  PROVE  /\ BootCalls[k].call = "add_virtio_page" => k = 9
         /\ BootCalls[k].call \in {"sys_write", "uart_printf"} =>
               \E t \in Tasks : k \in {10 + 6 * t, 11 + 6 * t} /\ BootCalls[k].id = t
         /\ BootCalls[k].call = "ustack" =>
               \E t \in Tasks : k = StackCall(t) /\ BootCalls[k].id = t
         /\ BootCalls[k].call = "entry" =>
               \E t \in Tasks : k = EntryCall(t) /\ BootCalls[k].id = t
  <1>1. \A name, id : Call(name, id).call = name /\ Call(name, id).id = id
    BY DEF Call
  <1>2. CASE BootCalls[k].call = "kmalloc"
    BY <1>2
  <1>3. CASE k = 9 /\ BootCalls[k] = Call("add_virtio_page", 0)
    <2>1. BootCalls[k].call = "add_virtio_page"
      BY <1>1, <1>3
    <2>2. QED
      BY <1>3, <2>1
  <1>4. ASSUME NEW t \in Tasks, k \in {10 + 6 * t, 11 + 6 * t},
               BootCalls[k] = Call("sys_write", t) \/ BootCalls[k] = Call("uart_printf", t)
        PROVE  BootCalls[k].call \in {"sys_write", "uart_printf"} /\ BootCalls[k].id = t
    BY <1>1, <1>4
  <1>5. ASSUME NEW t \in Tasks, BootCalls[k] = Call("ustack", t)
        PROVE  BootCalls[k].call = "ustack" /\ BootCalls[k].id = t
    BY <1>1, <1>5
  <1>6. ASSUME NEW t \in Tasks, BootCalls[k] = Call("entry", t)
        PROVE  BootCalls[k].call = "entry" /\ BootCalls[k].id = t
    BY <1>1, <1>6
  <1>7. \/ BootCalls[k].call = "kmalloc"
        \/ k = 9 /\ BootCalls[k] = Call("add_virtio_page", 0)
        \/ \E t \in Tasks :
              \/ /\ k \in {10 + 6 * t, 11 + 6 * t}
                 /\ BootCalls[k] = Call("sys_write", t) \/ BootCalls[k] = Call("uart_printf", t)
              \/ k = StackCall(t) /\ BootCalls[k] = Call("ustack", t)
              \/ k = EntryCall(t) /\ BootCalls[k] = Call("entry", t)
    BY WhichCall, Zenon
  <1>8. CASE \E t \in Tasks :
                /\ k \in {10 + 6 * t, 11 + 6 * t}
                /\ BootCalls[k] = Call("sys_write", t) \/ BootCalls[k] = Call("uart_printf", t)
    <2>1. PICK t \in Tasks :
              /\ k \in {10 + 6 * t, 11 + 6 * t}
              /\ BootCalls[k] = Call("sys_write", t) \/ BootCalls[k] = Call("uart_printf", t)
      BY <1>8
    <2>2. BootCalls[k].call \in {"sys_write", "uart_printf"} /\ BootCalls[k].id = t
      BY <1>4, <2>1
    <2>3. QED
      BY <2>1, <2>2
  <1>9. CASE \E t \in Tasks : k = StackCall(t) /\ BootCalls[k] = Call("ustack", t)
    <2>1. PICK t \in Tasks : k = StackCall(t) /\ BootCalls[k] = Call("ustack", t)
      BY <1>9
    <2>2. BootCalls[k].call = "ustack" /\ BootCalls[k].id = t
      BY <1>5, <2>1
    <2>3. QED
      BY <2>1, <2>2
  <1>10. CASE \E t \in Tasks : k = EntryCall(t) /\ BootCalls[k] = Call("entry", t)
    <2>1. PICK t \in Tasks : k = EntryCall(t) /\ BootCalls[k] = Call("entry", t)
      BY <1>10
    <2>2. BootCalls[k].call = "entry" /\ BootCalls[k].id = t
      BY <1>6, <2>1
    <2>3. QED
      BY <2>1, <2>2
  <1>11. QED
    BY <1>2, <1>3, <1>7, <1>8, <1>9, <1>10

\* An entry of the level 3 table now is one of the pages from a on, or an earlier one
\* whose index none of these has.
MappedOver(id, a, count, upper) ==
  \A k \in DOMAIN utab'[id].l3 :
     \/ \E b \in a .. a + count - 1 :
           L3Index(b) = k /\ utab'[id].l3[k] = [page |-> b, uxn |-> upper]
     \/ /\ k \in DOMAIN utab[id].l3 /\ utab'[id].l3[k] = utab[id].l3[k]
        /\ \A b \in a .. a + count - 1 : L3Index(b) # k

\* What map_user_to_physical does to the tables of a process: the entries of the
\* pages from a on, and nothing else.
LEMMA MapUserEffect ==
  ASSUME DOMAIN utab = Tasks, NEW id \in Tasks, NEW a \in Nat, NEW count \in Nat,
         NEW upper, MapUser(id, a, count, upper)
  PROVE  /\ DOMAIN utab' = Tasks /\ \A t \in Tasks \ {id} : utab'[t] = utab[t]
         /\ utab'[id].l1 = utab[id].l1 \cup {L1Index(a)}
         /\ utab'[id].l2 = utab[id].l2 \cup {L2Index(a)}
         /\ \A b \in a .. a + count - 1 : L3Index(b) \in DOMAIN utab'[id].l3
         /\ \A k \in DOMAIN utab[id].l3 : k \in DOMAIN utab'[id].l3
         /\ MappedOver(id, a, count, upper)
  <1> DEFINE I == {L3Index(b) : b \in a .. a + count - 1}
             P(k) == CHOOSE b \in a .. a + count - 1 : L3Index(b) = k
             entries == [k \in I |-> [page |-> P(k), uxn |-> upper]]
             new == [l1 |-> utab[id].l1 \cup {L1Index(a)}, l2 |-> utab[id].l2 \cup {L2Index(a)},
                     l3 |-> set_table_entries(utab[id].l3, entries)]
  <1>1. TablesOf(id) = id
    BY DEF TablesOf, Tasks
  <1>2. utab' = [utab EXCEPT ![id] = new]
    BY <1>1 DEF MapUser
  <1>3. utab'[id] = new /\ DOMAIN utab' = Tasks /\ \A t \in Tasks \ {id} : utab'[t] = utab[t]
    <2> HIDE DEF new
    <2>1. QED
      BY <1>2
  <1>4. \A k \in I : P(k) \in a .. a + count - 1 /\ L3Index(P(k)) = k
    OBVIOUS
  <1>5. \A k \in I : entries[k] = [page |-> P(k), uxn |-> upper]
    OBVIOUS
  <1>6. DOMAIN entries = I
    OBVIOUS
  <1> HIDE DEF entries, P
  <1>7. DOMAIN new.l3 = DOMAIN utab[id].l3 \cup I
    BY <1>6 DEF set_table_entries
  <1>8. \A k \in DOMAIN new.l3 :
           new.l3[k] = IF k \in I THEN entries[k] ELSE utab[id].l3[k]
    BY <1>6 DEF set_table_entries
  <1>9. ASSUME NEW k \in DOMAIN new.l3
        PROVE  \/ \E b \in a .. a + count - 1 :
                     L3Index(b) = k /\ new.l3[k] = [page |-> b, uxn |-> upper]
               \/ /\ k \in DOMAIN utab[id].l3 /\ new.l3[k] = utab[id].l3[k]
                  /\ \A b \in a .. a + count - 1 : L3Index(b) # k
    <2>1. CASE k \in I
      BY <1>4, <1>5, <1>8, <2>1
    <2>2. CASE k \notin I
      BY <1>7, <1>8, <2>2
    <2>3. QED
      BY <2>1, <2>2
  <1>10. /\ \A b \in a .. a + count - 1 : L3Index(b) \in DOMAIN new.l3
         /\ \A k \in DOMAIN utab[id].l3 : k \in DOMAIN new.l3
    BY <1>7
  <1>11. new.l1 = utab[id].l1 \cup {L1Index(a)} /\ new.l2 = utab[id].l2 \cup {L2Index(a)}
    OBVIOUS
  <1> HIDE DEF new
  <1>12. MappedOver(id, a, count, upper)
    BY <1>3, <1>9 DEF MappedOver
  <1>13. QED
    BY <1>3, <1>10, <1>11, <1>12

\* The pages a table leads to afterwards: those just mapped, and those it led to.
LEMMA MapUserPages ==
  ASSUME DOMAIN utab = Tasks, NEW id \in Tasks, NEW a \in Nat, NEW count \in Nat,
         NEW upper, MapUser(id, a, count, upper)
  PROVE  /\ \A t \in Tasks \ {id} : utab'[t] = utab[t]
         /\ \A k \in DOMAIN utab'[id].l3 :
               \/ \E b \in a .. a + count - 1 : utab'[id].l3[k].page = b
               \/ k \in DOMAIN utab[id].l3 /\ utab'[id].l3[k] = utab[id].l3[k]
  <1>1. \A t \in Tasks \ {id} : utab'[t] = utab[t]
    BY MapUserEffect
  <1>2. ASSUME NEW k \in DOMAIN utab'[id].l3
        PROVE  \/ \E b \in a .. a + count - 1 : utab'[id].l3[k].page = b
               \/ k \in DOMAIN utab[id].l3 /\ utab'[id].l3[k] = utab[id].l3[k]
    <2>1. \/ \E b \in a .. a + count - 1 : utab'[id].l3[k] = [page |-> b, uxn |-> upper]
          \/ k \in DOMAIN utab[id].l3 /\ utab'[id].l3[k] = utab[id].l3[k]
      <3>1. MappedOver(id, a, count, upper)
        BY MapUserEffect
      <3>2. QED
        BY <1>2, <3>1 DEF MappedOver
    <2>2. ASSUME NEW b \in a .. a + count - 1, utab'[id].l3[k] = [page |-> b, uxn |-> upper]
          PROVE  utab'[id].l3[k].page = b
      BY <2>2
    <2>3. QED
      BY <2>1, <2>2
  <1>3. QED
    BY <1>1, <1>2

-----------------------------------------------------------------------------
(* The tables of the programs.                                             *)

\* Every program has tables and a stack; the layout is one of those given.
UserTyped ==
    /\ DOMAIN utab = Tasks /\ DOMAIN ustack = Tasks
    /\ layout \in [sys_write : LibraryPages, uart_printf : LibraryPages,
                   entry : [Tasks -> EntryPages], reg : VirtioRegs]
    /\ pc \in 0 .. 28

\* A program's table leads below the pool, or to its own stack once that is there.
LeadsToOwn ==
    \A t \in Tasks : \A k \in DOMAIN utab[t].l3 :
        /\ utab[t].l3[k].page \in Nat
        /\ \/ utab[t].l3[k].page < PoolBase
           \/ pc > StackCall(t) /\ utab[t].l3[k].page = ustack[t]

\* Where a program's stack was taken from the pool the page is marked.
StacksMarked ==
    \A t \in Tasks : pc > StackCall(t) => \E v \in bitmap : ustack[t] = PoolBase + v

UserInv == MemInv /\ UserTyped /\ LeadsToOwn /\ StacksMarked

\* A step at no call that maps for a program.
ElsewhereStep ==
    /\ UNCHANGED <<utab, ustack>> /\ pc' \in {pc, pc + 1}
    /\ \A t \in Tasks : pc # StackCall(t) /\ pc # EntryCall(t)

\* A step that maps kernel functions into a program's table.
LibraryStep(t) ==
    /\ pc \in {10 + 6 * t, 11 + 6 * t} /\ pc' = pc + 1 /\ UNCHANGED <<vars, ustack>>
    /\ \E r \in {layout.sys_write, layout.uart_printf} :
          MapUser(t, KernelText + r, TextPages, TRUE)

\* A step that gives a program its stack.
StackStep(t, base) ==
    /\ pc = StackCall(t) /\ pc' = pc + 1
    /\ base \in Res0(PagesFor(PageSize)) /\ Kmalloc(PageSize, base)
    /\ MapUser(t, PoolBase + base, 1, FALSE)
    /\ ustack' = [ustack EXCEPT ![t] = PoolBase + base]

\* A step that maps a program's own text.
EntryStep(t) ==
    /\ pc = EntryCall(t) /\ pc' = pc + 1 /\ UNCHANGED <<vars, ustack>>
    /\ MapUser(t, EntryPage(t), TextPages, FALSE)

\* Every step is one of these.
LEMMA UserStep ==
  ASSUME UserTyped, MemNext
  PROVE  /\ layout' = layout /\ pc' \in 0 .. 28
         /\ \/ ElsewhereStep /\ (MmuInit \/ AddVirtioPage \/ BootAlloc \/ RunAlloc)
            \/ \E t \in Tasks : LibraryStep(t) \/ EntryStep(t)
            \/ \E t \in Tasks : \E base \in Res0(PagesFor(PageSize)) : StackStep(t, base)
  <1>1. Len(BootCalls) = 27 /\ pc \in 0 .. 28
    BY BootCallsListed DEF UserTyped
  <1>2. layout' = layout
    BY DEF MemNext, MmuInit, AddVirtioPage, BootAlloc, MapLibrary, MapUserStack, MapEntry,
       RunAlloc, boot
  <1>3. ASSUME NEW name, Now(name)
        PROVE  pc \in 1 .. 27 /\ pc' = pc + 1 /\ BootCalls[pc].call = name
    BY <1>1, <1>3 DEF Now, Booted
  <1>4. \A name, id : Call(name, id).call = name /\ Call(name, id).id = id
    BY DEF Call
  <1>5. ASSUME NEW t \in Tasks
        PROVE  /\ StackCall(t) \in 1 .. 27 /\ BootCalls[StackCall(t)].call = "ustack"
               /\ EntryCall(t) \in 1 .. 27 /\ BootCalls[EntryCall(t)].call = "entry"
    BY <1>4, BootCallsListed DEF Tasks, StackCall, EntryCall
  <1>6. CASE MmuInit
    <2>1. ElsewhereStep
      BY <1>5, <1>6 DEF MmuInit, ElsewhereStep
    <2>2. pc' = 1
      BY <1>6 DEF MmuInit
    <2>3. QED
      BY <1>2, <1>6, <2>1, <2>2
  <1>7. CASE AddVirtioPage \/ BootAlloc
    <2>1. PICK name \in {"add_virtio_page", "kmalloc"} : Now(name)
      BY <1>7 DEF AddVirtioPage, BootAlloc
    <2>2. pc \in 1 .. 27 /\ pc' = pc + 1 /\ BootCalls[pc].call = name
      BY <1>3, <2>1
    <2>3. ElsewhereStep
      BY <1>5, <1>7, <2>2 DEF AddVirtioPage, BootAlloc, ElsewhereStep
    <2>4. QED
      BY <1>2, <1>7, <2>2, <2>3
  <1>8. CASE \E name \in {"sys_write", "uart_printf"} : MapLibrary(name)
    <2>1. PICK name \in {"sys_write", "uart_printf"} : MapLibrary(name)
      BY <1>8
    <2>2. pc \in 1 .. 27 /\ pc' = pc + 1 /\ BootCalls[pc].call = name
      BY <1>3, <2>1 DEF MapLibrary
    <2>3. PICK t \in Tasks : pc \in {10 + 6 * t, 11 + 6 * t} /\ BootCalls[pc].id = t
      BY <2>2, CallNamed
    <2>4. BootCalls[pc].id = t
      BY <2>3
    <2>5. /\ UNCHANGED <<vars, ustack>>
          /\ \E r \in {layout.sys_write, layout.uart_printf} :
                MapUser(t, KernelText + r, TextPages, TRUE)
      BY <2>1, <2>4 DEF MapLibrary
    <2>6. LibraryStep(t)
      BY <2>2, <2>3, <2>5 DEF LibraryStep
    <2>7. QED
      BY <1>2, <2>2, <2>6
  <1>9. CASE MapUserStack
    <2>1. pc \in 1 .. 27 /\ pc' = pc + 1 /\ BootCalls[pc].call = "ustack"
      BY <1>3, <1>9 DEF MapUserStack
    <2>2. PICK t \in Tasks : pc = StackCall(t) /\ BootCalls[pc].id = t
      BY <2>1, CallNamed
    <2>3. BootCalls[pc].id = t
      BY <2>2
    <2>4. \E base \in Res0(PagesFor(PageSize)) : StackStep(t, base)
      BY <1>9, <2>1, <2>2, <2>3 DEF MapUserStack, StackStep
    <2>5. QED
      BY <1>2, <2>1, <2>4
  <1>10. CASE MapEntry
    <2>1. pc \in 1 .. 27 /\ pc' = pc + 1 /\ BootCalls[pc].call = "entry"
      BY <1>3, <1>10 DEF MapEntry
    <2>2. PICK t \in Tasks : pc = EntryCall(t) /\ BootCalls[pc].id = t
      BY <2>1, CallNamed
    <2>3. BootCalls[pc].id = t
      BY <2>2
    <2>4. EntryStep(t)
      BY <1>10, <2>1, <2>2, <2>3 DEF MapEntry, EntryStep
    <2>5. QED
      BY <1>2, <2>1, <2>4
  <1>11. CASE RunAlloc
    <2>1. pc' = pc /\ UNCHANGED <<utab, ustack>> /\ pc > 27
      BY <1>1, <1>11 DEF RunAlloc, boot, Booted
    <2>2. ElsewhereStep
      BY <1>1, <1>5, <2>1 DEF ElsewhereStep
    <2>3. QED
      BY <1>1, <1>2, <1>11, <2>1, <2>2
  <1>12. QED
    BY <1>6, <1>7, <1>8, <1>9, <1>10, <1>11 DEF MemNext

\* The stack and the entry of a program are called for after its libraries.
LEMMA CallOrder ==
  ASSUME NEW t \in Tasks
  PROVE  /\ t \in Nat /\ StackCall(t) \in Nat /\ EntryCall(t) = StackCall(t) + 1
         /\ 11 + 6 * t < StackCall(t) /\ 10 + 6 * t < StackCall(t)
         /\ \A u \in Tasks : u # t => /\ StackCall(t) \notin {StackCall(u), EntryCall(u)}
                                      /\ EntryCall(t) \notin {StackCall(u), EntryCall(u)}
                                      /\ {10 + 6 * t, 11 + 6 * t} \cap
                                            {StackCall(u), EntryCall(u)} = {}
  BY DEF Tasks, StackCall, EntryCall

\* What a program's stack starts at is a page of the pool.
LEMMA StackBase ==
  ASSUME MemInv, NEW t \in Tasks, NEW base, StackStep(t, base)
  PROVE  base \in Pages /\ base \in Nat /\ PoolBase + base \in Nat
  <1>1. /\ SetBitmap(PagesFor(PageSize)) /\ base \in Res0(PagesFor(PageSize))
        /\ PageSize \in Nat /\ IInv
    BY DEF StackStep, Kmalloc, MemInv
  <1>2. PagesFor(PageSize) \in Nat \ {0}
    BY <1>1, PagesForPositive
  <1>3. base \in Pages
    BY <1>1, <1>2, KmallocPages
  <1>4. base \in Nat
    BY <1>3 DEF Pages
  <1>5. QED
    BY <1>3, <1>4 DEF PoolBase

\* The page is marked by the call that takes it, also if it was the last or none
\* was left.
LEMMA StackMarked ==
  ASSUME MemInv, NEW t \in Tasks, NEW base, StackStep(t, base)
  PROVE  base \in bitmap'
  <1>1. PICK n : n = PagesFor(PageSize)
    OBVIOUS
  <1>2. SetBitmap(n) /\ base \in Res0(n) /\ PageSize \in Nat /\ IInv
    BY <1>1 DEF StackStep, Kmalloc, MemInv
  <1>3. n \in Nat \ {0}
    BY <1>1, <1>2, PagesForPositive
  <1>4. PICK k \in 0 .. NPages :
            /\ base \in Pages
            /\ \/ base = k /\ bitmap' = 0 .. k + n - 1
               \/ bitmap' = Pages
    BY <1>2, <1>3, KmallocPages
  <1>5. QED
    BY <1>3, <1>4

\* Libraries and text lie below the pool.
LEMMA LibraryMaps ==
  ASSUME UserTyped, NEW t \in Tasks, LibraryStep(t) \/ EntryStep(t)
  PROVE  /\ DOMAIN utab' = Tasks /\ DOMAIN ustack' = Tasks
         /\ \E a \in Nat : /\ \E upper : MapUser(t, a, TextPages, upper)
                           /\ a + TextPages <= PoolBase
  <1>1. /\ TextPages \in Nat
        /\ layout.sys_write \in LibraryPages /\ layout.uart_printf \in LibraryPages
        /\ layout.entry[t] \in EntryPages
    BY MemoryAssumption DEF UserTyped
  <1>2. KernelText \in Nat /\ PoolBase \in Nat
    BY DEF KernelText, PoolBase
  <1>3. \A r \in LibraryPages \cup EntryPages :
           KernelText + r \in Nat /\ KernelText + r + TextPages <= PoolBase
    BY <1>2, MemoryAssumption
  <1>4. \E a \in Nat : /\ \E upper : MapUser(t, a, TextPages, upper)
                       /\ a + TextPages <= PoolBase
    <2>1. CASE LibraryStep(t)
      BY <1>1, <1>3, <2>1 DEF LibraryStep
    <2>2. CASE EntryStep(t)
      BY <1>1, <1>3, <2>2 DEF EntryStep, EntryPage
    <2>3. QED
      BY <2>1, <2>2
  <1>5. DOMAIN utab' = Tasks
    BY <1>1, <1>4, MapUserEffect DEF UserTyped
  <1>6. QED
    BY <1>4, <1>5 DEF LibraryStep, EntryStep, UserTyped

\* What a step does to the tables and the stacks, as far as numbers go.
LEMMA StepTyped ==
  ASSUME MemInv, UserTyped, MemNext
  PROVE  UserTyped'
  <1>1. layout' = layout /\ pc' \in 0 .. 28
    BY UserStep
  <1>2. DOMAIN utab' = Tasks /\ DOMAIN ustack' = Tasks
    <2>1. CASE ElsewhereStep
      BY <2>1 DEF ElsewhereStep, UserTyped
    <2>2. ASSUME NEW t \in Tasks, LibraryStep(t) \/ EntryStep(t)
          PROVE  DOMAIN utab' = Tasks /\ DOMAIN ustack' = Tasks
      BY <2>2, LibraryMaps DEF UserTyped
    <2>3. ASSUME NEW t \in Tasks, NEW base \in Res0(PagesFor(PageSize)), StackStep(t, base)
          PROVE  DOMAIN utab' = Tasks /\ DOMAIN ustack' = Tasks
      <3>1. base \in Nat /\ PoolBase + base \in Nat
        BY <2>3, StackBase
      <3>2. DOMAIN utab' = Tasks
        BY <2>3, <3>1, MapUserEffect DEF StackStep, UserTyped
      <3>3. DOMAIN ustack' = Tasks
        BY <2>3 DEF StackStep, UserTyped
      <3>4. QED
        BY <3>2, <3>3
    <2>4. QED
      BY <2>1, <2>2, <2>3, UserStep
  <1>3. QED
    BY <1>1, <1>2 DEF UserTyped

\* No step lets a program's table lead to another page of the pool.
LEMMA LeadsToOwnKept ==
  ASSUME UserInv, MemNext
  PROVE  LeadsToOwn'
  <1>1. UserTyped /\ MemInv /\ LeadsToOwn /\ pc \in Nat /\ UserTyped' /\ pc' \in Nat
    BY StepTyped DEF UserInv, UserTyped
  <1>2. CASE ElsewhereStep
    BY <1>1, <1>2, CallOrder DEF ElsewhereStep, LeadsToOwn
  <1>3. ASSUME NEW t \in Tasks, LibraryStep(t) \/ EntryStep(t)
        PROVE  LeadsToOwn'
    <2>1. PICK a \in Nat : /\ \E upper : MapUser(t, a, TextPages, upper)
                           /\ a + TextPages <= PoolBase
      BY <1>1, <1>3, LibraryMaps
    <2>2. ustack' = ustack /\ pc' = pc + 1
      BY <1>3 DEF LibraryStep, EntryStep
    <2>3. /\ \A u \in Tasks \ {t} : utab'[u] = utab[u]
          /\ \A k \in DOMAIN utab'[t].l3 :
                \/ \E b \in a .. a + TextPages - 1 : utab'[t].l3[k].page = b
                \/ k \in DOMAIN utab[t].l3 /\ utab'[t].l3[k] = utab[t].l3[k]
      <3>1. PICK upper : MapUser(t, a, TextPages, upper)
        BY <2>1
      <3>2. DOMAIN utab = Tasks /\ TextPages \in Nat
        BY <1>1, MemoryAssumption DEF UserTyped
      <3>3. QED
        BY <3>1, <3>2, MapUserPages
    <2>4. \A b \in a .. a + TextPages - 1 : b \in Nat /\ b < PoolBase
      BY <2>1, MemoryAssumption DEF PoolBase
    <2>5. ASSUME NEW u \in Tasks, NEW k \in DOMAIN utab'[u].l3
          PROVE  /\ utab'[u].l3[k].page \in Nat
                 /\ \/ utab'[u].l3[k].page < PoolBase
                    \/ pc' > StackCall(u) /\ utab'[u].l3[k].page = ustack'[u]
      <3>1. CASE u = t /\ \E b \in a .. a + TextPages - 1 : utab'[t].l3[k].page = b
        BY <2>4, <3>1
      <3>2. CASE k \in DOMAIN utab[u].l3 /\ utab'[u].l3[k] = utab[u].l3[k]
        BY <1>1, <2>2, <3>2, CallOrder DEF LeadsToOwn
      <3>3. QED
        BY <2>3, <2>5, <3>1, <3>2
    <2>6. QED
      BY <2>5 DEF LeadsToOwn
  <1>4. ASSUME NEW t \in Tasks, NEW base \in Res0(PagesFor(PageSize)), StackStep(t, base)
        PROVE  LeadsToOwn'
    <2>1. base \in Nat /\ PoolBase + base \in Nat
      BY <1>1, <1>4, StackBase
    <2>2. /\ pc = StackCall(t) /\ pc' = pc + 1 /\ ustack'[t] = PoolBase + base
          /\ \A u \in Tasks \ {t} : ustack'[u] = ustack[u]
      BY <1>1, <1>4 DEF StackStep, UserTyped
    <2>3. /\ \A u \in Tasks \ {t} : utab'[u] = utab[u]
          /\ \A k \in DOMAIN utab'[t].l3 :
                \/ utab'[t].l3[k].page = PoolBase + base
                \/ k \in DOMAIN utab[t].l3 /\ utab'[t].l3[k] = utab[t].l3[k]
      <3> DEFINE a == PoolBase + base
      <3>1. PICK upper : MapUser(t, a, 1, upper)
        BY <1>4 DEF StackStep
      <3>2. a \in Nat /\ DOMAIN utab = Tasks
        BY <1>1, <2>1 DEF UserTyped
      <3> HIDE DEF a
      <3>3. /\ \A u \in Tasks \ {t} : utab'[u] = utab[u]
            /\ \A k \in DOMAIN utab'[t].l3 :
                  \/ utab'[t].l3[k].page = a
                  \/ k \in DOMAIN utab[t].l3 /\ utab'[t].l3[k] = utab[t].l3[k]
        <4>1. \A b \in a .. a + 1 - 1 : b = a
          BY <3>2
        <4>2. QED
          BY <3>1, <3>2, <4>1, MapUserPages
      <3>4. QED
        BY <3>3 DEF a
    <2>4. ASSUME NEW u \in Tasks, NEW k \in DOMAIN utab'[u].l3
          PROVE  /\ utab'[u].l3[k].page \in Nat
                 /\ \/ utab'[u].l3[k].page < PoolBase
                    \/ pc' > StackCall(u) /\ utab'[u].l3[k].page = ustack'[u]
      <3>1. CASE u = t
        <4>1. ASSUME k \in DOMAIN utab[t].l3
              PROVE  utab[t].l3[k].page \in Nat /\ utab[t].l3[k].page < PoolBase
          BY <1>1, <2>2, <4>1, CallOrder DEF LeadsToOwn
        <4>2. pc' > StackCall(t)
          BY <2>2, CallOrder
        <4>3. QED
          BY <2>1, <2>2, <2>3, <2>4, <3>1, <4>1, <4>2
      <3>2. CASE u # t
        BY <1>1, <2>2, <2>3, <2>4, <3>2, CallOrder DEF LeadsToOwn
      <3>3. QED
        BY <3>1, <3>2
    <2>5. QED
      BY <2>4 DEF LeadsToOwn
  <1>5. QED
    BY <1>1, <1>2, <1>3, <1>4, UserStep

\* No step takes the mark from a stack.
LEMMA StacksMarkedKept ==
  ASSUME UserInv, MemNext
  PROVE  StacksMarked'
  <1>1. /\ MemInv /\ UserTyped /\ StacksMarked /\ pc \in Nat /\ DOMAIN ustack = Tasks
        /\ IInv
    BY DEF UserInv, UserTyped, MemInv
  <1>2. bitmap \subseteq bitmap'
    <2>1. ASSUME NEW size \in Nat, NEW base \in Res0(PagesFor(size)), Kmalloc(size, base)
          PROVE  bitmap \subseteq bitmap'
      BY <1>1, <2>1, KmallocStep DEF TablesGrow
    <2>2. CASE UNCHANGED vars
      BY <2>2 DEF vars
    <2>3. QED
      BY <1>1, <2>1, <2>2, MemStep
  <1>3. ASSUME NEW t \in Tasks, ustack'[t] = ustack[t], pc' > StackCall(t) => pc > StackCall(t)
        PROVE  pc' > StackCall(t) => \E v \in bitmap' : ustack'[t] = PoolBase + v
    BY <1>1, <1>2, <1>3 DEF StacksMarked
  <1>4. CASE ElsewhereStep
    BY <1>1, <1>3, <1>4, CallOrder DEF ElsewhereStep, StacksMarked
  <1>5. ASSUME NEW t \in Tasks, LibraryStep(t) \/ EntryStep(t)
        PROVE  StacksMarked'
    <2>1. /\ ustack' = ustack /\ pc' = pc + 1
          /\ pc \in {10 + 6 * t, 11 + 6 * t, EntryCall(t)}
      BY <1>5 DEF LibraryStep, EntryStep
    <2>2. ASSUME NEW u \in Tasks
          PROVE  pc # StackCall(u)
      <3>1. CASE u = t
        BY <2>1, <3>1, CallOrder
      <3>2. CASE u # t
        BY <2>1, <3>2, CallOrder
      <3>3. QED
        BY <3>1, <3>2
    <2>3. \A u \in Tasks : pc' > StackCall(u) => pc > StackCall(u)
      BY <1>1, <2>1, <2>2, CallOrder
    <2>4. QED
      BY <1>3, <2>1, <2>3 DEF StacksMarked
  <1>6. ASSUME NEW t \in Tasks, NEW base \in Res0(PagesFor(PageSize)), StackStep(t, base)
        PROVE  StacksMarked'
    <2>1. /\ pc = StackCall(t) /\ pc' = pc + 1 /\ ustack'[t] = PoolBase + base
          /\ \A u \in Tasks \ {t} : ustack'[u] = ustack[u]
      BY <1>1, <1>6 DEF StackStep
    <2>2. base \in bitmap'
      BY <1>1, <1>6, StackMarked
    <2>3. ASSUME NEW u \in Tasks, u # t
          PROVE  pc' > StackCall(u) => pc > StackCall(u)
      BY <1>1, <2>1, <2>3, CallOrder
    <2>4. QED
      BY <1>3, <2>1, <2>2, <2>3 DEF StacksMarked
  <1>7. QED
    BY <1>1, <1>4, <1>5, <1>6, UserStep

\* Before boot no program has a table.
LEMMA UserInitInvariant == MemInit => UserInv
  <1> SUFFICES ASSUME MemInit PROVE UserInv
    OBVIOUS
  <1>1. /\ pc = 0 /\ utab = [t \in Tasks |-> [l1 |-> {}, l2 |-> {}, l3 |-> << >>]]
        /\ ustack = [t \in Tasks |-> PoolBase]
        /\ layout \in [sys_write : LibraryPages, uart_printf : LibraryPages,
                       entry : [Tasks -> EntryPages], reg : VirtioRegs]
    BY DEF MemInit
  <1>2. \A t \in Tasks : DOMAIN utab[t].l3 = {}
    BY <1>1
  <1>3. UserTyped /\ LeadsToOwn
    BY <1>1, <1>2 DEF UserTyped, LeadsToOwn
  <1>4. StacksMarked
    BY <1>1, CallOrder DEF StacksMarked
  <1>5. QED
    BY <1>3, <1>4, MemInitInvariant DEF UserInv

\* Every step keeps the invariant of the programs' tables.
LEMMA UserStepInvariant == UserInv /\ [MemNext]_mvars => UserInv'
  <1>1. ASSUME UserInv, MemNext
        PROVE  UserInv'
    BY <1>1, MemStepInvariant, StepTyped, LeadsToOwnKept, StacksMarkedKept DEF UserInv
  <1>2. ASSUME UserInv, UNCHANGED mvars
        PROVE  UserInv'
    BY <1>2, MemStepInvariant DEF UserInv, mvars, vars, boot, UserTyped, LeadsToOwn, StacksMarked
  <1>3. QED
    BY <1>1, <1>2

\* A program's table leads below the pool or to its own stack throughout.
LEMMA UserInvariant == MemSpec => []UserInv
  BY UserInitInvariant, UserStepInvariant, PTL DEF MemSpec

\* By the table map_user_to_physical fills a program reaches no page of the pool
\* beside its stack: no kernel stack, no ring and not the other's stack, however
\* large the pool is and also when it runs out during boot. Through TTBR1 it reaches
\* what kmalloc mapped; no page it reaches either way is one nobody was handed.
THEOREM ProgramsReachHandedOut == MemSpec => []PoolReach
  <1>1. UserInv => PoolReach
    <2> SUFFICES ASSUME UserInv, NEW t \in Tasks
                 PROVE  /\ \A v \in OwnPages(t) : PoolBase + v = ustack[t]
                        /\ OwnPages(t) \cup KernelPages \subseteq bitmap
      BY DEF PoolReach
    <2>1. ASSUME NEW v \in OwnPages(t)
          PROVE  v \in Nat /\ PoolBase + v = ustack[t] /\ pc > StackCall(t)
      <3>1. v \in Nat /\ \E k \in DOMAIN utab[t].l3 : utab[t].l3[k].page = PoolBase + v
        BY DEF OwnPages, Pages
      <3>2. ~(PoolBase + v < PoolBase)
        BY <3>1 DEF PoolBase
      <3>3. QED
        BY <3>1, <3>2 DEF UserInv, LeadsToOwn
    <2>2. OwnPages(t) \subseteq bitmap
      <3>1. ASSUME NEW v \in OwnPages(t)
            PROVE  v \in bitmap
        <4>1. PICK w \in bitmap : ustack[t] = PoolBase + w
          BY <2>1 DEF UserInv, StacksMarked
        <4>2. w \in Nat
          BY DEF UserInv, MemInv, IInv, Prefix
        <4>3. v = w
          BY <2>1, <4>1, <4>2 DEF PoolBase
        <4>4. QED
          BY <4>3
      <3>2. QED
        BY <3>1
    <2>3. KernelPages \subseteq bitmap
      BY MarksFollow DEF UserInv, MemInv, MappedIsMarked, KernelPages
    <2>4. QED
      BY <2>1, <2>2, <2>3
  <1>2. QED
    BY UserInvariant, <1>1, PTL

-----------------------------------------------------------------------------
(* The pages boot takes, with the code's page size and a pool that lasts.  *)

\* The pages taken before each call of boot, and when boot is done.
Taken == << 0, 4, 5, 6, 7, 8, 9, 10, 11, 11, 12, 13, 14, 15, 16,
            17, 17, 17, 18, 19, 20, 20, 20, 20, 21, 22, 23, 23 >>

\* During boot exactly those are marked.
TakenInOrder ==
    /\ pc = 0 => bitmap = 0 .. 0 - 1
    /\ pc \in 1 .. 27 => bitmap = 0 .. Taken[pc] - 1

BigEnough == PageSize = 4096 /\ NPages >= 23

\* What each call takes: four pages the first, one the other allocations and the
\* stacks, none the rest.
LEMMA TakenSteps ==
  /\ Taken[1] = 0 /\ Taken[2] = 4
  /\ \A k \in (2 .. 8) \cup (10 .. 15) \cup {18, 19, 20, 24, 25, 26} :
        Taken[k + 1] = Taken[k] + 1
  /\ \A k \in {9, 16, 17, 21, 22, 23, 27} : Taken[k + 1] = Taken[k]
  /\ \A k \in 1 .. 28 : Taken[k] \in 0 .. 23
  /\ \A k \in (1 .. 26) : Taken[k] <= 22
  /\ Taken[20] = 19 /\ Taken[26] = 22
  <1>1. /\ Taken[1] = 0 /\ Taken[2] = 4 /\ Taken[3] = 5 /\ Taken[4] = 6 /\ Taken[5] = 7
        /\ Taken[6] = 8 /\ Taken[7] = 9 /\ Taken[8] = 10 /\ Taken[9] = 11 /\ Taken[10] = 11
        /\ Taken[11] = 12 /\ Taken[12] = 13 /\ Taken[13] = 14 /\ Taken[14] = 15
        /\ Taken[15] = 16 /\ Taken[16] = 17 /\ Taken[17] = 17 /\ Taken[18] = 17
        /\ Taken[19] = 18 /\ Taken[20] = 19 /\ Taken[21] = 20 /\ Taken[22] = 20
        /\ Taken[23] = 20 /\ Taken[24] = 20 /\ Taken[25] = 21 /\ Taken[26] = 22
        /\ Taken[27] = 23 /\ Taken[28] = 23
    BY DEF Taken
  <1>2. \A k \in (2 .. 8) \cup (10 .. 15) \cup {18, 19, 20, 24, 25, 26} :
           k \in {2, 3, 4, 5, 6, 7, 8, 10, 11, 12, 13, 14, 15, 18, 19, 20, 24, 25, 26}
    OBVIOUS
  <1>3. \A k \in 1 .. 28 :
           k \in {1, 2, 3, 4, 5, 6, 7, 8, 9, 10, 11, 12, 13, 14, 15, 16, 17, 18, 19, 20, 21,
                  22, 23, 24, 25, 26, 27, 28}
    OBVIOUS
  <1>4. QED
    BY <1>1, <1>2, <1>3

\* A kmalloc within the pool takes the next pages and returns the first of them.
LEMMA NextPages ==
  ASSUME MemInv, NEW m \in Nat, bitmap = 0 .. m - 1, NEW size \in Nat,
         m + PagesFor(size) <= NPages,
         NEW base \in Res0(PagesFor(size)), Kmalloc(size, base)
  PROVE  base = m /\ bitmap' = 0 .. (m + PagesFor(size)) - 1
  <1>1. PICK n : n = PagesFor(size)
    OBVIOUS
  <1>2. n \in Nat \ {0}
    BY <1>1, PagesForPositive
  <1>3. SetBitmap(n) /\ IInv /\ base \in Res0(n)
    BY <1>1 DEF Kmalloc, MemInv
  <1>4. PICK k \in 0 .. NPages :
            /\ bitmap = 0 .. k - 1
            /\ \/ k + n <= NPages /\ base = k /\ bitmap' = 0 .. k + n - 1
               \/ k + n > NPages
    BY <1>2, <1>3, KmallocPages
  <1>5. k = m
    <2>1. k \in Nat /\ \A i \in Nat : (i < k <=> i < m)
      BY <1>4
    <2>2. (k < k <=> k < m) /\ (m < k <=> m < m)
      BY <2>1
    <2>3. QED
      BY <2>1, <2>2
  <1>6. k + n = m + n /\ m + n \in Int /\ NPages \in Int
    BY <1>2, <1>5
  <1>7. m + n <= NPages
    BY <1>1
  <1>8. base = m /\ bitmap' = 0 .. m + n - 1
    BY <1>4, <1>5, <1>6, <1>7
  <1>9. QED
    BY <1>1, <1>2, <1>8

\* Sizes below a page take one, 16000 bytes four.
LEMMA BootSizes ==
  ASSUME PageSize = 4096
  PROVE  /\ PagesFor(16000) = 4 /\ PagesFor(48) = 1 /\ PagesFor(1) = 1
         /\ PagesFor(PageSize) = 1
  BY DEF PagesFor

\* Where boot allocates, and how many pages.
LEMMA WhichAlloc ==
  ASSUME PageSize = 4096, NEW k \in 1 .. 27, BootCalls[k].call = "kmalloc"
  PROVE  /\ BootCalls[k].size \in Nat
         /\ \/ k = 1 /\ PagesFor(BootCalls[k].size) = 4
            \/ /\ k \in (2 .. 8) \cup (10 .. 15) \cup {18, 19, 20, 24, 25, 26}
               /\ PagesFor(BootCalls[k].size) = 1
  <1>1. \A size : Alloc(size).size = size
    BY DEF Alloc
  <1>2. \A name, id : Call(name, id).call = name
    BY DEF Call
  <1>3. BootCalls[k].size \in Nat
    <2>1. Len(BootCalls) = 27
      BY BootCallsListed
    <2>2. \A s \in Seq(BootCall) : \A i \in 1 .. Len(s) : s[i] \in BootCall
      OBVIOUS
    <2>3. k \in 1 .. Len(BootCalls)
      BY <2>1
    <2>4. BootCalls[k] \in BootCall
      BY <2>2, <2>3, BootCallsTyped
    <2>5. QED
      BY <2>4 DEF BootCall
  <1>4. CASE k = 1
    BY <1>1, <1>3, <1>4, BootCallsListed, BootSizes
  <1>5. CASE k = 2
    BY <1>1, <1>3, <1>5, BootCallsListed, BootSizes
  <1>6. CASE k \in (3 .. 8) \cup (10 .. 15)
    <2>1. PagesFor(BootCalls[k].size) = 1
      BY <1>1, <1>6, BootCallsListed, BootSizes
    <2>2. k \in (2 .. 8) \cup (10 .. 15)
      BY <1>6
    <2>3. QED
      BY <1>3, <2>1, <2>2
  <1>7. CASE k = 9
    BY <1>2, <1>7, BootCallsListed
  <1>8. ASSUME NEW t \in Tasks, k \in {10 + 6 * t, 11 + 6 * t, StackCall(t), EntryCall(t)}
        PROVE  FALSE
    BY <1>2, <1>8, BootCallsListed
  <1>9. ASSUME NEW t \in Tasks, k \in {12 + 6 * t, 13 + 6 * t}
        PROVE  PagesFor(BootCalls[k].size) = 1 /\ k \in {18, 19, 24, 25}
    <2>1. PagesFor(BootCalls[k].size) = 1
      BY <1>1, <1>9, BootCallsListed, BootSizes
    <2>2. k \in {18, 19, 24, 25}
      BY <1>9 DEF Tasks
    <2>3. QED
      BY <2>1, <2>2
  <1>10. CASE k \in 16 .. 27
    <2>1. \E t \in Tasks : k \in {10 + 6 * t, 11 + 6 * t, StackCall(t), EntryCall(t)}
                                    \cup {12 + 6 * t, 13 + 6 * t}
      <3>1. 1 \in Tasks /\ 2 \in Tasks
        BY DEF Tasks
      <3>2. \/ k \in {10 + 6 * 1, 11 + 6 * 1, StackCall(1), EntryCall(1)}
                       \cup {12 + 6 * 1, 13 + 6 * 1}
            \/ k \in {10 + 6 * 2, 11 + 6 * 2, StackCall(2), EntryCall(2)}
                       \cup {12 + 6 * 2, 13 + 6 * 2}
        BY <1>10 DEF StackCall, EntryCall
      <3>3. QED
        BY <3>1, <3>2
    <2>2. QED
      BY <1>3, <1>8, <1>9, <2>1
  <1>11. k \in {1, 2, 9} \cup (3 .. 8) \cup (10 .. 15) \cup (16 .. 27)
    OBVIOUS
  <1>12. QED
    BY <1>4, <1>5, <1>6, <1>7, <1>10, <1>11

\* Boot takes its pages in order.
LEMMA TakenKept ==
  ASSUME BigEnough, MemInv, UserTyped, TakenInOrder, MemNext
  PROVE  TakenInOrder'
  <1>1. pc \in 0 .. 28 /\ PageSize = 4096 /\ NPages \in Nat /\ NPages >= 23
    BY DEF UserTyped, BigEnough
  <1>2. Len(BootCalls) = 27
    BY BootCallsListed
  <1>3. ASSUME pc \in 1 .. 27, pc' = pc + 1, bitmap' = bitmap, Taken[pc + 1] = Taken[pc]
        PROVE  TakenInOrder'
    BY <1>3 DEF TakenInOrder
  <1>4. ASSUME NEW size \in Nat, NEW base \in Res0(PagesFor(size)), Kmalloc(size, base),
               pc \in 1 .. 26, pc' = pc + 1, Taken[pc + 1] = Taken[pc] + PagesFor(size),
               PagesFor(size) \in Nat
        PROVE  TakenInOrder'
    <2>1. /\ Taken[pc] \in Nat /\ Taken[pc + 1] \in 0 .. 23 /\ bitmap = 0 .. Taken[pc] - 1
          /\ pc + 1 \in Nat
      <3>1. pc \in 1 .. 27 /\ pc \in 1 .. 28 /\ pc + 1 \in 1 .. 28 /\ pc + 1 \in Nat
        BY <1>4
      <3>2. Taken[pc] \in 0 .. 23 /\ Taken[pc + 1] \in 0 .. 23
        BY <3>1, TakenSteps
      <3>3. bitmap = 0 .. Taken[pc] - 1
        BY <3>1 DEF TakenInOrder
      <3>4. Taken[pc] \in Nat
        BY <3>2
      <3>5. QED
        BY <3>1, <3>2, <3>3, <3>4
    <2>2. Taken[pc] + PagesFor(size) <= NPages
      <3>1. Taken[pc + 1] <= 23
        <4>1. \A n \in 0 .. 23 : n <= 23
          OBVIOUS
        <4>2. QED
          BY <2>1, <4>1
      <3>2. Taken[pc] + PagesFor(size) <= 23
        BY <1>4, <3>1
      <3>3. PICK n \in Nat : n = Taken[pc] + PagesFor(size)
        BY <1>4, <2>1
      <3>4. n <= NPages
        BY <1>1, <3>2, <3>3
      <3>5. QED
        BY <3>3, <3>4
    <2>3. bitmap' = 0 .. (Taken[pc] + PagesFor(size)) - 1
      BY <1>4, <2>1, <2>2, NextPages
    <2>4. bitmap' = 0 .. Taken[pc'] - 1
      BY <1>4, <2>1, <2>3
    <2>5. pc' # 0
      BY <1>4
    <2>6. QED
      BY <2>4, <2>5 DEF TakenInOrder
  <1>5. CASE MmuInit
    BY <1>5, TakenSteps DEF MmuInit, vars, TakenInOrder
  <1>6. CASE AddVirtioPage
    <2>1. pc \in 1 .. 27 /\ pc' = pc + 1 /\ BootCalls[pc].call = "add_virtio_page"
          /\ bitmap' = bitmap
      BY <1>1, <1>2, <1>6 DEF AddVirtioPage, Now, Booted, vars
    <2>2. pc = 9
      BY <2>1, CallNamed
    <2>3. QED
      BY <1>3, <2>1, <2>2, TakenSteps
  <1>7. CASE BootAlloc
    <2>1. pc \in 1 .. 27 /\ pc' = pc + 1 /\ BootCalls[pc].call = "kmalloc"
      BY <1>1, <1>2, <1>7 DEF BootAlloc, Now, Booted
    <2>2. PICK base \in Res0(PagesFor(BootCalls[pc].size)) : Kmalloc(BootCalls[pc].size, base)
      BY <1>7 DEF BootAlloc
    <2>3. /\ BootCalls[pc].size \in Nat /\ pc \in 1 .. 26
          /\ PagesFor(BootCalls[pc].size) \in Nat
          /\ Taken[pc + 1] = Taken[pc] + PagesFor(BootCalls[pc].size)
      <3>1. /\ BootCalls[pc].size \in Nat
            /\ \/ pc = 1 /\ PagesFor(BootCalls[pc].size) = 4
               \/ /\ pc \in (2 .. 8) \cup (10 .. 15) \cup {18, 19, 20, 24, 25, 26}
                  /\ PagesFor(BootCalls[pc].size) = 1
        BY <1>1, <2>1, WhichAlloc
      <3>2. QED
        BY <3>1, TakenSteps
    <2>4. QED
      BY <1>4, <2>1, <2>2, <2>3
  <1>8. ASSUME NEW t \in Tasks, LibraryStep(t) \/ EntryStep(t)
        PROVE  TakenInOrder'
    <2>1. pc \in {16, 17, 21, 22, 23, 27} /\ pc' = pc + 1 /\ bitmap' = bitmap
      <3>1. t = 1 \/ t = 2
        BY DEF Tasks
      <3>2. CASE LibraryStep(t)
        <4>1. pc \in {10 + 6 * t, 11 + 6 * t} /\ pc' = pc + 1 /\ bitmap' = bitmap
          BY <3>2 DEF LibraryStep, vars
        <4>2. QED
          BY <3>1, <4>1
      <3>3. CASE EntryStep(t)
        <4>1. pc = 15 + 6 * t /\ pc' = pc + 1 /\ bitmap' = bitmap
          BY <3>3 DEF EntryStep, EntryCall, vars
        <4>2. QED
          BY <3>1, <4>1
      <3>4. QED
        BY <1>8, <3>2, <3>3
    <2>2. QED
      BY <1>3, <2>1, TakenSteps
  <1>9. ASSUME NEW t \in Tasks, NEW base \in Res0(PagesFor(PageSize)), StackStep(t, base)
        PROVE  TakenInOrder'
    <2>1. pc \in {20, 26} /\ pc' = pc + 1 /\ Kmalloc(PageSize, base)
      BY <1>9 DEF StackStep, StackCall, Tasks
    <2>2. PagesFor(PageSize) = 1
      BY <1>1, BootSizes
    <2>3. Taken[pc + 1] = Taken[pc] + 1
      BY <2>1, TakenSteps
    <2>4. pc \in 1 .. 26 /\ PageSize \in Nat
      BY <1>1, <2>1
    <2>5. QED
      BY <1>4, <2>1, <2>2, <2>3, <2>4
  <1>10. CASE RunAlloc
    <2>1. pc = 28 /\ pc' = pc
      BY <1>1, <1>2, <1>10 DEF RunAlloc, Booted, boot
    <2>2. QED
      BY <2>1 DEF TakenInOrder
  <1>11. QED
    BY <1>5, <1>6, <1>7, <1>8, <1>9, <1>10, UserStep

\* Nothing is taken before boot.
LEMMA TakenInit == MemInit => TakenInOrder
  <1>1. MemInit => bitmap = {} /\ pc = 0
    BY DEF MemInit, Init
  <1>2. 0 .. 0 - 1 = {}
    OBVIOUS
  <1>3. QED
    BY <1>1, <1>2 DEF TakenInOrder

-----------------------------------------------------------------------------
(* The programs' text and stack, side by side in one level 3 table.        *)

\* A program finds page a, executable, under its physical address.
Finds(t, a) ==
    /\ L1Index(a) \in utab[t].l1 /\ L2Index(a) \in utab[t].l2
    /\ L3Index(a) \in DOMAIN utab[t].l3
    /\ utab[t].l3[L3Index(a)] = [page |-> a, uxn |-> FALSE]

\* The pages mapped for a program's own code.
Text(t) == EntryPage(t) .. EntryPage(t) + TextPages - 1

\* The page boot takes for a program's stack: the 20th and the 23rd of the pool.
StackPage(t) == PoolBase + 16 + 3 * t

\* A program finds its stack and its text from the calls on that map them.
ProgramsMapped ==
    \A t \in Tasks :
        /\ pc > StackCall(t) => ustack[t] = StackPage(t) /\ Finds(t, StackPage(t))
        /\ pc > EntryCall(t) => \A a \in Text(t) : Finds(t, a)

\* The code mapped for a program ends below the first stack's entry.
CodeSized ==
    /\ BigEnough /\ TableEntries = 512
    /\ \A r \in EntryPages : r + TextPages <= 19

\* The entries of text and stacks are apart, and text is within one region.
LEMMA Indices ==
  ASSUME CodeSized, UserTyped, NEW u \in Tasks
  PROVE  /\ EntryPage(u) \in Nat
         /\ \A a \in Text(u) : /\ a \in Nat /\ L1Index(a) = L1Index(EntryPage(u))
                               /\ L2Index(a) = L2Index(EntryPage(u))
                               /\ L3Index(a) = a - KernelText
         /\ \A t \in Tasks : StackPage(t) \in Nat /\ L3Index(StackPage(t)) = 16 + 3 * t
         /\ \A a \in Text(u), t \in Tasks : L3Index(a) # L3Index(StackPage(t))
  <1>1. /\ TextPages \in Nat /\ TableEntries = 512 /\ KernelText = 524288
        /\ PoolBase = 786432
    BY SMT, MemoryAssumption DEF CodeSized, KernelText, PoolBase
  <1>2. PICK r \in EntryPages : r = layout.entry[u]
    BY DEF UserTyped
  <1>3. r \in Nat /\ r + TextPages <= 19 /\ EntryPage(u) = 524288 + r
    BY <1>1, <1>2, MemoryAssumption DEF CodeSized, EntryPage
  <1>4. EntryPage(u) \in 524288 .. 524307
    BY SMT, <1>1, <1>3
  <1>5. ASSUME NEW a \in Text(u)
        PROVE  a \in 524288 .. 524306
    BY SMT, <1>1, <1>3 DEF Text
  <1>6. \A a \in 524288 .. 524307 : /\ (a \div 262144) % 512 = 2
                                    /\ (a \div 512) % 512 = 0
                                    /\ a % 512 = a - 524288
    BY SMT
  <1>7. TableEntries * TableEntries = 262144
    BY SMT, <1>1
  <1>8. \A a \in 524288 .. 524307 : /\ L1Index(a) = 2 /\ L2Index(a) = 0
                                    /\ L3Index(a) = a - KernelText
    BY SMT, <1>1, <1>6, <1>7 DEF L1Index, L2Index, L3Index
  <1>9. ASSUME NEW t \in Tasks
        PROVE  /\ StackPage(t) \in Nat /\ L3Index(StackPage(t)) = 16 + 3 * t
               /\ 16 + 3 * t >= 19
    BY SMT, <1>1 DEF StackPage, L3Index, Tasks
  <1>10. ASSUME NEW a \in Text(u), NEW t \in Tasks
         PROVE  L3Index(a) # L3Index(StackPage(t))
    <2>1. L3Index(a) = a - 524288 /\ a \in 524288 .. 524306
      BY SMT, <1>1, <1>5, <1>8
    <2>2. L3Index(StackPage(t)) = 16 + 3 * t /\ t \in Nat /\ 16 + 3 * t >= 19
      BY SMT, <1>9 DEF Tasks
    <2>3. QED
      BY SMT, <2>1, <2>2
  <1>11. ASSUME NEW a \in Text(u)
         PROVE  /\ a \in Nat /\ L1Index(a) = L1Index(EntryPage(u))
                /\ L2Index(a) = L2Index(EntryPage(u)) /\ L3Index(a) = a - KernelText
    <2>1. a \in 524288 .. 524307
      BY SMT, <1>5
    <2>2. QED
      BY <1>4, <1>8, <2>1
  <1>12. EntryPage(u) \in Nat
    BY SMT, <1>4
  <1>13. QED
    BY <1>9, <1>10, <1>11, <1>12

\* A program finds the pages just mapped for it, if no two share an entry.
LEMMA MapUserFinds ==
  ASSUME DOMAIN utab = Tasks, NEW id \in Tasks, NEW a \in Nat, NEW count \in Nat,
         MapUser(id, a, count, FALSE), NEW b \in a .. a + count - 1,
         L1Index(b) = L1Index(a), L2Index(b) = L2Index(a),
         \A c \in a .. a + count - 1 : L3Index(c) = L3Index(b) => c = b
  PROVE  Finds(id, b)'
  <1>1. PICK upper : upper = FALSE
    OBVIOUS
  <1>2. MapUser(id, a, count, upper)
    BY <1>1
  <1>3. /\ utab'[id].l1 = utab[id].l1 \cup {L1Index(a)}
        /\ utab'[id].l2 = utab[id].l2 \cup {L2Index(a)}
        /\ L3Index(b) \in DOMAIN utab'[id].l3
    BY <1>2, MapUserEffect
  <1>4. \A k \in DOMAIN utab'[id].l3 :
           \/ \E c \in a .. a + count - 1 :
                 L3Index(c) = k /\ utab'[id].l3[k] = [page |-> c, uxn |-> upper]
           \/ \A c \in a .. a + count - 1 : L3Index(c) # k
    <2>1. MappedOver(id, a, count, upper)
      BY <1>2, MapUserEffect
    <2>2. QED
      BY <2>1, Zenon DEF MappedOver
  <1>5. utab'[id].l3[L3Index(b)] = [page |-> b, uxn |-> upper]
    BY <1>3, <1>4
  <1>6. QED
    BY <1>1, <1>3, <1>5 DEF Finds

\* It keeps finding a page whose entry the new pages leave alone.
LEMMA MapUserKeeps ==
  ASSUME DOMAIN utab = Tasks, NEW id \in Tasks, NEW a \in Nat, NEW count \in Nat,
         MapUser(id, a, count, FALSE), NEW b, Finds(id, b),
         \A c \in a .. a + count - 1 : L3Index(c) # L3Index(b)
  PROVE  Finds(id, b)'
  <1>1. PICK upper : upper = FALSE
    OBVIOUS
  <1>2. MapUser(id, a, count, upper)
    BY <1>1
  <1>3. /\ utab'[id].l1 = utab[id].l1 \cup {L1Index(a)}
        /\ utab'[id].l2 = utab[id].l2 \cup {L2Index(a)}
        /\ \A k \in DOMAIN utab[id].l3 : k \in DOMAIN utab'[id].l3
    BY <1>2, MapUserEffect
  <1>4. \A k \in DOMAIN utab'[id].l3 :
           \/ \E c \in a .. a + count - 1 : L3Index(c) = k
           \/ utab'[id].l3[k] = utab[id].l3[k]
    <2>1. MappedOver(id, a, count, upper)
      BY <1>2, MapUserEffect
    <2>2. QED
      BY <2>1, Zenon DEF MappedOver
  <1>5. L3Index(b) \in DOMAIN utab'[id].l3
    BY <1>3 DEF Finds
  <1>6. utab'[id].l3[L3Index(b)] = utab[id].l3[L3Index(b)]
    BY <1>4, <1>5
  <1>7. QED
    BY <1>3, <1>5, <1>6 DEF Finds

\* No step takes text or stack from a program.
LEMMA MappedKept ==
  ASSUME CodeSized, UserInv, TakenInOrder, ProgramsMapped, MemNext
  PROVE  ProgramsMapped'
  <1>1. /\ MemInv /\ UserTyped /\ pc \in Nat /\ DOMAIN utab = Tasks /\ DOMAIN ustack = Tasks
        /\ TextPages \in Nat
    BY MemoryAssumption DEF UserInv, UserTyped
  <1>9. \A t \in Tasks : Text(t)' = Text(t)
    BY <1>1, UserStep DEF Text, EntryPage
  <1>2. CASE ElsewhereStep
    <2>1. \A t \in Tasks : /\ pc' > StackCall(t) => pc > StackCall(t)
                           /\ pc' > EntryCall(t) => pc > EntryCall(t)
      BY <1>1, <1>2, CallOrder DEF ElsewhereStep
    <2>2. utab' = utab /\ ustack' = ustack
      BY <1>2 DEF ElsewhereStep
    <2>3. QED
      BY <1>9, <2>1, <2>2 DEF ProgramsMapped, Finds
  <1>3. ASSUME NEW t \in Tasks, utab'[t] = utab[t], ustack'[t] = ustack[t],
               pc' > StackCall(t) => pc > StackCall(t), pc' > EntryCall(t) => pc > EntryCall(t)
        PROVE  /\ pc' > StackCall(t) => /\ ustack'[t] = StackPage(t)
                                        /\ Finds(t, StackPage(t))'
               /\ pc' > EntryCall(t) => \A a \in Text(t) : Finds(t, a)'
    BY <1>3 DEF ProgramsMapped, Finds
  <1>4. ASSUME NEW u \in Tasks, LibraryStep(u) \/ EntryStep(u), NEW t \in Tasks, t # u
        PROVE  /\ utab'[t] = utab[t] /\ ustack'[t] = ustack[t]
               /\ pc' > StackCall(t) => pc > StackCall(t)
               /\ pc' > EntryCall(t) => pc > EntryCall(t)
    <2>1. PICK a \in Nat : \E upper : MapUser(u, a, TextPages, upper)
      BY <1>1, <1>4, LibraryMaps
    <2>2. \A v \in Tasks \ {u} : utab'[v] = utab[v]
      BY <1>1, <2>1, MapUserPages
    <2>3. /\ ustack' = ustack /\ pc' = pc + 1
          /\ pc \in {10 + 6 * u, 11 + 6 * u, EntryCall(u)}
      BY <1>4 DEF LibraryStep, EntryStep
    <2>4. pc # StackCall(t) /\ pc # EntryCall(t)
      BY <1>4, <2>3, CallOrder
    <2>5. QED
      BY <1>1, <1>4, <2>2, <2>3, <2>4, CallOrder
  <1>5. ASSUME NEW u \in Tasks, LibraryStep(u)
        PROVE  ProgramsMapped'
    <2>1. ~(pc' > StackCall(u)) /\ ~(pc' > EntryCall(u))
      BY <1>1, <1>5, CallOrder DEF LibraryStep
    <2>2. ASSUME NEW t \in Tasks
          PROVE  /\ pc' > StackCall(t) => /\ ustack'[t] = StackPage(t)
                                          /\ Finds(t, StackPage(t))'
                 /\ pc' > EntryCall(t) => \A a \in Text(t) : Finds(t, a)'
      BY <1>3, <1>4, <1>5, <2>1
    <2>3. QED
      BY <1>9, <2>2 DEF ProgramsMapped
  <1>6. ASSUME NEW u \in Tasks, EntryStep(u)
        PROVE  ProgramsMapped'
    <2>1. /\ ustack' = ustack /\ pc' = pc + 1 /\ pc = EntryCall(u) /\ pc > StackCall(u)
          /\ MapUser(u, EntryPage(u), TextPages, FALSE)
      <3>1. /\ ustack' = ustack /\ pc' = pc + 1 /\ pc = EntryCall(u)
            /\ MapUser(u, EntryPage(u), TextPages, FALSE)
        BY <1>6 DEF EntryStep
      <3>2. pc > StackCall(u)
        BY <3>1, CallOrder
      <3>3. QED
        BY <3>1, <3>2
    <2>2. ustack[u] = StackPage(u) /\ Finds(u, StackPage(u))
      BY <2>1 DEF ProgramsMapped
    <2>3. /\ EntryPage(u) \in Nat /\ Text(u) = EntryPage(u) .. EntryPage(u) + TextPages - 1
          /\ KernelText \in Nat
      BY <1>1, Indices DEF KernelText, Text
    <2>4. Finds(u, StackPage(u))'
      <3>1. \A c \in EntryPage(u) .. EntryPage(u) + TextPages - 1 :
               L3Index(c) # L3Index(StackPage(u))
        BY <1>1, <2>3, Indices
      <3>2. QED
        BY <1>1, <2>1, <2>2, <2>3, <3>1, MapUserKeeps
    <2>5. ASSUME NEW a \in Text(u)
          PROVE  Finds(u, a)'
      <3>1. L1Index(a) = L1Index(EntryPage(u)) /\ L2Index(a) = L2Index(EntryPage(u))
        BY <1>1, Indices
      <3>2. \A c \in Text(u) : L3Index(c) = L3Index(a) => c = a
        <4>1. \A c \in Text(u) : L3Index(c) = c - KernelText /\ c \in Nat
          BY <1>1, Indices
        <4>2. QED
          BY <2>3, <4>1
      <3>3. QED
        BY <1>1, <2>1, <2>3, <3>1, <3>2, MapUserFinds
    <2>6. ASSUME NEW t \in Tasks
          PROVE  /\ pc' > StackCall(t) => /\ ustack'[t] = StackPage(t)
                                          /\ Finds(t, StackPage(t))'
                 /\ pc' > EntryCall(t) => \A a \in Text(t) : Finds(t, a)'
      <3>1. CASE t = u
        BY <2>1, <2>2, <2>4, <2>5, <3>1
      <3>2. CASE t # u
        BY <1>3, <1>4, <1>6, <3>2
      <3>3. QED
        BY <3>1, <3>2
    <2>7. QED
      BY <1>9, <2>6 DEF ProgramsMapped
  <1>7. ASSUME NEW u \in Tasks, NEW base \in Res0(PagesFor(PageSize)), StackStep(u, base)
        PROVE  ProgramsMapped'
    <2>1. /\ pc = StackCall(u) /\ pc' = pc + 1 /\ Kmalloc(PageSize, base)
          /\ MapUser(u, PoolBase + base, 1, FALSE)
          /\ ustack' = [ustack EXCEPT ![u] = PoolBase + base]
      BY <1>7 DEF StackStep
    <2>2. PoolBase + base = StackPage(u) /\ StackPage(u) \in Nat
      <3>1. pc \in {20, 26} /\ Taken[pc] = 13 + 3 * u + 3
        BY <2>1, TakenSteps DEF StackCall, Tasks
      <3>2. PICK m \in Nat : m = Taken[pc] /\ m = 16 + 3 * u /\ m <= 22
        BY <3>1, TakenSteps DEF Tasks
      <3>3. bitmap = 0 .. m - 1
        BY <3>1, <3>2 DEF TakenInOrder
      <3>4. PageSize = 4096 /\ NPages \in Nat /\ NPages >= 23
        BY PageAllocAssumption DEF CodeSized, BigEnough
      <3>5. PagesFor(PageSize) = 1 /\ PageSize \in Nat
        BY <3>4, BootSizes
      <3>6. m + PagesFor(PageSize) <= NPages
        BY <3>2, <3>4, <3>5
      <3>7. base = m
        BY <1>1, <1>7, <2>1, <3>3, <3>5, <3>6, NextPages
      <3>8. QED
        BY <3>2, <3>7 DEF StackPage, PoolBase, Tasks
    <2>3. MapUser(u, StackPage(u), 1, FALSE) /\ ustack'[u] = StackPage(u)
          /\ \A t \in Tasks \ {u} : ustack'[t] = ustack[t]
      BY <1>1, <2>1, <2>2
    <2>4. Finds(u, StackPage(u))'
      <3>1. \A b \in StackPage(u) .. StackPage(u) + 1 - 1 : b = StackPage(u)
        BY <2>2
      <3>2. StackPage(u) \in StackPage(u) .. StackPage(u) + 1 - 1
        BY <2>2
      <3>3. QED
        BY <1>1, <2>2, <2>3, <3>1, <3>2, MapUserFinds
    <2>5. \A t \in Tasks \ {u} : utab'[t] = utab[t]
      BY <1>1, <2>2, <2>3, MapUserPages
    <2>6. ~(pc' > EntryCall(u))
      BY <1>1, <2>1, CallOrder
    <2>7. ASSUME NEW t \in Tasks
          PROVE  /\ pc' > StackCall(t) => /\ ustack'[t] = StackPage(t)
                                          /\ Finds(t, StackPage(t))'
                 /\ pc' > EntryCall(t) => \A a \in Text(t) : Finds(t, a)'
      <3>1. CASE t = u
        BY <2>3, <2>4, <2>6, <3>1
      <3>2. CASE t # u
        <4>1. /\ pc' > StackCall(t) => pc > StackCall(t)
              /\ pc' > EntryCall(t) => pc > EntryCall(t)
          BY <1>1, <2>1, <3>2, CallOrder
        <4>2. QED
          BY <1>3, <2>3, <2>5, <3>2, <4>1
      <3>3. QED
        BY <3>1, <3>2
    <2>8. QED
      BY <1>9, <2>7 DEF ProgramsMapped
  <1>8. QED
    BY <1>1, <1>2, <1>5, <1>6, <1>7, UserStep

\* Boot takes its pages in order and maps the programs on the way.
LEMMA MappedInvariant ==
  ASSUME CodeSized
  PROVE  MemSpec => [](UserInv /\ TakenInOrder /\ ProgramsMapped)
  <1>1. MemInit => ProgramsMapped
    <2>1. \A t \in Tasks : ~(0 > StackCall(t)) /\ ~(0 > EntryCall(t))
      BY CallOrder
    <2>2. QED
      BY <2>1 DEF MemInit, ProgramsMapped
  <1>2. ASSUME UserInv, TakenInOrder, ProgramsMapped, [MemNext]_mvars
        PROVE  (UserInv /\ TakenInOrder /\ ProgramsMapped)'
    <2>1. CASE MemNext
      <3>1. UserInv'
        BY <1>2, UserStepInvariant
      <3>2. TakenInOrder'
        BY <1>2, <2>1, TakenKept DEF UserInv, CodeSized
      <3>3. ProgramsMapped'
        BY <1>2, <2>1, MappedKept
      <3>4. QED
        BY <3>1, <3>2, <3>3
    <2>2. CASE UNCHANGED mvars
      <3>1. UserInv'
        BY <1>2, UserStepInvariant
      <3>2. bitmap' = bitmap /\ pc' = pc /\ UNCHANGED <<utab, ustack, layout>>
        BY <2>2 DEF mvars, vars, boot
      <3>3. TakenInOrder' /\ ProgramsMapped'
        BY <1>2, <3>2 DEF TakenInOrder, ProgramsMapped, Finds, Text, EntryPage
      <3>4. QED
        BY <3>1, <3>3
    <2>3. QED
      BY <1>2, <2>1, <2>2
  <1>3. QED
    BY <1>1, <1>2, UserInitInvariant, TakenInit, PTL DEF MemSpec

\* With the code's page and table sizes, a pool of at least the 23 pages boot takes
\* and entries whose ten pages end within the first 19 of the kernel, both programs
\* find those pages and their stack, executable, once boot is done (init_task,
\* map_user_to_physical), wherever in there the entries lie and wherever below the
\* pool the functions mapped before do: the stacks' descriptors lie clear of the
\* entries' in the level 3 table they share.
THEOREM ProgramsFindTheirPages ==
  ASSUME CodeSized
  PROVE  MemSpec => []ProgramsAreMapped
  <1>1. UserInv /\ ProgramsMapped => ProgramsAreMapped
    <2> SUFFICES ASSUME UserInv, ProgramsMapped, Booted, NEW t \in Tasks
                 PROVE  /\ \A a \in Text(t) : UserTranslate(t, a) = {[page |-> a, uxn |-> FALSE]}
                        /\ UserTranslate(t, ustack[t]) = {[page |-> ustack[t], uxn |-> FALSE]}
      BY DEF ProgramsAreMapped, Text
    <2>1. pc > StackCall(t) /\ pc > EntryCall(t)
      <3>1. pc \in 0 .. 28 /\ pc > 27
        BY BootCallsListed DEF UserInv, UserTyped, Booted
      <3>2. QED
        BY <3>1 DEF Tasks, StackCall, EntryCall
    <2>2. \A a : Finds(t, a) => UserTranslate(t, a) = {[page |-> a, uxn |-> FALSE]}
      BY DEF Finds, UserTranslate
    <2>3. QED
      BY <2>1, <2>2 DEF ProgramsMapped
  <1>2. QED
    BY <1>1, MappedInvariant, PTL

-----------------------------------------------------------------------------
(* The kernel's windows.                                                   *)

\* Of the blocks for one index the last one stays, and other indices keep theirs.
LEMMA SetBlocksEffect ==
  ASSUME NEW blocks, DOMAIN blocks \subseteq Nat, SetBlocks(blocks)
  PROVE  /\ \A n \in DOMAIN blocks :
               (\A m \in DOMAIN blocks : m > n => L2Index(blocks[m][1]) # L2Index(blocks[n][1]))
               => /\ L2Index(blocks[n][1]) \in DOMAIN kl2'
                  /\ kl2'[L2Index(blocks[n][1])] = blocks[n][2]
         /\ \A i \in DOMAIN kl2 :
               (\A n \in DOMAIN blocks : L2Index(blocks[n][1]) # i)
               => i \in DOMAIN kl2' /\ kl2'[i] = kl2[i]
  <1> DEFINE I == {L2Index(blocks[n][1]) : n \in DOMAIN blocks}
             S(i) == {n \in DOMAIN blocks : L2Index(blocks[n][1]) = i}
             entries == [i \in I |-> blocks[Max(S(i))][2]]
  <1>1. kl2' = set_table_entries(kl2, entries)
    BY DEF SetBlocks
  <1>2. DOMAIN entries = I /\ \A i \in I : entries[i] = blocks[Max(S(i))][2]
    OBVIOUS
  <1> HIDE DEF entries
  <1>3. DOMAIN kl2' = DOMAIN kl2 \cup I
    BY <1>1, <1>2 DEF set_table_entries
  <1>4. \A i \in DOMAIN kl2' : kl2'[i] = IF i \in I THEN entries[i] ELSE kl2[i]
    BY <1>1, <1>2 DEF set_table_entries
  <1>5. ASSUME NEW n \in DOMAIN blocks,
               \A m \in DOMAIN blocks : m > n => L2Index(blocks[m][1]) # L2Index(blocks[n][1])
        PROVE  /\ L2Index(blocks[n][1]) \in DOMAIN kl2'
               /\ kl2'[L2Index(blocks[n][1])] = blocks[n][2]
    <2>1. PICK i : i = L2Index(blocks[n][1])
      OBVIOUS
    <2>2. i \in I /\ i \in DOMAIN kl2'
      BY <1>3, <2>1
    <2>3. n \in S(i) /\ \A m \in S(i) : m \in Nat /\ ~(m > n)
      BY <1>5, <2>1
    <2>4. Max(S(i)) = n
      <3>1. \A x \in S(i) : (\A y \in S(i) : x >= y) <=> x = n
        BY <2>3
      <3> HIDE DEF S
      <3>2. QED
        BY <2>3, <3>1 DEF Max
    <2>5. kl2'[i] = blocks[n][2]
      BY <1>2, <1>4, <2>2, <2>4
    <2>6. QED
      BY <2>1, <2>2, <2>5
  <1>6. ASSUME NEW i \in DOMAIN kl2, \A n \in DOMAIN blocks : L2Index(blocks[n][1]) # i
        PROVE  i \in DOMAIN kl2' /\ kl2'[i] = kl2[i]
    <2>1. i \notin I
      BY <1>6
    <2>2. QED
      BY <1>3, <1>4, <2>1
  <1>7. QED
    BY <1>5, <1>6

\* The block at index i of the kernel's level 2 table starts in the region of page p.
BlockAt(i, p) == i \in DOMAIN kl2 /\ kl2[i] = p

\* From mmu_init on the kernel, the device tree, the devices and the tables have
\* their blocks; from add_virtio_page on the transports have theirs.
BlocksInPlace ==
    /\ pc > 0 => /\ BlockAt(0, \h8008E) /\ BlockAt(5, \h80A00) /\ BlockAt(10, \h08000)
                 /\ BlockAt(18, \h09000) /\ BlockAt(42, \h40000)
    /\ pc > 9 => BlockAt(50, layout.reg)

\* The architecture's table size, and the transports where the board has them.
BoardSized == TableEntries = 512 /\ VirtioRegs \subseteq \h0A000 .. \h0A1FF

\* The index of each window.
LEMMA WindowIndices ==
  ASSUME BoardSized
  PROVE  /\ L2Index(\h80000) = 0 /\ L2Index(\h82400) = 18 /\ L2Index(\h80A00) = 5
         /\ L2Index(\h81400) = 10 /\ L2Index(\h85400) = 42 /\ L2Index(\h801F0) = 0
         /\ L2Index(\h8008E) = 0 /\ L2Index(VirtioWindow) = 50
  BY SMT DEF BoardSized, L2Index, VirtioWindow

\* mmu_init sets them.
LEMMA MmuInitBlocks ==
  ASSUME BoardSized, MmuInit
  PROVE  BlocksInPlace'
  <1>1. PICK blocks : blocks = KernelBlocks
    BY SMT
  <1>2. /\ DOMAIN blocks = 1 .. 8
        /\ blocks[1][1] = \h80000 /\ blocks[2][1] = \h80000
        /\ blocks[3] = <<\h82400, \h09000>> /\ blocks[4] = <<\h80A00, \h80A00>>
        /\ blocks[5] = <<\h81400, \h08000>> /\ blocks[6] = <<\h85400, \h40000>>
        /\ blocks[7][1] = \h801F0 /\ blocks[8] = <<\h8008E, \h8008E>>
    BY SMT, <1>1 DEF KernelBlocks
  <1>3. /\ L2Index(blocks[3][1]) = 18 /\ L2Index(blocks[4][1]) = 5
        /\ L2Index(blocks[5][1]) = 10 /\ L2Index(blocks[6][1]) = 42
        /\ L2Index(blocks[7][1]) = 0 /\ L2Index(blocks[8][1]) = 0
    BY SMT, <1>2, WindowIndices
  <1>4. \A m \in DOMAIN blocks : m \in {1, 2, 3, 4, 5, 6, 7, 8}
    BY SMT, <1>2
  <1>5. SetBlocks(blocks) /\ pc' = 1 /\ DOMAIN blocks \subseteq Nat
    BY SMT, <1>1, <1>2 DEF MmuInit
  <1>6. \A n \in {3, 4, 5, 6, 8} : \A m \in DOMAIN blocks :
           m > n => L2Index(blocks[m][1]) # L2Index(blocks[n][1])
    BY SMT, <1>3, <1>4
  <1>7. \A n \in {3, 4, 5, 6, 8} : /\ L2Index(blocks[n][1]) \in DOMAIN kl2'
                                   /\ kl2'[L2Index(blocks[n][1])] = blocks[n][2]
    <2>1. \A n \in DOMAIN blocks :
             (\A m \in DOMAIN blocks : m > n => L2Index(blocks[m][1]) # L2Index(blocks[n][1]))
             => /\ L2Index(blocks[n][1]) \in DOMAIN kl2'
                /\ kl2'[L2Index(blocks[n][1])] = blocks[n][2]
      BY SMT, <1>5, SetBlocksEffect
    <2>2. \A n \in {3, 4, 5, 6, 8} : n \in DOMAIN blocks
      BY SMT, <1>2
    <2>3. QED
      BY SMT, <1>6, <2>1, <2>2
  <1>8. /\ blocks[3][2] = \h09000 /\ blocks[4][2] = \h80A00 /\ blocks[5][2] = \h08000
        /\ blocks[6][2] = \h40000 /\ blocks[8][2] = \h8008E
    BY SMT, <1>2
  <1>9. ~(pc' > 9)
    BY SMT, <1>5
  <1>10. QED
    BY SMT, <1>3, <1>7, <1>8, <1>9 DEF BlocksInPlace, BlockAt

\* add_virtio_page adds one and leaves the others.
LEMMA AddVirtioPageBlocks ==
  ASSUME BoardSized, BlocksInPlace, UserTyped, AddVirtioPage
  PROVE  BlocksInPlace'
  <1>1. PICK blocks : blocks = << <<VirtioWindow, layout.reg>> >>
    OBVIOUS
  <1>2. /\ DOMAIN blocks = {1} /\ blocks[1][1] = VirtioWindow /\ blocks[1][2] = layout.reg
        /\ L2Index(blocks[1][1]) = 50
    BY SMT, <1>1, WindowIndices
  <1>3. SetBlocks(blocks) /\ layout' = layout /\ pc \in Nat /\ pc > 0 /\ pc' = pc + 1
    BY SMT, <1>1 DEF AddVirtioPage, Now, UserTyped
  <1>4. 50 \in DOMAIN kl2' /\ kl2'[50] = layout.reg
    BY SMT, <1>2, <1>3, SetBlocksEffect
  <1>5. \A i \in DOMAIN kl2 : i # 50 => i \in DOMAIN kl2' /\ kl2'[i] = kl2[i]
    BY SMT, <1>2, <1>3, SetBlocksEffect
  <1>6. \A i \in {0, 5, 10, 18, 42} : \A p : BlockAt(i, p) => BlockAt(i, p)'
    BY SMT, <1>5 DEF BlockAt
  <1>7. BlockAt(50, layout.reg)'
    BY SMT, <1>3, <1>4 DEF BlockAt
  <1>8. QED
    BY SMT, <1>3, <1>6, <1>7 DEF BlocksInPlace

\* No other step touches the table.
LEMMA BlocksKept ==
  ASSUME BoardSized, BlocksInPlace, UserTyped, MemNext
  PROVE  BlocksInPlace'
  <1>1. ASSUME NEW name, Now(name), name # "add_virtio_page"
        PROVE  pc \in 1 .. 27 /\ pc' = pc + 1 /\ pc # 9
    <2>1. pc \in 1 .. 27 /\ pc' = pc + 1 /\ BootCalls[pc].call = name
      BY SMT, <1>1, BootCallsListed DEF Now, Booted, UserTyped
    <2>2. BootCalls[9].call = "add_virtio_page"
      BY SMT, BootCallsListed DEF Call
    <2>3. QED
      BY SMT, <1>1, <2>1, <2>2
  <1>2. ASSUME kl2' = kl2, layout' = layout, pc \in Nat,
               pc' = pc \/ (pc # 9 /\ pc > 0 /\ pc' = pc + 1)
        PROVE  BlocksInPlace'
    BY SMT, <1>2 DEF BlocksInPlace, BlockAt
  <1>3. CASE MmuInit
    BY SMT, <1>3, MmuInitBlocks
  <1>4. CASE AddVirtioPage
    BY SMT, <1>4, AddVirtioPageBlocks
  <1>5. CASE RunAlloc
    BY SMT, <1>2, <1>5 DEF RunAlloc, boot, UserTyped
  <1>6. CASE \/ BootAlloc \/ MapLibrary("sys_write") \/ MapLibrary("uart_printf")
             \/ MapUserStack \/ MapEntry
    <2>1. \/ Now("kmalloc") \/ Now("sys_write") \/ Now("uart_printf")
          \/ Now("ustack") \/ Now("entry")
      BY <1>6 DEF BootAlloc, MapLibrary, MapUserStack, MapEntry
    <2>2. kl2' = kl2 /\ layout' = layout
      <3>1. CASE BootAlloc
        BY <3>1 DEF BootAlloc
      <3>2. CASE MapLibrary("sys_write") \/ MapLibrary("uart_printf")
        BY <3>2 DEF MapLibrary
      <3>3. CASE MapUserStack
        BY <3>3 DEF MapUserStack
      <3>4. CASE MapEntry
        BY <3>4 DEF MapEntry
      <3>5. QED
        BY <1>6, <3>1, <3>2, <3>3, <3>4
    <2>3. QED
      BY SMT, <1>1, <1>2, <2>1, <2>2
  <1>7. QED
    BY SMT, <1>3, <1>4, <1>5, <1>6 DEF MemNext

\* What the kernel reaches through a block, from the page the block was given.
LEMMA ThroughBlock ==
  ASSUME BoardSized, NEW i, NEW p \in Nat, BlockAt(i, p), NEW a \in Nat, L2Index(a) = i
  PROVE  KernelTranslate(a) = {p - (p % 512) + (a % 512)}
  BY SMT DEF BoardSized, BlockAt, KernelTranslate, L3Index

\* With the board's addresses and the architecture's tables every window of the
\* kernel leads where it should, whichever transport the device tree lists first
\* (mmu_init, add_virtio_page): no block replaces another that is needed, although
\* four of the blocks fall on one index.
THEOREM WindowsAreRight ==
  ASSUME BoardSized
  PROVE  MemSpec => []WindowsReachTheirDevices
  <1>1. MemInit => BlocksInPlace
    BY SMT DEF MemInit, BlocksInPlace
  <1>2. UserInv /\ BlocksInPlace /\ [MemNext]_mvars => BlocksInPlace'
    <2>1. ASSUME UserInv, BlocksInPlace, MemNext
          PROVE  BlocksInPlace'
      BY SMT, <2>1, BlocksKept DEF UserInv
    <2>2. ASSUME BlocksInPlace, UNCHANGED mvars
          PROVE  BlocksInPlace'
      BY SMT, <2>2 DEF BlocksInPlace, BlockAt, mvars, boot
    <2>3. QED
      BY SMT, <2>1, <2>2
  <1>3. UserInv /\ BlocksInPlace => WindowsReachTheirDevices
    <2> SUFFICES ASSUME UserInv, BlocksInPlace
                 PROVE  WindowsReachTheirDevices
      BY SMT
    <2>1. ASSUME pc > 0, NEW w \in { <<\h80000, \h80000>>, <<\h800C0, \h800C0>>,
                 <<\h801F0, \h801F0>>, <<\h82400, \h09000>>, <<\h81400, \h08000>>,
                 <<\h81410, \h08010>>, <<\h85400, \h40000>>, <<\h80A00, \h80A00>>,
                 <<\h80A90, \h80A90>> }
          PROVE  KernelTranslate(w[1]) = {w[2]}
      <3>1. /\ BlockAt(0, \h8008E) /\ BlockAt(5, \h80A00) /\ BlockAt(10, \h08000)
            /\ BlockAt(18, \h09000) /\ BlockAt(42, \h40000)
        BY SMT, <2>1 DEF BlocksInPlace
      <3>2. /\ L2Index(\h80000) = 0 /\ L2Index(\h800C0) = 0 /\ L2Index(\h801F0) = 0
            /\ L2Index(\h82400) = 18 /\ L2Index(\h81400) = 10 /\ L2Index(\h81410) = 10
            /\ L2Index(\h85400) = 42 /\ L2Index(\h80A00) = 5 /\ L2Index(\h80A90) = 5
        BY SMT DEF BoardSized, L2Index
      <3>3. /\ KernelTranslate(\h80000) = {\h80000} /\ KernelTranslate(\h800C0) = {\h800C0}
            /\ KernelTranslate(\h801F0) = {\h801F0}
        BY SMT, <3>1, <3>2, ThroughBlock
      <3>4. /\ KernelTranslate(\h82400) = {\h09000} /\ KernelTranslate(\h81400) = {\h08000}
            /\ KernelTranslate(\h81410) = {\h08010}
        BY SMT, <3>1, <3>2, ThroughBlock
      <3>5. /\ KernelTranslate(\h85400) = {\h40000} /\ KernelTranslate(\h80A00) = {\h80A00}
            /\ KernelTranslate(\h80A90) = {\h80A90}
        BY SMT, <3>1, <3>2, ThroughBlock
      <3>6. QED
        BY SMT, <3>3, <3>4, <3>5
    <2>2. ASSUME Booted, NEW i \in 0 .. 3
          PROVE  KernelTranslate(VirtioWindow + i) = {\h0A000 + i}
      <3>1. pc > 9 /\ layout.reg \in VirtioRegs
        BY SMT, <2>2, BootCallsListed DEF UserInv, UserTyped, Booted
      <3>2. layout.reg \in \h0A000 .. \h0A1FF
        <4>1. PICK reg : reg = layout.reg
          BY Zenon
        <4>2. \A r \in VirtioRegs : r \in \h0A000 .. \h0A1FF
          BY SMT DEF BoardSized
        <4>3. reg \in VirtioRegs
          BY SMT, <3>1, <4>1
        <4>4. QED
          BY SMT, <4>1, <4>2, <4>3
      <3>3. BlockAt(50, layout.reg)
        BY SMT, <3>1 DEF BlocksInPlace
      <3>4. VirtioWindow + i \in Nat /\ L2Index(VirtioWindow + i) = 50
        BY SMT DEF BoardSized, L2Index, VirtioWindow
      <3>5. \A reg \in Nat : BlockAt(50, reg) =>
               KernelTranslate(VirtioWindow + i)
                  = {reg - (reg % 512) + ((VirtioWindow + i) % 512)}
        BY SMT, <3>4, ThroughBlock
      <3>6. \A reg \in \h0A000 .. \h0A1FF : reg \in Nat /\ reg - (reg % 512) = \h0A000
        BY SMT
      <3>7. (VirtioWindow + i) % 512 = i
        BY SMT DEF VirtioWindow
      <3>8. QED
        BY SMT, <3>2, <3>3, <3>5, <3>6, <3>7
    <2>3. QED
      BY SMT, <2>1, <2>2 DEF WindowsReachTheirDevices
  <1>4. QED
    BY <1>1, <1>2, <1>3, UserInvariant, PTL DEF MemSpec
=============================================================================
