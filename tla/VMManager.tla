----------------------------- MODULE VMManager ------------------------------
(***************************************************************************)
(* The memory manager (VMManager.cpp over PhysicalMemory.cpp), in units of *)
(* pages: the free list, the page frame database, page tables taken from   *)
(* the same free pages, and the virtual memory areas of three regions.     *)
(*                                                                         *)
(* Every call runs under m_CriticalSection and is one step.  Contents and  *)
(* permissions of pages, lock counts and persistence are left out; so is   *)
(* LastFree, which only decides where MapMemoryBlock starts to look: here  *)
(* a block goes to any place the search can end at.  The host's VirtualAlloc *)
(* may refuse a place, which that choice covers, and a refused call        *)
(* changes nothing.                                                        *)
(***************************************************************************)
EXTENDS PhysicalMemory

CONSTANTS
    HighestPage,            \* m_HighestPage
    MaxContiguousPfn,       \* m_MaxContiguousPfn; the instance memory of the NV2A is above
    PtesPerTable,
    PtesUsedWidth,          \* bound: 2^11 in the code, the modulus of PtesUsed
    Granularity,            \* m_AllocationGranularity
    UserFirst, UserLast,    \* virtual pages of the user region
    SystemFirst, SystemLast,
    ContiguousFirst,        \* where physical page 0 is mapped
    Sizes,                  \* bound: pages per request
    Alignments,             \* alignments of contiguous requests
    Ranges,                 \* lowest and highest pages of contiguous requests
    ManyStacks              \* whether the title has more guarded stacks than PtesUsed counts

Pages == 0 .. HighestPage
ContiguousLast == ContiguousFirst + HighestPage
InstanceFirst == MaxContiguousPfn + 1
Regions == {"User", "System", "Contiguous"}
Region(r) == CASE r = "User" -> UserFirst .. UserLast
               [] r = "System" -> SystemFirst .. SystemLast
               [] r = "Contiguous" -> ContiguousFirst .. ContiguousLast
Virtual == UNION {Region(r) : r \in Regions}
Device == HighestPage + 1  \* a frame outside physical memory
None == -1                 \* a zero pte or pde
Types == {"Unknown", "Contiguous", "System", "Virtual", "PageTable"}

Pde(v) == v \div PtesPerTable
Pdes == {Pde(v) : v \in Virtual}

(* The guard pages, in use or gone, that a page table can count besides all its entries:    *)
(* 1023 in the code.                                                                    *)
MaxLeaks == PtesUsedWidth - 1 - PtesPerTable

(* The entries of a page table can all be counted in PtesUsed, the page tables of the whole *)
(* contiguous region fit into the contiguous pages above page 0, and no request is as     *)
(* large as the modulus of page numbers.                                                 *)
ASSUME VMAssumption ==
    /\ {HighestPage, MaxContiguousPfn, PtesUsedWidth, UserFirst, UserLast, SystemFirst,
        SystemLast, ContiguousFirst} \subseteq Nat
    /\ {PtesPerTable, Granularity} \subseteq Nat \ {0}
    /\ MaxContiguousPfn < HighestPage
    /\ UserFirst <= UserLast /\ UserLast < SystemFirst
    /\ SystemFirst <= SystemLast /\ SystemLast < ContiguousFirst
    /\ (SystemLast + 1) % Granularity = 0
    /\ PtesPerTable < PtesUsedWidth
    /\ HighestPage + 1 < Word
    /\ Pde(ContiguousLast) - Pde(ContiguousFirst) < MaxContiguousPfn
    /\ Sizes \cup Alignments \subseteq Nat \ {0}
    /\ Ranges \subseteq Nat \X Nat
    /\ \A n \in Sizes, align \in Alignments : RoundUp(n, align) + HighestPage < Word
    /\ ManyStacks \in BOOLEAN

VARIABLES
    vm,      \* g_VMManager
    broken   \* history: a call worked on pages that do not exist or that it does not own

vars == <<vm, broken>>

(* The model ends with the call that breaks the manager, and with the one that finds no    *)
(* page where it looks at no result.                                                    *)
Running == ~broken /\ ~vm.starved

-----------------------------------------------------------------------------
(* Page frames and page tables *)

(* Fault: the pages taken are not subtracted from m_PhysicalPagesAvailable. *)
TakenUncounted(m, r, n) == [m EXCEPT !.free = r.list]

Taken(m, r, n) == [m EXCEPT !.free = r.list, !.available = @ - n]

Released(m, from, to) ==
    [m EXCEPT !.free = InsertFree(@, from, to), !.available = @ + to - from + 1]

(* WritePfn, for pages that become busy and for pages that become free. *)
WritePfn(m, from, to, type) ==
    [m EXCEPT !.type = [p \in Pages |-> IF p \in from .. to THEN type ELSE @[p]],
              !.used = [p \in Pages |-> IF p \in from .. to THEN 0 ELSE @[p]],
              !.usage[type] = @ + to - from + 1]

ZeroPfn(m, from, to, type) ==
    [m EXCEPT !.type = [p \in Pages |-> IF p \in from .. to THEN "Unknown" ELSE @[p]],
              !.used = [p \in Pages |-> IF p \in from .. to THEN 0 ELSE @[p]],
              !.usage[type] = @ - (to - from + 1)]

(* GetPfnOfPT.  Without a page table the pde is zero, and that names page 0. *)
GetPfnOfPT(m, d) == IF m.pde[d] = None THEN 0 ELSE m.pde[d]

CountPtes(m, vs, p) == Cardinality({v \in vs : GetPfnOfPT(m, Pde(v)) = p})

(* WritePte: only zero ptes are written, only others are zeroed. *)
WritePte(m, from, to, pfn) ==
    LET vs == {v \in from .. to : m.pte[v] = None}
    IN  [m EXCEPT !.pte = [v \in Virtual |-> IF v \in vs THEN Min({pfn + v - from, Device}) ELSE @[v]],
                  !.used = [p \in Pages |-> (@[p] + CountPtes(m, vs, p)) % PtesUsedWidth]]

(* Fault: a zeroed pte keeps GuardOrEnd. *)
ZeroPteKeepsEnd(m, from, to) ==
    LET vs == {v \in from .. to : m.pte[v] # None}
    IN  [m EXCEPT !.pte = [v \in Virtual |-> IF v \in vs THEN None ELSE @[v]],
                  !.used = [p \in Pages |-> (@[p] - CountPtes(m, vs, p)) % PtesUsedWidth]]

ZeroPte(m, from, to) ==
    LET vs == {v \in from .. to : m.pte[v] # None}
    IN  [m EXCEPT !.pte = [v \in Virtual |-> IF v \in vs THEN None ELSE @[v]],
                  !.used = [p \in Pages |-> (@[p] - CountPtes(m, vs, p)) % PtesUsedWidth],
                  !.ended = @ \ vs]

(* One page for which the caller does not look at RemoveFree's result.  When there is      *)
(* none, it goes on with a stale or uninitialised page number, for which 0 stands here, *)
(* and the model ends with that call.                                                   *)
TakePage(m, hi) ==
    LET r == RemoveFree(m.free, 1, 0, 0, hi)
    IN  IF r.found THEN [vm |-> Taken(m, r, 1), pfn |-> r.pfn]
                   ELSE [vm |-> [m EXCEPT !.starved = TRUE], pfn |-> 0]

(* A loop over addresses or page directory entries, the first and the last included. *)
Loop(Body(_, _), m, first, last) ==
    LET after[i \in first - 1 .. last] == IF i < first THEN m ELSE Body(after[i - 1], i)
    IN  after[last]

MissingTables(m, v, n) == {d \in Pde(v) .. Pde(v + n - 1) : m.pde[d] = None}

CommitTable(m, d) ==
    LET r == TakePage(m, MaxContiguousPfn)
    IN  IF m.pde[d] # None THEN m
        ELSE WritePfn([r.vm EXCEPT !.pde[d] = r.pfn], r.pfn, r.pfn, "PageTable")

CanAllocatePT(m, v, n) == m.available >= Cardinality(MissingTables(m, v, n))

AllocatePT(m, v, n) == Loop(CommitTable, m, Pde(v), Pde(v + n - 1))

(* Fault: the type of the page is read after it has been cleared. *)
FreeTableLateType(m, d) ==
    LET p == GetPfnOfPT(m, d)
    IN  IF m.used[p] # 0 THEN m
        ELSE [ZeroPfn(Released(m, p, p), p, p, "Unknown") EXCEPT !.pde[d] = None]

FreeTable(m, d) ==
    LET p == GetPfnOfPT(m, d)
    IN  IF m.used[p] # 0 THEN m
        ELSE [ZeroPfn(Released(m, p, p), p, p, m.type[p]) EXCEPT !.pde[d] = None]

(* Fault: a page table is freed with one pte still in use. *)
FreeTableOneLeft(m, d) ==
    LET p == GetPfnOfPT(m, d)
    IN  IF m.used[p] > 1 THEN m
        ELSE [ZeroPfn(Released(m, p, p), p, p, m.type[p]) EXCEPT !.pde[d] = None]

DeallocatePTOneLeft(m, v, n) == Loop(FreeTableOneLeft, m, Pde(v), Pde(v + n - 1))

DeallocatePT(m, v, n) == Loop(FreeTable, m, Pde(v), Pde(v + n - 1))

-----------------------------------------------------------------------------
(* Virtual memory areas: each region is cut into free, reserved and allocated areas. *)

Vma(base, size, type) == [base |-> base, size |-> size, type |-> type]

VmaEnd(a) == a.base + a.size - 1

Sized(areas) == {a \in areas : a.size > 0}

(* GetVMAIterator: the last area that starts at or below an address. *)
GetVMA(m, r, v) ==
    CHOOSE a \in m.vma[r] : a.base <= v /\ \A b \in m.vma[r] : b.base <= v => b.base <= a.base

(* ConstructVMA with CarveVMA: an area out of the free one around it. *)
ConstructVMA(m, r, base, n, type) ==
    LET old == GetVMA(m, r, base)
    IN  [m EXCEPT !.vma[r] = (@ \ {old}) \cup Sized({
            Vma(old.base, base - old.base, "Free"),
            Vma(base, n, type),
            Vma(base + n, VmaEnd(old) - base - n + 1, "Free")})]

(* Fault: free neighbours are not merged. *)
DestructVMANoMerge(m, r, base, n) ==
    LET old == GetVMA(m, r, base)
    IN  [m EXCEPT !.vma[r] = (@ \ {old}) \cup Sized({
            Vma(old.base, base - old.base, old.type),
            Vma(base, n, "Free"),
            Vma(base + n, VmaEnd(old) - base - n + 1, old.type)})]

(* DestructVMA with CarveVMARange and MergeAdjacentVMA: a part of an area becomes free     *)
(* and is merged with the free areas next to it.  The area of no pages that SplitVMA     *)
(* leaves, without assertions, past a range that ends with its region is left out.       *)
DestructVMA(m, r, base, n) ==
    LET old    == GetVMA(m, r, base)
        near   == {a \in m.vma[r] : a.type = "Free" /\ (VmaEnd(a) + 1 = base \/ a.base = base + n)}
        low    == Min({base} \cup {a.base : a \in near})
        high   == Max({base + n - 1} \cup {VmaEnd(a) : a \in near})
    IN  [m EXCEPT !.vma[r] = ((@ \ {old}) \ near) \cup Sized({
            Vma(old.base, base - old.base, old.type),
            Vma(low, high - low + 1, "Free"),
            Vma(base + n, VmaEnd(old) - base - n + 1, old.type)})]

(* MapMemoryBlock: places for n pages, at the first granularity boundary of a free area    *)
(* of the system region, at any in the user region.                                     *)
Places(m, r, n) ==
    {v \in Virtual : \E a \in m.vma[r] :
        /\ a.type = "Free"
        /\ v % Granularity = 0 /\ v >= a.base
        /\ v + n - 1 <= VmaEnd(a)
        /\ r = "System" => v = RoundUp(a.base, Granularity)}

-----------------------------------------------------------------------------
(* AllocateContiguousMemoryInternal.  It goes on with pages that do not exist: what it      *)
(* writes then, out of bounds of the tables, is left out.                               *)
ContiguousPages(m, n, align, lo, hi) ==
    LET r     == RemoveFree(m.free, n, align, lo, hi)
        taken == Taken(m, r, n)
        v     == ContiguousFirst + r.pfn
        t     == AllocatePT(taken, v, n)
        done  == WritePfn(WritePte(t, v, v + n - 1, r.pfn), r.pfn, r.pfn + n - 1, "Contiguous")
    IN  IF ~r.found THEN m
        ELSE IF r.pfn \notin Pages THEN taken
        ELSE IF ~CanAllocatePT(taken, v, n) THEN Released(taken, r.pfn, r.pfn + n - 1)
        ELSE ConstructVMA([done EXCEPT !.ended = @ \cup {v + n - 1}], "Contiguous", v, n, "Allocated")

Empty ==
    [free      |-> <<Block(0, HighestPage + 1)>>,
     available |-> HighestPage + 1,
     type      |-> [p \in Pages |-> "Unknown"],     \* BusyType
     used      |-> [p \in Pages |-> 0],             \* PtesUsed
     usage     |-> [t \in Types |-> 0],             \* m_PagesByUsage
     pde       |-> [d \in Pdes |-> None],
     pte       |-> [v \in Virtual |-> None],
     ended     |-> {},                              \* pages whose pte has GuardOrEnd set
     vma       |-> [r \in Regions |-> {Vma(Min(Region(r)), Cardinality(Region(r)), "Free")}],
     instance  |-> HighestPage - MaxContiguousPfn,  \* m_NV2AInstanceMemoryBytes
     reserved  |-> 0,                               \* m_VirtualMemoryBytesReserved
     starved   |-> FALSE]

(* InitializeSystemAllocations: page 0, which D3D uses, stands for all the fixed pages at  *)
(* the bottom; then the instance memory at the top.                                     *)
Init ==
    /\ vm = ContiguousPages(ContiguousPages(Empty, 1, 1, 0, 0),
                            HighestPage - MaxContiguousPfn, 1, InstanceFirst, HighestPage)
    /\ broken = FALSE

(* Fault: the request may be one page larger than what is available. *)
IsMappableOneMore(n) == Running /\ vm.available + 1 >= n

(* IsMappable.  It does not count the page tables the request will need. *)
IsMappable(n) == Running /\ vm.available >= n

AllocateContiguousMemory ==
    \E n \in Sizes, align \in Alignments, range \in Ranges :
        LET hi == Min({range[2], MaxContiguousPfn})
            lo == Min({range[1], hi})
        IN  /\ IsMappable(n)
            /\ vm' = ContiguousPages(vm, n, align, lo, hi)
            /\ broken' = (RemoveFree(vm.free, n, align, lo, hi).pfn \notin Pages)

(* The areas a title may free: not those of InitializeSystemAllocations. *)
Owned == {a \in vm.vma["Contiguous"] :
              a.type = "Allocated" /\ a.base # ContiguousFirst /\ a.base < ContiguousFirst + InstanceFirst}

DeallocateContiguousMemory ==
    /\ Running
    /\ \E a \in Owned :
          LET p == vm.pte[a.base]
              q == p + a.size - 1
              m == ZeroPte(ZeroPfn(Released(vm, p, q), p, q, "Contiguous"), a.base, VmaEnd(a))
          IN  vm' = DeallocatePT(DestructVMA(m, "Contiguous", a.base, a.size), a.base, a.size)
    /\ UNCHANGED broken

(* The lower part of the instance memory is given back. *)
ShrinkInstance(m, size) ==
    LET p == HighestPage + 1 - m.instance
        q == HighestPage - size
        v == ContiguousFirst + p
        z == Released(ZeroPfn(ZeroPte(m, v, v + q - p), p, q, "Contiguous"), p, q)
    IN  [DestructVMA(z, "Contiguous", v, q - p + 1) EXCEPT !.instance = size]

(* A larger size: the pages to give back end before they begin.  WritePte and WritePfn do   *)
(* nothing and InsertFree takes the size they wrap to; DestructVMA, given an end below its *)
(* start, is left out.                                                                  *)
GrowInstance(m, size) ==
    LET p       == HighestPage + 1 - m.instance
        wrapped == (m.instance - size) % Word
        list    == InsertFree(m.free, p, p + wrapped - 1)
    IN  [m EXCEPT !.free = [i \in DOMAIN list |-> Block(list[i].start, list[i].size % Word)],
                  !.available = (@ + wrapped) % Word,
                  !.instance = size]

(* ClaimGpuMemory leaves the title the upper part of the instance memory, of the size       *)
(* claimed.                                                                             *)
ClaimGpuMemory ==
    /\ Running
    /\ \E size \in 0 .. HighestPage :
          \/ size < vm.instance /\ vm' = ShrinkInstance(vm, size) /\ UNCHANGED broken
          \/ size > vm.instance /\ vm' = GrowInstance(vm, size) /\ broken' = TRUE

-----------------------------------------------------------------------------
(* A physical page for one virtual page. *)
CommitPage(m, v, type) ==
    LET r == TakePage(m, HighestPage)
    IN  WritePte(WritePfn(r.vm, r.pfn, r.pfn, type), v, v, r.pfn)

CommitSystemPage(m, v) == CommitPage(m, v, "System")

CommitSystemPages(m, first, last) == Loop(CommitSystemPage, m, first, last)

(* The physical page of a virtual one is freed; the pte is zeroed later. *)
FreePage(m, v, type) == LET p == m.pte[v] IN ZeroPfn(Released(m, p, p), p, p, type)

FreeSystemPage(m, v) == FreePage(m, v, "System")

FreeSystemPages(m, first, last) == Loop(FreeSystemPage, m, first, last)

(* The pte of a guard page stays zero and is counted all the same. *)
CountGuard(m, v) ==
    [m EXCEPT !.used[GetPfnOfPT(m, Pde(v))] = (@ + 1) % PtesUsedWidth]

Guarded(m, a) == a.type = "Allocated" /\ m.pte[a.base] = None

UsedPtes(m, d) == Cardinality({v \in Virtual : Pde(v) = d /\ m.pte[v] # None})

(* The guard pages of a page table, and those it has had: they stay counted when they go. *)
LeakedPtes(m, d) == IF m.pde[d] = None THEN 0 ELSE m.used[m.pde[d]] - UsedPtes(m, d)

AllocateSystemMemory ==
    \E n \in Sizes, guard \in {0, 1} :
        /\ IsMappable(n + guard)
        /\ UNCHANGED broken
        /\ \E v \in Places(vm, "System", n + guard) :
              LET t == AllocatePT(vm, v, n + guard)
                  g == IF guard = 1 THEN CountGuard(t, v) ELSE t
                  last == v + guard + n - 1
                  m == CommitSystemPages(g, v + guard, last)
              IN  /\ guard = 1 => ManyStacks \/ LeakedPtes(vm, Pde(v)) < MaxLeaks
                  /\ CanAllocatePT(vm, v, n + guard)
                  /\ vm' = ConstructVMA([m EXCEPT !.ended = @ \cup {last}],
                                        "System", v, n + guard, "Allocated")

DeallocateSystemMemory ==
    /\ Running
    /\ \E a \in vm.vma["System"] :
          LET v == IF Guarded(vm, a) THEN a.base + 1 ELSE a.base
              m == ZeroPte(FreeSystemPages(vm, v, VmaEnd(a)), v, VmaEnd(a))
          IN  /\ a.type = "Allocated"
              /\ vm' = DeallocatePT(DestructVMA(m, "System", a.base, a.size), a.base, a.size)
    /\ UNCHANGED broken

(* MapDeviceMemory, for an address that is not one of the known devices. *)
MapDeviceMemory ==
    /\ IsMappable(0)
    /\ UNCHANGED broken
    /\ \E n \in Sizes : \E v \in Places(vm, "System", n) :
          LET t == AllocatePT(vm, v, n)
          IN  /\ CanAllocatePT(vm, v, n)
              /\ vm' = ConstructVMA(WritePte(t, v, v + n - 1, Device), "System", v, n, "Reserved")

UnmapDeviceMemory ==
    /\ Running
    /\ \E a \in vm.vma["System"] :
          /\ a.type = "Reserved"
          /\ vm' = DeallocatePT(DestructVMA(ZeroPte(vm, a.base, VmaEnd(a)), "System", a.base, a.size),
                                a.base, a.size)
    /\ UNCHANGED broken

-----------------------------------------------------------------------------
(* XbAllocateVirtualMemory: MEM_RESERVE, MEM_COMMIT inside a reserved area, or both. *)

Reserve(m, v, n) == [ConstructVMA(m, "User", v, n, "Reserved") EXCEPT !.reserved = @ + n]

ZeroPtes(m, v, n) == {w \in v .. v + n - 1 : m.pte[w] = None}

(* What is committed already stays as it is. *)
CommitVirtualPage(m, v) == IF m.pte[v] # None THEN m ELSE CommitPage(m, v, "Virtual")

CommitVirtualPages(m, first, last) == Loop(CommitVirtualPage, m, first, last)

Commit(m, v, n) == CommitVirtualPages(AllocatePT(m, v, n), v, v + n - 1)

(* Fault: the reserved bytes are not given back. *)
UndoneKeepsBytes(m, v, n) == DestructVMA(m, "User", v, n)

(* A commit that fails takes its own reservation back. *)
Undone(m, v, n) == [DestructVMA(m, "User", v, n) EXCEPT !.reserved = @ - n]

ReserveVirtualMemory ==
    /\ Running
    /\ \E n \in Sizes : \E v \in Places(vm, "User", n) :
          LET m == Reserve(vm, v, n)
          IN  \/ vm' = m
              \/ IsMappable(n) /\ vm' = IF CanAllocatePT(m, v, n) THEN Commit(m, v, n) ELSE Undone(m, v, n)
    /\ UNCHANGED broken

(* A range inside an area that is not free. *)
InUserRange(v, n) ==
    LET a == GetVMA(vm, "User", v)
    IN  a.type # "Free" /\ v + n - 1 <= VmaEnd(a)

CommitVirtualMemory ==
    \E v \in UserFirst .. UserLast, n \in Sizes :
        /\ InUserRange(v, n)
        /\ IsMappable(Cardinality(ZeroPtes(vm, v, n)))
        /\ CanAllocatePT(vm, v, n)
        /\ vm' = Commit(vm, v, n)
        /\ UNCHANGED broken

(* XbFreeVirtualMemory with MEM_DECOMMIT, or with MEM_RELEASE, which implies it.  Where no  *)
(* page table was ever made it frees page 0, which a zero pde names.                    *)
DecommitPage(m, v) == IF m.pte[v] = None THEN m ELSE FreePage(m, v, m.type[m.pte[v]])

DecommitPages(m, first, last) == Loop(DecommitPage, m, first, last)

XbFreeVirtualMemory ==
    /\ Running
    /\ \E v \in UserFirst .. UserLast, n \in Sizes, release \in BOOLEAN :
          LET last == v + n - 1
              m == IF release THEN Undone(vm, v, n) ELSE vm
          IN  /\ InUserRange(v, n)
              /\ vm' = DeallocatePT(ZeroPte(DecommitPages(m, v, last), v, last), v, n)
              /\ broken' = (MissingTables(vm, v, n) # {})

Next ==
    \/ AllocateContiguousMemory
    \/ DeallocateContiguousMemory
    \/ ClaimGpuMemory
    \/ AllocateSystemMemory
    \/ DeallocateSystemMemory
    \/ MapDeviceMemory
    \/ UnmapDeviceMemory
    \/ ReserveVirtualMemory
    \/ CommitVirtualMemory
    \/ XbFreeVirtualMemory

Spec == Init /\ [][Next]_vars

-----------------------------------------------------------------------------
Mappers(p) == ({"pte"} \X {v \in Virtual : vm.pte[v] = p}) \cup ({"pde"} \X {d \in Pdes : vm.pde[d] = p})

Areas == [base : Virtual, size : Nat \ {0}, type : {"Free", "Reserved", "Allocated"}]

Covered(a) == a.base .. VmaEnd(a)

(* Until a call breaks the manager, the counters of free pages, reserved pages and        *)
(* instance memory and every entry of the tables stay in range: nothing is taken from   *)
(* the free pages without being counted.                                                *)
TypeOK == broken \/
    /\ vm.free \in Seq([start : Pages, size : 1 .. HighestPage + 1])
    /\ vm.available \in 0 .. HighestPage + 1
    /\ vm.type \in [Pages -> Types]
    /\ vm.used \in [Pages -> 0 .. PtesUsedWidth - 1]
    /\ vm.usage \in [Types -> Int]
    /\ vm.pde \in [Pdes -> Pages \cup {None}]
    /\ vm.pte \in [Virtual -> 0 .. Device \cup {None}]
    /\ vm.ended \in SUBSET Virtual
    /\ vm.vma \in [Regions -> SUBSET Areas]
    /\ vm.instance \in 0 .. HighestPage - MaxContiguousPfn
    /\ vm.reserved \in Nat
    /\ vm.starved \in BOOLEAN

(* Through any sequence of calls and failures the free list stays sorted and coalesced,    *)
(* m_PhysicalPagesAvailable is its total, and a page is in it exactly when nothing, no   *)
(* pte and no pde, uses the page.                                                       *)
FreeListExact == Running =>
    /\ Coalesced(vm.free)
    /\ FreePages(vm.free) \subseteq Pages
    /\ vm.available = Cardinality(FreePages(vm.free))
    /\ \A p \in Pages : p \in FreePages(vm.free) <=> Mappers(p) = {}

(* A page in use is used once, by a pte of the region its page frame entry says or by a    *)
(* pde, and m_PagesByUsage, which MmQueryStatistics reports, counts it there.           *)
PagesOwnedOnce == Running =>
    \A p \in Pages \ FreePages(vm.free) :
        /\ Cardinality(Mappers(p)) = 1
        /\ vm.type[p] = "PageTable" <=> \E d \in Pdes : vm.pde[d] = p
        /\ vm.usage[vm.type[p]] = Cardinality({q \in Pages : vm.type[q] = vm.type[p]})

(* A page table is there as long as one of its ptes is in use, and PtesUsed, which says     *)
(* when it can go, never falls below the number of those.                               *)
TablesOutlivePtes == Running =>
    \A d \in Pdes : /\ vm.pde[d] = None => UsedPtes(vm, d) = 0
                    /\ vm.pde[d] # None => vm.used[vm.pde[d]] >= UsedPtes(vm, d)

(* The areas of a region cover it without overlap, free ones are merged, ptes are in use    *)
(* only inside areas that are not free, and a free area of the system region ends at a   *)
(* granularity boundary, which MapMemoryBlock asserts when it commits whole blocks.     *)
AreasSound == broken \/
    \A r \in Regions :
        /\ Region(r) = UNION {Covered(a) : a \in vm.vma[r]}
        /\ \A a, b \in vm.vma[r] : a # b =>
               /\ VmaEnd(a) < b.base \/ VmaEnd(b) < a.base
               /\ VmaEnd(a) + 1 = b.base => "Free" \notin {a.type} \cap {b.type}
        /\ \A a \in vm.vma[r] : a.type = "Free" =>
               /\ \A v \in Covered(a) : vm.pte[v] = None
               /\ r = "System" => (VmaEnd(a) + 1) % Granularity = 0

(* QuerySize: the pages up to the next pte with GuardOrEnd set. *)
QuerySize(v) == CHOOSE n \in 1 .. Cardinality(Virtual) :
                   v + n - 1 \in vm.ended /\ \A i \in 0 .. n - 2 : v + i \notin vm.ended

(* QuerySize finds the size of an allocation by looking for its last pte: also after       *)
(* neighbours have come and gone it finds its own end.                                  *)
QuerySizeRight ==
    \A a \in vm.vma["System"] \cup vm.vma["Contiguous"] :
        a.type = "Allocated" /\ Running =>
            IF Guarded(vm, a) THEN QuerySize(a.base + 1) = a.size - 1
                              ELSE QuerySize(a.base) = a.size

(* RemoveFree, asked as AllocateContiguousMemory asks it, gives free pages of the wanted    *)
(* alignment and range, and fails only if there is no room for the size rounded up to    *)
(* the alignment, whatever the history left of the free list.  Requests that are not      *)
(* alignable get pages past the end of memory.                                           *)
RemoveFreeExact == broken \/
    \A n \in Sizes, align \in Alignments, range \in Ranges :
        LET hi == Min({range[2], MaxContiguousPfn})
            lo == Min({range[1], hi})
            r  == RemoveFree(vm.free, n, align, lo, hi)
            Good(p, k) == p % align = 0 /\ p .. p + k - 1 \subseteq FreePages(vm.free)
                          /\ p >= lo /\ p + k - 1 <= hi
        IN  IF ~r.found THEN \A p \in Pages : ~Good(p, RoundUp(n, align))
            ELSE IF Alignable(vm.free, n, align, lo, hi) THEN Good(r.pfn, n)
            ELSE r.pfn \notin Pages

(* IsMappable is enough for the callers that do not look at RemoveFree's result, as long    *)
(* as the page tables exist: only page tables made in the same call, which come out of    *)
(* the same free pages and are not counted, can leave such a caller without a page.     *)
CallersHavePages ==
    [][vm'.starved /\ ~broken' => \E d \in Pdes : vm.pde[d] = None /\ vm'.pde[d] # None]_vars

(* m_VirtualMemoryBytesReserved is what the areas of the user region that are not free     *)
(* add up to.                                                                            *)
ReservedExact == broken \/
    vm.reserved = Cardinality(UNION {Covered(a) : a \in {b \in vm.vma["User"] : b.type # "Free"}})
=============================================================================
