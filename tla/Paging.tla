------------------------------- MODULE Paging -------------------------------
(***************************************************************************)
(* The page tables of the x86_64 port (paging.c, pageflags.h, the tables   *)
(* of init64.asm); new tables come from the kernel heap of module Heap.    *)
(*                                                                         *)
(* An entry is the thing it points to, None when it is not present.  All   *)
(* blocks the heap returns are one block (TheOneBlock), one byte behind    *)
(* the area of the root.  The kernel writes a new table through that odd   *)
(* pointer ("area"), but stores PAGE_ALIGN of it in the entry above, so    *)
(* that later walks and the processor read the page around it ("page") at  *)
(* other slots.                                                            *)
(***************************************************************************)
EXTENDS Heap

CONSTANTS
    N,          \* entries of a table, 512
    Shift,      \* slot of "page" in which "area" begins
    Slots,      \* indexes the addresses in use select, at every level
    UsedFrames  \* frames MmLookupPhysFrame reports as used

VARIABLES
    mem,        \* the page tables and the nodes of the heap
    tlb,        \* the translations of low memory may still be cached
    map         \* the last call of the paging interface and its answer

Slot == 0 .. N - 1

(* An entry of "page" is never one that "area" overlaps. *)
ASSUME PagingAssumption ==
    /\ N \in Nat \ {0, 1}
    /\ Shift \in Slot
    /\ Slots \subseteq Slot \ {Shift}
    /\ \A i, j \in Slots : j # Shift + i

Tables == {"p4", "p3", "p2", "area", "page"}

None == <<"none", 0>>
Large(n) == <<"large", n>>
Table(t) == <<t, 0>>
Frame4K == <<"frame", 0>>

-----------------------------------------------------------------------------
(* Addresses.  A virtual address is the number of its 4 KiB page. *)

(* The pages that one entry spans, from the last level up. *)
Span == <<1, N, N * N, N * N * N>>

(* x86FindPageLevels: nine bits of the address for every level. *)
PageLevel(v, k) == (v \div Span[k + 1]) % N

KERN_VIRT_OFFSET == (N - 1) * Span[4]
KERN_PHYS_TO_VIRT(p) == p + KERN_VIRT_OFFSET

-----------------------------------------------------------------------------
(* The tables at boot: p4 and p3 are data of init64.asm. *)

Empty == [i \in Slot |-> None]
BothEnds(t) == [i \in Slot |-> IF i \in {0, N - 1} THEN Table(t) ELSE None]
p4_table == BothEnds("p3")
p3_table == BothEnds("p2")

InitPaging ==
    /\ mem = [t \in Tables \cup {"nodes"} |->
                 IF t = "p4" THEN p4_table ELSE IF t = "p3" THEN p3_table
                 ELSE IF t = "nodes" THEN NoHeap ELSE Empty]
    /\ tlb = FALSE
    /\ map = [op |-> "none", status |-> "SUCCESS", changed |-> FALSE]

(* create_page_tables: 2 MiB pages, the n-th one at 2 MiB * n. *)
create_page_tables == mem' = [mem EXCEPT !["p2"] = [i \in Slot |-> Large(i)]]

(* Reloading CR3 drops what is cached. *)
FlushTLB == tlb' = FALSE

(* Low memory can be read: p4[0] maps it, or it is cached from then. *)
LowMapped(m) == m["p4"][0] = Table("p3")
LowReadable(m) == tlb \/ LowMapped(m)

-----------------------------------------------------------------------------
(* x86MapAddress *)

(* MmKernelMalloc, and KiSetMemoryBytes on the block. *)
NewTable(m) ==
    [m EXCEPT !["nodes"] = MmKernelMalloc(m["nodes"], 8 * 512),
              !["area"] = Empty,
              !["page"] = [i \in Slot |-> IF i > Shift THEN None ELSE m["page"][i]]]

(* The table below entry i of table t, a new one when there is none. *)
Below(m, t, i) ==
    IF m[t][i] # None
    THEN [mem |-> m, at |-> m[t][i][1]]
    ELSE [mem |-> [NewTable(m) EXCEPT ![t][i] = Table("page")], at |-> "area"]

(* A table found in an entry is read at its physical address. *)
Readable(m, t) == t = "area" \/ LowReadable(m)

(* How a call ends; outside tells that it wrote an entry into memory that  *)
(* is no table.                                                            *)
Done(m, status) == [mem |-> m, status |-> status, outside |-> FALSE]

(* The last level; which frame is mapped makes no difference to the        *)
(* tables.  A large page or a frame taken for a table holds anything: bit  *)
(* tells whether the entry there looks present, and one that does not is   *)
(* written.                                                                *)
MapEntry(m, t, i, bit) ==
    IF t \in Tables
    THEN IF m[t][i] # None THEN Done(m, "PAGE_FAILURE")
         ELSE Done([m EXCEPT ![t][i] = Frame4K], "SUCCESS")
    ELSE IF bit THEN Done(m, "PAGE_FAILURE")
         ELSE [Done(m, "SUCCESS") EXCEPT !.outside = TRUE]

(* Status "fault": the processor cannot read a table; "wild": a frame of a *)
(* client is read as a table of tables.  Neither call returns.             *)
Map(m, v, bit) ==
    LET pdp == Below(m, "p4", PageLevel(v, 3))
        pd  == Below(pdp.mem, pdp.at, PageLevel(v, 2))
        pt  == Below(pd.mem, pd.at, PageLevel(v, 1))
    IN  IF ~ Readable(pdp.mem, pdp.at) THEN Done(pdp.mem, "fault")
        ELSE IF ~ Readable(pd.mem, pd.at) THEN Done(pd.mem, "fault")
        ELSE IF pd.at \notin Tables THEN Done(pd.mem, "wild")
        ELSE IF ~ Readable(pt.mem, pt.at) THEN Done(pt.mem, "fault")
        ELSE MapEntry(pt.mem, pt.at, PageLevel(v, 0), bit)

Answer(op, outcome) ==
    /\ mem' = outcome.mem
    /\ map' = [op |-> op, status |-> outcome.status,
              changed |-> outcome.outside \/ \E t \in Tables : outcome.mem[t] # mem[t]]
    /\ UNCHANGED tlb

x86MapAddress(v) ==
    \E bit \in BOOLEAN : Answer("map", Map(mem, v, bit))

-----------------------------------------------------------------------------
(* x86UnmapAddress: the first test holds for every entry that is present,  *)
(* so that the whole entry of p4 goes and no lower level is looked at.     *)

MutUnmapped(m, v) ==
    IF m["p4"][PageLevel(v, 3)] = None THEN Done(m, "PAGE_FAILURE")
    ELSE Done([m EXCEPT ![m["p4"][PageLevel(v, 3)][1]][PageLevel(v, 2)] = None],
              "SUCCESS")
Unmapped(m, v) ==
    IF m["p4"][PageLevel(v, 3)] = None THEN Done(m, "PAGE_FAILURE")
    ELSE Done([m EXCEPT !["p4"][PageLevel(v, 3)] = None], "SUCCESS")

x86UnmapAddress(v) == Answer("unmap", Unmapped(mem, v))

-----------------------------------------------------------------------------
(* MmKernelAllocPages *)

(* x86ValidateVirtualAddress: the answers it can give.  The last table is  *)
(* taken from entry l1 of the wrong table, and from address 0 when that    *)
(* entry is not present.                                                   *)
InUse(m, v) ==
    LET l(k) == PageLevel(v, k)
        pdp == m["p4"][l(3)]
        pd  == m[pdp[1]][l(2)]
        pt  == m[pdp[1]][l(1)]
    IN  IF pdp = None THEN {"FALSE"}
        ELSE IF ~ LowReadable(m) THEN {"fault"}
        ELSE IF pd = None THEN {"FALSE"}
        ELSE IF pd[1] \notin Tables THEN {"FALSE", "TRUE", "fault"}
        ELSE IF m[pd[1]][l(1)] = None THEN {"FALSE"}
        ELSE IF pt[1] \in Tables
             THEN {IF m[pt[1]][l(0)] # None THEN "TRUE" ELSE "FALSE"}
        ELSE {"FALSE", "TRUE"}

Conflict(m) == Done(m, "PAGE_CONFLICT")

(* The loop over the pages maps the first page again each time.  A first   *)
(* round that wrote outside the tables changed none of them: the second    *)
(* gets to the entry it wrote.                                             *)
MapTwice(first, v, bit) ==
    IF first.status # "SUCCESS" THEN first
    ELSE LET second == Map(first.mem, v, bit \/ first.outside) IN
         [second EXCEPT !.outside = @ \/ first.outside]

(* One or two pages from frame f on, at v, or behind KERN_VIRT_OFFSET.     *)
(* Nothing marks the frames as used.                                       *)
MmKernelAllocPages(Pages, f, BaseVAddr) ==
    \E VAddr \in {IF BaseVAddr = 0 THEN KERN_PHYS_TO_VIRT(f) ELSE BaseVAddr} :
    \E bit, again \in BOOLEAN :
    \E used \in InUse(mem, VAddr), next \in InUse(mem, VAddr + Pages - 1) :
        Answer("alloc",
            IF f .. f + Pages - 1 \cap UsedFrames # {} THEN Conflict(mem)
            ELSE IF used = "fault" THEN Done(mem, "fault")
            ELSE IF used = "TRUE" THEN Conflict(mem)
            ELSE IF next = "fault" THEN Done(mem, "fault")
            ELSE IF next = "TRUE" THEN Conflict(mem)
            ELSE LET first == Map(mem, VAddr, bit) IN
                 IF Pages = 1 THEN first ELSE MapTwice(first, VAddr, again))

Returned == map.status \notin {"fault", "wild"}

-----------------------------------------------------------------------------
(* Properties *)

(* The entries through which the kernel runs and KERN_PHYS_TO_VIRT works.  *)
KernelHalfMapped ==
    /\ mem["p4"][N - 1] = Table("p3")
    /\ mem["p3"][0] = Table("p2")
    /\ \A i \in Slot : mem["p2"][i] = Large(i)

(* The abstraction of blocks to one block is sound: each call returns the  *)
(* same address, and the list stays linked as it was made.                 *)
TheOneBlock ==
    LET nodes == mem["nodes"] IN
    nodes["next"].ChunkIncrement # 0 =>
        /\ Block(nodes) = 1
        /\ nodes["root"].Next = "next" /\ nodes["next"].Previous = "root"

(* paging.c:420, "either commit everything or fail and commit nothing".    *)
AllOrNothing ==
    map.op = "alloc" /\ Returned /\ map.status # "SUCCESS" => ~ map.changed
=============================================================================
