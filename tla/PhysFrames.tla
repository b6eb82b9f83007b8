----------------------------- MODULE PhysFrames -----------------------------
(***************************************************************************)
(* The physical memory manager of kern/mm/mmsetup.c: a bitmap with one bit *)
(* per frame, placed by KiInitializeMemMgr behind the boot information and *)
(* queried and changed by the three frame calls.                           *)
(*                                                                         *)
(* A UINT8 of the bitmap is the set of its 1 bits.  Only the bytes         *)
(* 0 .. BufferSize can be addressed by a Location <= MaxPAddr; the last of *)
(* them is the first byte behind the bitmap, which is also the low byte of *)
(* the heap's Arena.Size.                                                  *)
(***************************************************************************)
EXTENDS Integers, FiniteSetsExt

CONSTANTS
    FrameSize,        \* AllocInfo.FrameSize as KiStartupSystem sets it
    FrameSizesRead,   \* what MmState.pAllocInfo->FrameSize may read later:
                      \* pAllocInfo points at a local of KiStartupSystem
    kernel_start,     \* where the kernel image begins (1 MiB)
    SafePMMArea,      \* the address KiStartupSystem passes for the bitmap
    HeapSize,         \* size of the heap put behind the bitmap
    MemoryMaps,       \* the possible sets of [Start, End] memory ranges
    Locations         \* the addresses callers ask about

(* Frames are 4096 bytes, the kernel is linked on a frame boundary below   *)
(* the boot information, and the 8 MiB heap is larger than the 8 frames    *)
(* that one byte of the bitmap describes.                                  *)
ASSUME LayoutAssumption ==
    /\ FrameSize \in Nat \ {0}
    /\ FrameSizesRead \subseteq Nat
    /\ kernel_start \in Nat
    /\ kernel_start % FrameSize = 0
    /\ SafePMMArea \in Nat
    /\ kernel_start <= SafePMMArea
    /\ HeapSize \in Nat
    /\ 8 * FrameSize <= HeapSize

Ends(map) == {0} \cup {range.End : range \in map}

(* Addresses are natural numbers, and a table of ranges, being finite, has *)
(* a highest end.                                                          *)
ASSUME MapAssumption ==
    /\ \A map \in MemoryMaps :
         /\ Ends(map) \subseteq Nat
         /\ \E max \in Ends(map) : \A end \in Ends(map) : max >= end
    /\ Locations \subseteq Nat

VARIABLES
    phase,              \* "boot", "running" or "stopped" (KiStopError)
    MaxPAddr,           \* MmState.MaxPAddr
    BitmaskUsedFrames,  \* MmState.BitmaskUsedFrames
    released,           \* history: frames given back and not taken since
    read,               \* history: the frame size the last call computed with
    ret                 \* the last call and its answer

vars == <<phase, MaxPAddr, BitmaskUsedFrames, released, read, ret>>

Bits == 0 .. 7
Answer(op, Location, status, value) ==
    [op |-> op, Location |-> Location, status |-> status, value |-> value]
Answers == [op : {"none", "lookup", "allocate", "lookupfree"},
            Location : Nat,
            status : {"SUCCESS", "INVALID_MEMORY_LOCATION",
                      "MEMORY_ACCESS_VIOLATION", "MEMORY_PAGE_FAILURE"},
            value : BOOLEAN]

-----------------------------------------------------------------------------
(* The address arithmetic of the bitmap. *)

BufferSizeOf(max) == max \div (8 * FrameSize)
BufferSize == BufferSizeOf(MaxPAddr)

Frame(Location) == Location \div FrameSize
Frames == 0 .. Frame(MaxPAddr)

BaseAddr(Location, fs) == Location \div (8 * fs)
MutBitNumWhole(Location, fs) == Location \div fs
BitNum(Location, fs) == (Location \div fs) % 8

(* The frames whose bit is set. *)
Used == {f \in Frames : f % 8 \in BitmaskUsedFrames[f \div 8]}

-----------------------------------------------------------------------------
(* KiInitializeMemMgr *)

(* The highest end of a range; the type of the range is not looked at. *)
MaximumPAddr(map) == Max(Ends(map))

(* Indexes of the loops "for (a = from; a < to; a += FrameSize)". *)
LoopIndexes(from, to) == {a \in from .. to - 1 : (a - from) % FrameSize = 0}

MutKernelIndexes(max) ==
    LoopIndexes(kernel_start, SafePMMArea)
KernelIndexes(max) == LoopIndexes(kernel_start, SafePMMArea + BufferSizeOf(max))

HeapAddrOf(max) == SafePMMArea + BufferSizeOf(max) + FrameSize
HeapIndexes(max) == LoopIndexes(HeapAddrOf(max), HeapSize)

(* MmAllocatePhysFrame(a, TRUE) succeeds on bitmap bm. *)
CanMark(bm, max, a) ==
    /\ a <= max
    /\ BitNum(a, FrameSize) \notin bm[BaseAddr(a, FrameSize)]

(* The indexes of a marking loop reached before VALIDATE_SUCCESS stops it. *)
Marked(bm, max, indexes) ==
    {a \in indexes : \A x \in indexes : x <= a => CanMark(bm, max, x)}

MarkUsed(bm, indexes) ==
    [b \in DOMAIN bm |-> bm[b] \cup
        {BitNum(a, FrameSize) : a \in {x \in indexes : BaseAddr(x, FrameSize) = b}}]

(* KiSetMemoryBytes clears groups of four bytes: the byte behind the       *)
(* bitmap is cleared too unless BufferSize is a multiple of four.          *)
ClearedBitmaps(max) ==
    {[b \in 0 .. BufferSizeOf(max) |->
        IF b = BufferSizeOf(max) /\ b % 4 = 0 THEN stale ELSE {}] :
     stale \in SUBSET Bits}

(* MmCreateAllocatorState zeroes the heap and stores the Arena, whose      *)
(* first byte is the low byte of 8 MiB, over the byte behind the bitmap.   *)
CreateAllocatorState(bm, max) == [bm EXCEPT ![BufferSizeOf(max)] = {}]

Init == /\ phase = "boot"
        /\ MaxPAddr = 0
        /\ BitmaskUsedFrames = [b \in {0} |-> {}]
        /\ released = {}
        /\ read = FrameSize
        /\ ret = Answer("none", 0, "SUCCESS", FALSE)

KiInitializeMemMgr(map) ==
    /\ phase = "boot"
    /\ \E cleared \in ClearedBitmaps(MaximumPAddr(map)) :
         LET max     == MaximumPAddr(map)
             kernel  == Marked(cleared, max, KernelIndexes(max))
             marked  == MarkUsed(cleared, kernel)
             created == CreateAllocatorState(marked, max)
             heap    == Marked(created, max, HeapIndexes(max))
         IN  /\ MaxPAddr' = max
             /\ \/ /\ kernel # KernelIndexes(max)
                   /\ phase' = "stopped"
                   /\ BitmaskUsedFrames' = marked
                \/ /\ kernel = KernelIndexes(max)
                   /\ phase' = IF heap = HeapIndexes(max)
                               THEN "running" ELSE "stopped"
                   /\ BitmaskUsedFrames' = MarkUsed(created, heap)
    /\ released' = {}
    /\ UNCHANGED <<read, ret>>

-----------------------------------------------------------------------------
(* The frame calls.  Each reads the frame size through MmState.pAllocInfo, *)
(* which points at AllocInfo, a local that KiStartupSystem has left when   *)
(* drivers and the keyboard call: the read is any of FrameSizesRead.       *)

(* The byte a call reads; outside the bitmap it can be anything. *)
ContainingByte(b) ==
    IF b \in 0 .. BufferSize THEN {BitmaskUsedFrames[b]} ELSE SUBSET Bits

Refuse(op, Location, value) ==
    /\ Location > MaxPAddr
    /\ ret' = Answer(op, Location, "INVALID_MEMORY_LOCATION", value)
    /\ read' = FrameSize
    /\ UNCHANGED <<phase, MaxPAddr, BitmaskUsedFrames, released>>

(* A frame size that reads 0 is divided by: the exception's handler        *)
(* returns to the same division, and the call never ends.                  *)
DivideByZero(Location) ==
    /\ 0 \in FrameSizesRead
    /\ Location <= MaxPAddr
    /\ phase' = "stopped"
    /\ read' = 0
    /\ UNCHANGED <<MaxPAddr, BitmaskUsedFrames, released, ret>>

MmLookupPhysFrame(Location) ==
    /\ phase = "running"
    /\ \/ Refuse("lookup", Location, FALSE)
       \/ DivideByZero(Location)
       \/ \E fs \in FrameSizesRead \ {0} :
          \E byte \in ContainingByte(BaseAddr(Location, fs)) :
            /\ Location <= MaxPAddr
            /\ ret' = Answer("lookup", Location, "SUCCESS",
                             BitNum(Location, fs) \in byte)
            /\ read' = fs
            /\ UNCHANGED <<phase, MaxPAddr, BitmaskUsedFrames, released>>

(* The byte is written back whole; a write outside the bitmap misses it. *)
StoreByte(b, byte) ==
    BitmaskUsedFrames' = IF b \in 0 .. BufferSize
                         THEN [BitmaskUsedFrames EXCEPT ![b] = byte]
                         ELSE BitmaskUsedFrames

(* Free a used frame, take a free one, or refuse; number is the frame that *)
(* the byte and the bit stand for.                                         *)
SetFrame(Location, Status, number, b, bit, byte) ==
    \/ /\ ~ Status
       /\ bit \in byte
       /\ StoreByte(b, byte \ {bit})
       /\ released' = released \cup {number}
       /\ ret' = Answer("allocate", Location, "SUCCESS", Status)
    \/ /\ Status
       /\ bit \notin byte
       /\ StoreByte(b, byte \cup {bit})
       /\ released' = released \ {number}
       /\ ret' = Answer("allocate", Location, "SUCCESS", Status)
    \/ /\ Status <=> bit \in byte
       /\ ret' = Answer("allocate", Location, "MEMORY_ACCESS_VIOLATION", Status)
       /\ UNCHANGED <<BitmaskUsedFrames, released>>

MmAllocatePhysFrame(Location, Status) ==
    /\ phase = "running"
    /\ \/ Refuse("allocate", Location, Status)
       \/ DivideByZero(Location)
       \/ \E fs \in FrameSizesRead \ {0} :
          \E byte \in ContainingByte(BaseAddr(Location, fs)) :
            /\ Location <= MaxPAddr
            /\ SetFrame(Location, Status, Location \div fs,
                        BaseAddr(Location, fs), BitNum(Location, fs), byte)
            /\ read' = fs
            /\ UNCHANGED <<phase, MaxPAddr>>

(* PageBlock * 8 + Bit for every clear bit of the bytes 0 .. BufferSize. *)
ClearBits == {n \in 0 .. 8 * BufferSize + 7 :
                n % 8 \notin BitmaskUsedFrames[n \div 8]}

MutFoundFree(n, fs) ==
    /\ n \in ClearBits
    /\ \A m \in ClearBits : m >= n
    /\ ret' = Answer("lookupfree", fs * n + fs, "SUCCESS", FALSE)
FoundFree(n, fs) ==
    /\ n \in ClearBits
    /\ \A m \in ClearBits : m >= n
    /\ ret' = Answer("lookupfree", fs * n, "SUCCESS", FALSE)

(* The scan runs over MaxPAddr bytes, far past the BufferSize bytes of the *)
(* bitmap: past byte BufferSize it meets whatever the heap holds.          *)
MmLookupFreePhysFrame ==
    /\ phase = "running"
    /\ \E fs \in FrameSizesRead :
       /\ read' = fs
       /\ \/ \E n \in 0 .. 8 * BufferSize + 7 : FoundFree(n, fs)
          \/ /\ ClearBits = {}
             /\ \/ \E PageBlock \in BufferSize + 1 .. MaxPAddr - 1, Bit \in Bits :
                     ret' = Answer("lookupfree", fs * (8 * PageBlock + Bit),
                                   "SUCCESS", FALSE)
                \/ ret' = Answer("lookupfree", 0, "MEMORY_PAGE_FAILURE", FALSE)
    /\ UNCHANGED <<phase, MaxPAddr, BitmaskUsedFrames, released>>

(* KiStopError never returns. *)
Hang == phase = "stopped" /\ UNCHANGED vars

Next == \/ \E map \in MemoryMaps : KiInitializeMemMgr(map)
        \/ \E Location \in Locations :
             \/ MmLookupPhysFrame(Location)
             \/ \E Status \in BOOLEAN : MmAllocatePhysFrame(Location, Status)
        \/ MmLookupFreePhysFrame
        \/ Hang

Spec == Init /\ [][Next]_vars

-----------------------------------------------------------------------------
(* Properties *)

(* Every variable has its type: the bitmap covers exactly the bytes that a *)
(* Location <= MaxPAddr can select (the indexing of MmLookupPhysFrame and  *)
(* MmAllocatePhysFrame).                                                   *)
TypeOK ==
    /\ phase \in {"boot", "running", "stopped"}
    /\ MaxPAddr \in Nat
    /\ BitmaskUsedFrames \in [0 .. BufferSize -> SUBSET Bits]
    /\ released \subseteq Nat
    /\ read \in Nat
    /\ ret \in Answers

(* The heap lies inside the memory the machine has. *)
HeapFits == HeapAddrOf(MaxPAddr) + HeapSize <= MaxPAddr

(* The frames of the kernel image, the boot information and the bytes up   *)
(* to SafePMMArea + BufferSize.                                            *)
KernelFrames == {f \in Frames : \E a \in kernel_start .. SafePMMArea + BufferSize - 1 :
                                    f = Frame(a)}

(* A frame that "Mark everything as in use" took at boot stays in use      *)
(* except between a call that selects that very frame and gives it back    *)
(* and one that takes it again, and MmLookupFreePhysFrame finds it only    *)
(* then: whatever frame size a call reads, it reaches the one bit it       *)
(* selects and no other.                                                   *)
KernelStaysReserved ==
    phase = "running" /\ HeapFits =>
        /\ KernelFrames \ released \subseteq Used
        /\ ret.op = "lookupfree" /\ ret.status = "SUCCESS" /\ read # 0
             => ret.Location \div read \notin KernelFrames \ released

(* No frame call runs before KiInitializeMemMgr. *)
NoCallBeforeStart == phase = "boot" => ret.op = "none"

FS == INSTANCE FrameSet WITH used <- Used

(* With every frame in use, the search goes on into the bits that stand    *)
(* for no frame and offers an address past the end of memory, although     *)
(* Location should be "set to 0" and the status be                         *)
(* "STATUS_MEMORY_PAGE_FAILURE if none was found" (mmsetup.c:210).         *)
OffersPastMemory ==
    /\ phase = "running" /\ Frames \subseteq Used
    /\ Frame(ret'.Location) \notin Frames
    /\ ret' = Answer("lookupfree", ret'.Location, "SUCCESS", FALSE)
    /\ UNCHANGED <<phase, MaxPAddr, Used>>

(* A call that reads the frame size KiStartupSystem set is a call on the   *)
(* set of used frames of FrameSet: byte and bit arithmetic never confuses  *)
(* two frames, every call answers from the frame it names, and the free    *)
(* frame found is the lowest one, below 1 MiB too ("Don't use below 1MB    *)
(* memory. Ever.", kernel_main.c:187).  The one exception is               *)
(* OffersPastMemory.                                                       *)
ImplementsFrameSet ==
    /\ FS!Init
    /\ [][read' = FrameSize => FS!Next \/ OffersPastMemory]_(FS!vars)
=============================================================================
