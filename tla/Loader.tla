------------------------------- MODULE Loader -------------------------------
(***************************************************************************)
(* The UEFI boot loader (boot.c): it collects the displays, loads the      *)
(* kernel image, turns the memory map of the firmware into the ranges the  *)
(* kernel reads, ends the boot services and enters the kernel.             *)
(*                                                                         *)
(* Memory is a row of pages; every buffer of the loader takes one page.    *)
(* The firmware (EFI_BOOT_SERVICES) is external: it gives out any page      *)
(* that suits, changes the map key with every allocation, and its          *)
(* memory map has one descriptor for every run of pages of one type.       *)
(* Files, displays and protocols may fail at every call.                   *)
(***************************************************************************)
EXTENDS Naturals, Sequences, FiniteSets

CONSTANTS
    MemPages,     \* pages of the machine
    LimitPage,    \* MAX_INIT_PAGED, 2 MiB, as a page
    FirmwareMaps, \* the types of the pages at boot
    Images,       \* kernel files
    StackHeaders, \* what ProgramHeader may hold before it is read
    IndexRange,   \* 2^32, the values of the UINT32 Index
    DescriptorSizes, \* of the firmware's descriptors
    SizeOf,       \* sizeof(EFI_MEMORY_DESCRIPTOR)
    MaxDisplays,
    MaxRows       \* bound on what DisplayBuffers[1] may hold

VARIABLES
    pc,        \* the next part of uefi_main
    types,     \* the firmware's memory map
    key,       \* its current key
    services,  \* boot services are active
    image,     \* the kernel file
    Index,     \* of the loop over the program headers
    header,    \* ProgramHeader, the last one read
    PHdrSize,  \* bytes the next read asks for: all of a header, 1, or none, 0
    content,   \* what was last stored in each page
    buf,       \* the page of each buffer, None before it is allocated
    local,     \* MapSize, MapKey, DescriptorSize, the map, the ranges, the rows left
    ignored    \* failures the loader did not act on

vars == <<pc, types, key, services, image, Index, header, PHdrSize, content, buf, local,
          ignored>>
firmware == <<types, key, services>>
file == <<image, Index, header, PHdrSize>>

PageSet == 0 .. MemPages - 1
None == MemPages

(* EFI_MEMORY_TYPE in four classes: conventional memory, what the loader   *)
(* and the boot services use, what the run-time services keep, devices.    *)
Kinds == {"free", "boot", "runtime", "mmio"}

(* EFI_MEMORY_DESCRIPTOR: the type, and the pages. *)
Descriptor == [Type : Kinds, first : PageSet, last : PageSet]

(* The header of the file, with the slots that follow it: program headers, *)
(* and behind e_phnum of them whatever is in the file.                     *)
MachineId == {"none", "x86_64", "aarch64"}
ElfHeader(magic, e_machine, e_phnum, e_phoff, slots) ==
    [magic |-> magic, e_machine |-> e_machine, e_phnum |-> e_phnum, e_phoff |-> e_phoff,
     slots |-> slots]

(* A program header: PT_LOAD or not; the segment's address low, "high"     *)
(* above FERAL_VIRT_OFFSET, or between the two; its page and its bytes.    *)
Header(load, at, page, id) == [load |-> load, at |-> at, page |-> page, id |-> id]
Headers == [load : BOOLEAN, at : {"low", "between", "high"}, page : PageSet, id : STRING]

ASSUME LoaderAssumption ==
    /\ MemPages \in Nat /\ LimitPage \in 2 .. MemPages
    /\ FirmwareMaps \subseteq [PageSet -> Kinds]
    /\ \A img \in Images : /\ img.e_machine \in MachineId /\ img.slots \in Seq(Headers)
                           /\ img.e_phnum \in Nat /\ img.e_phoff \in Nat
    /\ StackHeaders \subseteq Headers
    /\ IndexRange \in Nat \ {0} /\ MaxRows \in Nat
    /\ SizeOf \in Nat \ {0} /\ \A s \in DescriptorSizes : s \in Nat /\ SizeOf <= s

Buffers == {"displays", "map", "ranges", "env"}

Init ==
    /\ pc = "locate"
    /\ types \in FirmwareMaps
    /\ key = 1
    /\ services = TRUE
    /\ image \in Images
    /\ Index = 0
    /\ header \in StackHeaders
    /\ PHdrSize = 1
    /\ content = [p \in PageSet |-> "old"]
    /\ buf = [b \in Buffers |-> None]
    /\ local = [NumDisplays |-> 0, MapSize |-> 0, MapKey |-> 0, DescriptorSize |-> 0,
                map |-> {}, ranges |-> {}, Rows |-> 0]
    /\ ignored = {}

Go(next) == pc' = next
Ignore(what) == ignored' = ignored \cup {what}

-----------------------------------------------------------------------------
(* The firmware's memory map *)

(* The runs of pages of one type. *)
Descriptors(t) ==
    {d \in Descriptor :
        /\ d.first <= d.last
        /\ \A p \in d.first .. d.last : t[p] = d.Type
        /\ d.first = 0 \/ t[d.first - 1] # d.Type
        /\ d.last = MemPages - 1 \/ t[d.last + 1] # d.Type}

(* AllocatePages(AllocateMaxAddress) with MaxAddress - Amt: the page must  *)
(* end before that, so that the last page below the limit never suits.     *)
MutSuitable == {p \in PageSet : types[p] = "free"}
Suitable == {p \in 0 .. LimitPage - 2 : types[p] = "free"}

(* EfiAllocMaxAddr.  When the firmware has no page, the pointer still gets *)
(* MaxAddress - Amt, an address nobody reserved.                           *)
EfiAllocMaxAddr(b) ==
    \/ /\ \E p \in Suitable :
            /\ buf' = [buf EXCEPT ![b] = p]
            /\ types' = [types EXCEPT ![p] = "runtime"]
       /\ key' = key + 1
       /\ UNCHANGED ignored
    \/ /\ Suitable = {}
       /\ buf' = [buf EXCEPT ![b] = LimitPage - 1]
       /\ Ignore("memory")
       /\ UNCHANGED <<types, key>>

-----------------------------------------------------------------------------
(* uefi_main up to the kernel file *)

(* The watchdog is off from here on: a loop that does not end hangs.       *)
LocateDisplays ==
    /\ pc = "locate"
    /\ \/ Go("returned") /\ UNCHANGED local
       \/ \E n \in 1 .. MaxDisplays :
            /\ local' = [local EXCEPT !.NumDisplays = n]
            /\ Go("displays")
    /\ UNCHANGED <<firmware, file, content, buf, ignored>>

AllocateDisplays ==
    /\ pc = "displays"
    /\ EfiAllocMaxAddr("displays")
    /\ Go("framebuffers")
    /\ UNCHANGED <<services, file, content, local>>

(* SetupEfiFramebufferData stops at the first display that fails, and its  *)
(* result is not looked at: NumDisplays stays as it was.                   *)
SetupEfiFramebufferData ==
    /\ pc = "framebuffers"
    /\ content' = [content EXCEPT ![buf["displays"]] = "displays"]
    /\ Go("protocols")
    /\ \/ UNCHANGED ignored
       \/ Ignore("display")
    /\ UNCHANGED <<firmware, file, buf, local>>

(* The loaded image, the file system and the kernel file: an error         *)
(* returns, except that of OpenVolume, after which ESPRoot is NULL.        *)
OpenKernelFile ==
    /\ pc = "protocols"
    /\ pc' \in {"returned", "fault", "header"}
    /\ UNCHANGED <<firmware, file, content, buf, local, ignored>>

-----------------------------------------------------------------------------
(* ElfLoadFile *)

ValidateElfHeader(img) == img.magic /\ img.e_machine \in {"none", "x86_64"} /\ img.e_phnum # 0

(* An error resets the machine. *)
ReadElfHeader ==
    /\ pc = "header"
    /\ \/ Go("reset")
       \/ Go(IF ValidateElfHeader(image) THEN "segments" ELSE "reset")
    /\ UNCHANGED <<firmware, file, content, buf, local, ignored>>

(* The loop counts to e_phoff, not to e_phnum, and Index has fewer bits.   *)
MutLoopEnds == Index >= image.e_phnum - 1
LoopEnds == Index >= image.e_phoff

(* Reading a program header.  PHdrSize becomes what was read: at the end   *)
(* of the file that is nothing, and nothing is read from then on; behind   *)
(* the end, and where the device fails, it may be kept.  The status is not *)
(* looked at, and a header that is not read keeps its old value.  A file   *)
(* ends between two slots, and before 4 GiB, where the offset e_phentsize  *)
(* * Index would wrap.                                                     *)
HeaderRead ==
    \/ /\ PHdrSize = 1
       /\ Index < Len(image.slots)
       /\ header' = image.slots[Index + 1]
       /\ UNCHANGED <<PHdrSize, ignored>>
    \/ /\ PHdrSize = 0 \/ Index >= Len(image.slots)
       /\ PHdrSize' \in {PHdrSize, 0}
       /\ UNCHANGED <<header, ignored>>
    \/ /\ PHdrSize' \in {PHdrSize, 0}
       /\ Ignore("read")
       /\ UNCHANGED header

(* Virtual addresses above FERAL_VIRT_OFFSET lose it, those below do not;  *)
(* of those only the low ones are addresses of memory.                     *)
IsMemory(h) == h.at # "between"

(* The segment goes through a buffer at address 0, which EfiMem is; a      *)
(* failing read is reported and the old bytes are copied.                  *)
CopySegment(h) ==
    \/ /\ content' = [content EXCEPT ![0] = h.id, ![h.page] = h.id]
       /\ UNCHANGED ignored
    \/ /\ content' = [content EXCEPT ![h.page] = content[0]]
       /\ Ignore("read")

(* EfiAllocAddr returns TRUE for success, which is compared with           *)
(* EFI_SUCCESS, 0: an allocation that succeeds ends the loading, one that  *)
(* fails lets it go on.                                                    *)
LoadSegment ==
    /\ pc = "segments"
    /\ ~ LoopEnds
    /\ HeaderRead
    /\ Go("copy")
    /\ UNCHANGED <<firmware, image, Index, content, buf, local>>

PlaceSegment ==
    /\ pc = "copy"
    /\ \/ /\ ~ header.load
          /\ Index' = (Index + 1) % IndexRange
          /\ Go("segments")
          /\ UNCHANGED <<content, ignored>>
       \/ /\ header.load
          /\ Go(IF IsMemory(header) THEN "reset" ELSE "fault")
          /\ UNCHANGED <<Index, content, ignored>>
       \/ /\ header.load
          /\ IsMemory(header)
          /\ CopySegment(header)
          /\ Index' = (Index + 1) % IndexRange
          /\ Go("segments")
    /\ UNCHANGED <<firmware, image, header, PHdrSize, buf, local>>

CloseFile ==
    /\ pc = "segments"
    /\ LoopEnds
    /\ Go("mapsize")
    /\ UNCHANGED <<firmware, file, content, buf, local, ignored>>

-----------------------------------------------------------------------------
(* The memory map *)

(* The sizes asked for first, and the descriptors added. *)
Spare == 2

GetMapSize ==
    /\ pc = "mapsize"
    /\ \E s \in DescriptorSizes :
         local' = [local EXCEPT !.MapSize = Cardinality(Descriptors(types)) + Spare,
                                !.DescriptorSize = s]
    /\ Go("mapbuffer")
    /\ UNCHANGED <<firmware, file, content, buf, ignored>>

AllocateMap ==
    /\ pc = "mapbuffer"
    /\ EfiAllocMaxAddr("map")
    /\ Go("getmap")
    /\ UNCHANGED <<services, file, content, local>>

(* GetMemoryMap: MapSize becomes the size of the map in either case; a     *)
(* buffer that is too small stays as it is, and so does MapKey.            *)
GetMemoryMap ==
    /\ pc = "getmap"
    /\ LET d    == Descriptors(types)
           fits == Cardinality(d) <= local.MapSize
       IN  /\ local' = [local EXCEPT !.MapSize = Cardinality(d),
                                     !.MapKey = IF fits THEN key ELSE @,
                                     !.map = IF fits THEN d ELSE @]
           /\ content' = IF fits THEN [content EXCEPT ![buf["map"]] = "map"] ELSE content
           /\ ignored' = IF fits THEN ignored ELSE ignored \cup {"map"}
    /\ Go("ranges")
    /\ UNCHANGED <<firmware, file, buf>>

AllocateRanges ==
    /\ pc = "ranges"
    /\ EfiAllocMaxAddr("ranges")
    /\ Go("env")
    /\ UNCHANGED <<services, file, content, local>>

MutAllocateEnvBlock ==
    /\ pc = "env"
    /\ EfiAllocMaxAddr("env")
    /\ Go(IF "memory" \in ignored' THEN "env" ELSE "fill")
    /\ UNCHANGED <<services, file, content, local>>
AllocateEnvBlock ==
    /\ pc = "env"
    /\ EfiAllocMaxAddr("env")
    /\ Go("fill")
    /\ UNCHANGED <<services, file, content, local>>

MutGetEfiMemoryMapToFreeOrNot(t) ==
    IF t \in {"free", "boot"} THEN "FREE" ELSE IF t = "runtime" THEN "USED" ELSE "OTHER"
GetEfiMemoryMapToFreeOrNot(t) ==
    IF t = "free" THEN "FREE" ELSE IF t \in {"boot", "runtime"} THEN "USED" ELSE "OTHER"

RangeOf(d) == [Usage |-> GetEfiMemoryMapToFreeOrNot(d.Type),
               Start |-> d.first, End |-> d.last + 1]

(* The firmware lays the descriptors out DescriptorSize apart, and they    *)
(* are counted so; MemoryMap[Iterator] is SizeOf * Iterator into the map.  *)
Position(d) == Cardinality({e \in local.map : e.first < d.first})
Iterators == 0 .. local.MapSize - 1
IsRead(d) == \E i \in Iterators : SizeOf * i = local.DescriptorSize * Position(d)
FallsBetween(i) == \A k \in 0 .. i : SizeOf * i # local.DescriptorSize * k

(* What is read across two descriptors: its type, start and size are other *)
(* fields of theirs, and it stands for no run of pages.                    *)
Garbage == [Usage |-> "garbage", Start |-> 0, End |-> 0]

(* The ranges are written while the map is read.  Two buffers at the same  *)
(* address nobody reserved destroy each other; no range then stands for    *)
(* what the kernel finds.                                                  *)
FillRanges ==
    /\ pc = "fill"
    /\ local' = [local EXCEPT !.ranges =
         IF buf["map"] \in {buf["ranges"], buf["env"]} \/ buf["ranges"] = buf["env"]
         THEN {} ELSE {RangeOf(d) : d \in {e \in local.map : IsRead(e)}}
                        \cup {Garbage : i \in {j \in Iterators : FallsBetween(j)}}]
    /\ content' = [content EXCEPT ![buf["ranges"]] = "ranges", ![buf["env"]] = "env"]
    /\ Go("exit")
    /\ UNCHANGED <<firmware, file, buf, ignored>>

(* ExitBootServices refuses a key that is not the current one; the status  *)
(* is not looked at.  The rows of the screen are those of DisplayBuffers,  *)
(* which nobody wrote when the first display failed.                       *)
ExitBootServices ==
    /\ pc = "exit"
    /\ services' = (local.MapKey # key)
    /\ \E n \in 0 .. MaxRows : local' = [local EXCEPT !.Rows = n]
    /\ Go("blank")
    /\ UNCHANGED <<types, key, file, content, buf, ignored>>

(* The loop over the rows, whose body is commented out; then the kernel is *)
(* entered.                                                                *)
BlankScreen ==
    /\ pc = "blank"
    /\ \/ /\ local.Rows > 0
          /\ local' = [local EXCEPT !.Rows = @ - 1]
          /\ UNCHANGED pc
       \/ /\ local.Rows = 0
          /\ Go("kernel")
          /\ UNCHANGED local
    /\ UNCHANGED <<firmware, file, content, buf, ignored>>

Halt == pc \in {"returned", "reset", "fault", "kernel"} /\ UNCHANGED vars

Step ==
    \/ LocateDisplays \/ AllocateDisplays \/ SetupEfiFramebufferData \/ OpenKernelFile
    \/ ReadElfHeader \/ LoadSegment \/ PlaceSegment \/ CloseFile
    \/ GetMapSize \/ AllocateMap \/ GetMemoryMap \/ AllocateRanges \/ AllocateEnvBlock
    \/ FillRanges \/ ExitBootServices \/ BlankScreen
Next == Step \/ Halt

(* The loader is the only program that runs. *)
Spec == Init /\ [][Next]_vars /\ WF_vars(Step)

-----------------------------------------------------------------------------
(* Properties *)

(* Every variable has its type, Index stays below its range, and no buffer *)
(* is above 2 MiB, which the kernel could not reach.                       *)
TypeOK ==
    /\ types \in [PageSet -> Kinds]
    /\ key \in 1 .. 5
    /\ Index \in 0 .. IndexRange - 1 /\ Index <= image.e_phoff
    /\ PHdrSize \in {0, 1} /\ local.Rows \in 0 .. MaxRows
    /\ buf \in [Buffers -> (0 .. LimitPage - 1) \cup {None}]

(* The slots the loop comes to that hold a segment, program headers or     *)
(* what looks like one behind them; the pages no buffer is in (the one at  *)
(* address 0 is the buffer of the segments).                               *)
Segments == {i \in 1 .. Len(image.slots) : i <= image.e_phoff /\ image.slots[i].load}
NoBuffer(p) == p # 0 /\ \A b \in Buffers : buf[b] # p
InPlace(i) == content[image.slots[i].page] = image.slots[i].id

(* No later one is for the same page. *)
IsLast(i) == \A j \in Segments : j > i => image.slots[j].page # image.slots[i].page

(* When the kernel is entered, every page of the image holds the segment   *)
(* of the last slot that names it, although the loop goes on behind the    *)
(* program headers, and behind the end of the file with the last header it *)
(* read: unless a read failed, or a buffer was put where the image is,     *)
(* which no allocation reserved.  So the kernel itself is there ("bulldoze *)
(* whatever memory was there, and load the kernel there", boot.c:319) only *)
(* if no slot behind its headers looks like a segment for one of its pages.*)
ImageIsLoaded ==
    pc = "kernel" /\ "read" \notin ignored =>
        \A i \in Segments : NoBuffer(image.slots[i].page) /\ IsLast(i) => InPlace(i)

(* What is free in the map is free, or one of the two buffers allocated    *)
(* after it.                                                               *)
StillFree(p) == types[p] = "free" \/ p \in {buf["ranges"], buf["env"]}

(* The two spare descriptors are enough for the one allocation between the *)
(* two calls of GetMemoryMap, so that the map has every page of the        *)
(* machine, and no page of the firmware and none of the buffers allocated  *)
(* before is free in it, unless the firmware ran out of memory below       *)
(* 2 MiB.  The kernel gets the same, every page in exactly one range, if   *)
(* the descriptors are as large as the structure; if they are larger, and  *)
(* more than one, it gets a range read from between two of them.           *)
MapIsWhole ==
    pc = "kernel" /\ "memory" \notin ignored =>
        /\ "map" \notin ignored
        /\ \A p \in PageSet : \E d \in local.map :
             p \in d.first .. d.last /\ (d.Type = "free" => StillFree(p))
        /\ local.DescriptorSize = SizeOf =>
             /\ \A p \in PageSet : \E r \in local.ranges :
                  p \in r.Start .. r.End - 1 /\ (r.Usage = "FREE" => StillFree(p))
             /\ \A r, s \in local.ranges : r # s => r.End <= s.Start \/ s.End <= r.Start
        /\ local.DescriptorSize # SizeOf /\ local.MapSize > 1 => Garbage \in local.ranges

(* With the watchdog off the loader always comes to an end, unless the     *)
(* program headers begin at 4 GiB or behind: Index then never reaches      *)
(* e_phoff, and the kernel is never entered.                               *)
AlwaysEnds ==
    /\ image.e_phoff < IndexRange => <>(pc \in {"returned", "reset", "fault", "kernel"})
    /\ image.e_phoff >= IndexRange => [](pc # "kernel")

(* boot.c:665, "Terminate boot services (about to execute kernel)".        *)
BootServicesEnded == pc = "kernel" => ~ services
=============================================================================
