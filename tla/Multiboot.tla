----------------------------- MODULE Multiboot ------------------------------
(***************************************************************************)
(* From the boot loader's information to the memory manager's ranges: the  *)
(* tag loop of kern_init, HandleMemory, which writes a table of ranges     *)
(* behind the kernel, and KiStartupSystem, which copies that table.  The   *)
(* boot loader may have put its information where the tables are written,  *)
(* so memory is modelled: words of 8 bytes, addressed relative to          *)
(* kernel_end (a multiple of 8).  A word has a low and a high half.        *)
(***************************************************************************)
EXTENDS Integers, Sequences, FiniteSetsExt

CONSTANTS
    Infos,        \* the possible boot informations: sequences of tags
    Places,       \* the words where they may begin
    HalfRange,    \* number of values of half a word (2^32)
    TypeRange,    \* number of values of a UINT16, as the loop keeps a type
    LowMemory,    \* the memory that is never used (1 MiB)
    Addresses     \* the words that are modelled

(* The tags of multiboot2.h and the usages of mm.h. *)
END == 0
CMD_LINE == 1
BOOT_LOADER == 2
MEM_MAP == 6
FRAME_BUFFER == 8
FREE_AREA == 9
RESERVED_AREA == 11
OTHER_AREA == 12

(* MemRange[i], behind the count at kernel_end. *)
RangeAt(i) == 1 + 3 * i

(* Ranges[i] of KiStartupSystem: MemoryRanges + NumMemoryRanges + 1. *)
MutRangesAt(n, i) == RangeAt(n + 1) + 4 * i
RangesAt(n, i) == RangeAt(n + 1) + 5 * i

(* A tag has a type, a size in bytes, the offset in words where it begins, *)
(* and, if it is the memory map, entries.                                  *)
MapEntries == {e \in [addr : Nat, len : Nat, type : 0 .. HalfRange - 1] :
                 e.addr + e.len < HalfRange * HalfRange}
TagSet == {t \in [type : 1 .. TypeRange - 1, size : 8 .. HalfRange - 8, at : Nat,
                  entries : Seq(MapEntries)] :
             IF t.type = MEM_MAP THEN t.size = 16 + 24 * Len(t.entries)
                                 ELSE t.entries = <<>>}

(* The next tag begins at the next word, the first one behind the header.  *)
TagEnd(tag) == tag.at + (tag.size + 7) \div 8
TagOffset(tags, k) == IF k = 1 THEN 1 ELSE TagEnd(tags[k - 1])
InfoEnd(tags) == TagOffset(tags, Len(tags) + 1)

(* There is one memory map at most, and memory holds what is asked about.  *)
ASSUME InfoAssumption ==
    /\ HalfRange \in Nat /\ TypeRange \in Nat
    /\ 24 < TypeRange /\ TypeRange <= HalfRange /\ LowMemory \in Nat
    /\ Places \subseteq Int /\ Addresses \subseteq Int
    /\ \A tags \in Infos :
         /\ tags \in Seq(TagSet)
         /\ \A k \in 1 .. Len(tags) : tags[k].at = TagOffset(tags, k)
         /\ \A j, k \in 1 .. Len(tags) :
              tags[j].type = MEM_MAP /\ tags[k].type = MEM_MAP => j = k
         /\ \A p \in Places : p .. p + InfoEnd(tags) \subseteq Addresses
         /\ \A k \in 1 .. Len(tags) :
              LET n == Len(tags[k].entries) IN 0 .. RangesAt(n, n) \subseteq Addresses

VARIABLES
    info, place,        \* the boot loader's information and where it is
    mem,                \* memory
    pc,                 \* "tags", "entries", "ranges", "started" or "fault"
    MultibootInfo,      \* the current tag
    Index, MaxIndex,    \* of the loop in progress
    MaxAddress,         \* as in mb2entry.c
    NumMemoryRanges,    \* of BootInfo
    Framebuffer,        \* the tag it was taken from, "uninitialized" before
    MaximumPAddr,       \* what the memory manager finds
    handled,            \* history: the tags handled
    maps                \* history: calls of HandleMemory, 2 for more than one

vars == <<info, place, mem, pc, MultibootInfo, Index, MaxIndex, MaxAddress,
          NumMemoryRanges, Framebuffer, MaximumPAddr, handled, maps>>

-----------------------------------------------------------------------------
(* Words *)

Word(value) == [lo |-> value % HalfRange, hi |-> (value \div HalfRange) % HalfRange]
Value(word) == word.lo + HalfRange * word.hi
Blank == Word(0)

At(a) == IF a \in Addresses THEN mem[a] ELSE Blank

(* Words stored from address a on. *)
Store(m, a, words) ==
    [b \in Addresses |-> IF b - a + 1 \in DOMAIN words THEN words[b - a + 1] ELSE m[b]]
(* A 4-byte field stored at a leaves the high half of its word alone. *)
StoreLow(m, a, value) ==
    [b \in Addresses |-> IF b = a THEN [m[b] EXCEPT !.lo = value] ELSE m[b]]

-----------------------------------------------------------------------------
(* What the boot loader leaves in memory. *)

EntryWord(entry, f) ==
    Word(IF f = 0 THEN entry.addr ELSE IF f = 1 THEN entry.len ELSE entry.type)

(* Word o of a tag: its header, entry_size and entries, or a text. *)
TagWord(tag, o) ==
    IF o = 0 THEN [lo |-> tag.type, hi |-> tag.size] ELSE
    IF tag.type # MEM_MAP THEN Word(99) ELSE
    IF o = 1 THEN Word(24) ELSE
    EntryWord(tag.entries[(o - 2) \div 3 + 1], (o - 2) % 3)

(* Word o of the information, which ends with an END tag. *)
Covers(tag, o) == o \in tag.at .. TagEnd(tag) - 1
InfoWord(tags, o) ==
    IF \E k \in 1 .. Len(tags) : Covers(tags[k], o)
    THEN LET tag == tags[CHOOSE k \in 1 .. Len(tags) : Covers(tags[k], o)]
         IN  TagWord(tag, o - tag.at)
    ELSE IF o = InfoEnd(tags) THEN [lo |-> END, hi |-> 8] ELSE Blank

(* Where the k-th tag of the information is. *)
TagAt(k) == place + TagOffset(info, k)

(* MemoryMap->entries[i] *)
MutEntryAt(MemoryMap, i) == MemoryMap + 1 + 3 * i
EntryAt(MemoryMap, i) == MemoryMap + 2 + 3 * i

Init ==
    /\ info \in Infos
    /\ place \in Places
    /\ mem = [a \in Addresses |->
                IF a - place \in 0 .. InfoEnd(info) THEN InfoWord(info, a - place)
                                                   ELSE Blank]
    /\ pc = "tags"
    /\ MultibootInfo = place + 1
    /\ Index = 0 /\ MaxIndex = 0
    /\ MaxAddress = 0 /\ NumMemoryRanges = 0
    /\ Framebuffer = "uninitialized"
    /\ MaximumPAddr = 0
    /\ handled = {} /\ maps = 0

-----------------------------------------------------------------------------
(* The tag loop of kern_init. *)

Type == At(MultibootInfo).lo % TypeRange
MutIsEnd == Type \notin {CMD_LINE, BOOT_LOADER, MEM_MAP, FRAME_BUFFER}
IsEnd == At(MultibootInfo).lo = END

(* The tag after tag t. *)
MutNextTag(t) == t + At(t).hi \div 8
NextTag(t) == t + ((At(t).hi + 7) % HalfRange) \div 8

(* A tag other than the memory map.  The text of a string is left out: it  *)
(* is printed where the tag is handled, in the loop in which HandleMemory  *)
(* may have written over it.                                               *)
HandleTag ==
    /\ pc = "tags"
    /\ ~ IsEnd /\ Type # MEM_MAP
    /\ Framebuffer' = IF Type = FRAME_BUFFER THEN "known" ELSE Framebuffer
    /\ MultibootInfo' = NextTag(MultibootInfo)
    /\ handled' = handled \cup {MultibootInfo}
    /\ UNCHANGED <<info, place, mem, pc, Index, MaxIndex, MaxAddress,
                   NumMemoryRanges, MaximumPAddr, maps>>

EntrySize == At(MultibootInfo + 1).lo

(* HandleMemory up to its loop. *)
BeginHandleMemory ==
    /\ pc = "tags"
    /\ ~ IsEnd /\ Type = MEM_MAP
    /\ EntrySize # 0
    /\ pc' = "entries"
    /\ Index' = 0
    /\ MaxIndex' = At(MultibootInfo).hi \div EntrySize
    /\ mem' = Store(mem, 0, <<Word(MaxIndex')>>)
    /\ handled' = handled \cup {MultibootInfo}
    /\ maps' = IF maps = 0 THEN 1 ELSE 2
    /\ UNCHANGED <<info, place, MultibootInfo, MaxAddress, NumMemoryRanges,
                   Framebuffer, MaximumPAddr>>

(* Its division, when the tag is no longer what it was: the exception has  *)
(* no gate yet.                                                            *)
DivideError ==
    /\ pc = "tags"
    /\ ~ IsEnd /\ Type = MEM_MAP
    /\ EntrySize = 0
    /\ pc' = "fault"
    /\ UNCHANGED <<info, place, mem, MultibootInfo, Index, MaxIndex, MaxAddress,
                   NumMemoryRanges, Framebuffer, MaximumPAddr, handled, maps>>

UsageOf(type) == IF type = 1 THEN FREE_AREA ELSE
                 IF type \in 2 .. 4 THEN RESERVED_AREA ELSE OTHER_AREA

MutMoreEntries == Index <= MaxIndex
MoreEntries == Index < MaxIndex

(* One round: the entry is read whole before its range is written. *)
HandleEntry ==
    /\ pc = "entries"
    /\ MoreEntries
    /\ LET e     == EntryAt(MultibootInfo, Index)
           Start == Value(At(e))
           End   == Value(Word(Start + Value(At(e + 1))))
           usage == UsageOf(At(e + 2).lo)
       IN  /\ mem' = Store(StoreLow(mem, RangeAt(Index), usage),
                           RangeAt(Index) + 1, <<Word(Start), Word(End)>>)
           /\ MaxAddress' = IF End > MaxAddress THEN End ELSE MaxAddress
    /\ Index' = Index + 1
    /\ UNCHANGED <<info, place, pc, MultibootInfo, MaxIndex, NumMemoryRanges,
                   Framebuffer, MaximumPAddr, handled, maps>>

(* The end of HandleMemory, and the step of the tag loop, which reads the  *)
(* size of the tag again.                                                  *)
EndHandleMemory ==
    /\ pc = "entries"
    /\ ~ MoreEntries
    /\ NumMemoryRanges' = MaxIndex
    /\ pc' = "tags"
    /\ MultibootInfo' = NextTag(MultibootInfo)
    /\ UNCHANGED <<info, place, mem, Index, MaxIndex, MaxAddress, Framebuffer,
                   MaximumPAddr, handled, maps>>

(* The end tag: the console is prepared and KiSystemStartup begins. *)
EndTags ==
    /\ pc = "tags"
    /\ IsEnd
    /\ pc' = "ranges"
    /\ Index' = 0
    /\ UNCHANGED <<info, place, mem, MultibootInfo, MaxIndex, MaxAddress,
                   NumMemoryRanges, Framebuffer, MaximumPAddr, handled, maps>>

-----------------------------------------------------------------------------
(* KiStartupSystem(FERAL_SUBSYSTEM_MEMORY_MANAGEMENT) *)

STypeOf(usage, Start) == IF Start < LowMemory THEN RESERVED_AREA ELSE usage

CopyRange ==
    /\ pc = "ranges"
    /\ Index < NumMemoryRanges
    /\ LET from == RangeAt(Index)
           to   == RangesAt(NumMemoryRanges, Index)
       IN  mem' = Store(StoreLow(mem, to, STypeOf(At(from).lo, Value(At(from + 1)))),
                        to + 1,
                        <<Blank, At(from + 1), At(from + 2),
                          Word(Value(At(from + 2)) - Value(At(from + 1)))>>)
    /\ Index' = Index + 1
    /\ UNCHANGED <<info, place, pc, MultibootInfo, MaxIndex, MaxAddress,
                   NumMemoryRanges, Framebuffer, MaximumPAddr, handled, maps>>

(* KiInitializeMemMgr reads the ranges; PhysFrames takes it from there. *)
KiInitializeMemMgr ==
    /\ pc = "ranges"
    /\ Index = NumMemoryRanges
    /\ pc' = "started"
    /\ MaximumPAddr' = Max({0} \cup {Value(At(RangesAt(NumMemoryRanges, i) + 3)) :
                                        i \in 0 .. NumMemoryRanges - 1})
    /\ UNCHANGED <<info, place, mem, MultibootInfo, Index, MaxIndex, MaxAddress,
                   NumMemoryRanges, Framebuffer, handled, maps>>

(* The rest of the kernel leaves the tables alone. *)
Rest == pc \in {"started", "fault"} /\ UNCHANGED vars

Step == \/ HandleTag \/ BeginHandleMemory \/ DivideError \/ HandleEntry \/ EndHandleMemory
        \/ EndTags \/ CopyRange \/ KiInitializeMemMgr
Next == Step \/ Rest

(* The processor keeps executing. *)
Spec == Init /\ [][Next]_vars /\ WF_vars(Step)

-----------------------------------------------------------------------------
(* Properties *)

(* The entries of the memory map, if there is one. *)
MemMaps == {k \in 1 .. Len(info) : info[k].type = MEM_MAP}
Entries == IF MemMaps = {} THEN <<>> ELSE info[CHOOSE k \in MemMaps : TRUE].entries

(* The information ends below the tables, or begins behind kernel_end, or  *)
(* begins behind the first table.                                          *)
Below == place + InfoEnd(info) < 0
Behind == place >= 0
Apart == Below \/ place >= RangeAt(Len(Entries))

Words == [lo : 0 .. HalfRange - 1, hi : 0 .. HalfRange - 1]

(* Types; a table loop stays within the table. *)
TypeOK ==
    /\ pc \in {"tags", "entries", "ranges", "started", "fault"}
    /\ mem \in [Addresses -> Words]
    /\ MultibootInfo \in Int
    /\ Index \in Nat /\ MaxIndex \in Nat /\ NumMemoryRanges \in Nat
    /\ Index <= IF pc \in {"ranges", "started"} THEN NumMemoryRanges ELSE MaxIndex
    /\ MaxAddress \in Nat /\ MaximumPAddr \in Nat
    /\ Framebuffer \in {"uninitialized", "known"}
    /\ maps \in 0 .. 2

(* Range i of the first table is entry e. *)
RangeIs(i, e) ==
    /\ At(RangeAt(i)).lo = UsageOf(e.type)
    /\ Value(At(RangeAt(i) + 1)) = e.addr
    /\ Value(At(RangeAt(i) + 2)) = e.addr + e.len

(* HandleMemory records the memory map even when it overwrites it: if the  *)
(* information begins at kernel_end or later, each range is written over   *)
(* entries already read, and the second table leaves the first one alone.  *)
(* What is left of an overwritten tag may call it again: that is excluded. *)
RangesRecorded ==
    maps = 1 /\ pc # "entries" /\ (Below \/ Behind) =>
        /\ NumMemoryRanges = Len(Entries)
        /\ \A i \in 1 .. Len(Entries) : RangeIs(i - 1, Entries[i])

(* If the first table does not touch the information, the loop of kern_init *)
(* has handled every tag when it ends, and the frame buffer it prepares is *)
(* the boot loader's.                                                      *)
EveryTagHandled ==
    pc = "ranges" /\ Apart =>
        /\ handled = {TagAt(k) : k \in 1 .. Len(info)}
        /\ (\E k \in 1 .. Len(info) : info[k].type = FRAME_BUFFER) => Framebuffer = "known"

(* Range i of the second table is entry e, reserved if in low memory. *)
CopyIs(i, e) ==
    LET r == RangesAt(Len(Entries), i)
    IN  /\ At(r).lo = IF e.addr < LowMemory THEN RESERVED_AREA ELSE UsageOf(e.type)
        /\ Value(At(r + 2)) = e.addr
        /\ Value(At(r + 3)) = e.addr + e.len
        /\ Value(At(r + 4)) = e.len

(* What the memory manager gets: the machine's ranges with everything that *)
(* starts in low memory reserved, although the second table is built right *)
(* behind the first; and the highest address that it computes is the one   *)
(* that the firmware interface reports.                                    *)
HandedOver ==
    pc = "started" /\ maps < 2 /\ (Below \/ Behind) =>
        /\ MaximumPAddr = MaxAddress
        /\ NumMemoryRanges = Len(Entries)
        /\ \A i \in 1 .. Len(Entries) : CopyIs(i - 1, Entries[i])

(* The loop reaches the end tag and the memory manager starts. *)
StartsUp == Apart ~> pc = "started"
=============================================================================
