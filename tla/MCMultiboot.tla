---------------------------- MODULE MCMultiboot -----------------------------
(* Instances of Multiboot for TLC. *)
EXTENDS Multiboot

(* The offset of each tag follows from the sizes of those before it. *)
Laid(tags) ==
    LET at[k \in 1 .. Len(tags)] ==
            IF k = 1 THEN 1 ELSE at[k - 1] + (tags[k - 1].size + 7) \div 8
    IN  [k \in 1 .. Len(tags) |-> [tags[k] EXCEPT !.at = at[k]]]

Tag(type, size) == [type |-> type, size |-> size, at |-> 0, entries |-> <<>>]
MemMap(entries) == [type |-> MEM_MAP, size |-> 16 + 24 * Len(entries), at |-> 0,
                    entries |-> entries]
Entry(addr, len, type) == [addr |-> addr, len |-> len, type |-> type]

(* Low memory, free memory, a hole with bad memory, reserved memory. *)
Machine == << Entry(0, 40, 1), Entry(60, 100, 1), Entry(200, 20, 5), Entry(180, 20, 2) >>

(* The memory map first, in the middle and last, tags whose size is no     *)
(* multiple of 8, an empty memory map and none; addresses that look like   *)
(* the type of a memory map where they overwrite a tag.                    *)
Tags ==
    { << MemMap(SubSeq(Machine, 1, n)), Tag(FRAME_BUFFER, 31), Tag(4, 16) >> : n \in 0 .. 4 }
    \cup
    { << Tag(CMD_LINE, 11), MemMap(SubSeq(Machine, 1, n)), Tag(BOOT_LOADER, 9),
         Tag(FRAME_BUFFER, 32) >> : n \in {1, 3} }
    \cup
    { << Tag(BOOT_LOADER, 13), Tag(FRAME_BUFFER, 31), MemMap(Machine) >>,
      << Tag(FRAME_BUFFER, 32), MemMap(Tail(Machine)), Tag(5, 20), Tag(CMD_LINE, 9) >>,
      << Tag(CMD_LINE, 9) >>,
      << MemMap(<< Entry(106, 894, 1) >>) >>,
      << MemMap(<< Entry(106, 100, 1), Entry(300, 6, 2) >>), Tag(FRAME_BUFFER, 31) >> }

MCInfos == {Laid(tags) : tags \in Tags}

(* Below the tables, at every offset up to behind both tables. *)
MCPlaces == {-40} \cup (0 .. 16) \cup {40}

MCAddresses == -45 .. 75
=============================================================================
