------------------------------ MODULE MCLoader -------------------------------
(* Nine pages, six of them below the limit; page 0 holds the buffer of the  *)
(* segments.  The first map has room for every buffer, the others make the  *)
(* firmware run out of memory before the last of them.  The first image is  *)
(* complete, the second ends right behind its program headers, the third is *)
(* linked for KERN_VIRT_OFFSET, the fourth has what looks like a segment    *)
(* for a page of the kernel behind its headers, the fifth is linked to      *)
(* where the buffers are, the sixth has more headers than the loop reads,   *)
(* the seventh begins its headers where Index cannot count to, the last     *)
(* three have a wrong header.                                               *)
EXTENDS Loader

Row(a, b, c, d, e, f, g, h, i) ==
    [p \in PageSet |-> <<a, b, c, d, e, f, g, h, i>>[p + 1]]
MCFirmwareMaps ==
    {Row("boot", "free", "free", "free", "free", "free", "free", "boot", "mmio"),
     Row("boot", "free", "boot", "free", "free", "mmio", "free", "free", "free"),
     Row("boot", "boot", "runtime", "boot", "boot", "free", "free", "free", "free")}

NoLoad == Header(FALSE, "low", 0, "none")
First == Header(TRUE, "low", 6, "first")
Second == Header(TRUE, "high", 7, "second")
File(slots, e_phnum) == ElfHeader(TRUE, "x86_64", e_phnum, 4, slots)
MCImages ==
    {File(<<NoLoad, First, Second, NoLoad, NoLoad>>, 3),
     File(<<First, Second>>, 2),
     File(<<First, Header(TRUE, "between", 7, "second")>>, 2),
     File(<<First, Second, Header(TRUE, "low", 6, "tail")>>, 2),
     File(<<Header(TRUE, "low", 3, "first"), Header(TRUE, "low", 4, "second")>>, 2),
     ElfHeader(TRUE, "none", 2, 1, <<First, Second>>),
     ElfHeader(TRUE, "x86_64", 2, 5, <<First, Second>>),
     ElfHeader(FALSE, "x86_64", 1, 4, <<First>>),
     ElfHeader(TRUE, "aarch64", 1, 4, <<First>>),
     ElfHeader(TRUE, "none", 0, 4, <<NoLoad>>)}
MCStackHeaders == {NoLoad, Header(TRUE, "low", 1, "stray")}
=============================================================================
