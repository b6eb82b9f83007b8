----------------------------- MODULE MCKernelLib -----------------------------
(* Numbers of eight bits, memory of 36 cells, an index of four bits, pages  *)
(* of eight bytes, and formats of up to three parts.                        *)
EXTENDS KernelLib

(* Three equal parts of nine cells, and a tail like none of them.           *)
MCContents == [c \in 0 .. Cells - 1 |-> IF c < 27 THEN c % 9 ELSE c]

Piece(fmt, prints) == [fmt |-> fmt, prints |-> prints, takes |-> ""]
Taking(letter, takes) == [fmt |-> <<37, letter>>, prints |-> <<>>, takes |-> takes]

(* "a", "%%", "%y", a line end, a tab, a bell, "%03", the "%01u" of the     *)
(* kernel's first message, and the conversions.                             *)
MCPieces ==
    {Piece(<<97>>, <<Item("char", 97)>>), Piece(<<37, 37>>, <<Item("char", 37)>>),
     Piece(<<37, 121>>, <<>>), Piece(<<10>>, <<Item("line", 0)>>),
     Piece(<<9>>, [k \in 1 .. 8 |-> Item("char", 32)]), Piece(<<7>>, <<>>),
     Piece(<<37, 48, 51>>, [k \in 1 .. 3 |-> Item("char", 48)]),
     Piece(<<37, 48, 49, 117>>, <<Item("char", 48), Item("char", 117)>>),
     Taking(115, "string"), Taking(105, "signed"), Taking(108, "signed"),
     Taking(117, "unsigned"), Taking(120, "hex")}
=============================================================================
