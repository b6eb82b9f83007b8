-------------------------------- MODULE Vga ---------------------------------
(***************************************************************************)
(* The VGA text driver of kern/arch/x86_64/vga/vga_driver.c as operators   *)
(* on a context c, each what one call of the function does when nothing    *)
(* interrupts it.  A context is a record with                              *)
(*   fb           the letters of the frame buffer, one per cell; "NUL" is  *)
(*                a cleared cell (colours are left out);                   *)
(*   CurrentRow, CurrentCol, CursorEnabled, FollowingInput                 *)
(*                as in VgaContext;                                        *)
(*   index, low, high                                                      *)
(*                the CRT controller: the register selected by the command *)
(*                port and the two halves of the cursor position;          *)
(*   stray        history: a cell outside the screen has been written.     *)
(***************************************************************************)
EXTENDS Integers, Sequences, SequencesExt

CONSTANTS ScreenWidth, ScreenHeight,
          PortRange      \* number of values of a data port (256)

ASSUME ScreenAssumption == /\ ScreenWidth \in Nat \ {0}
                           /\ ScreenHeight \in Nat \ {0}
                           /\ PortRange \in Nat \ {0}

Cells == 0 .. ScreenWidth * ScreenHeight - 1
Offset(PosX, PosY) == PosX + PosY * ScreenWidth

-----------------------------------------------------------------------------
(* Storing a letter; a store outside the frame buffer hits other memory. *)
StoreCell(c, Letter, PosX, PosY) ==
    IF Offset(PosX, PosY) \in Cells
    THEN [c EXCEPT !.fb[Offset(PosX, PosY)] = Letter]
    ELSE [c EXCEPT !.stray = TRUE]

(* The rows move up by one and the last one is cleared. *)
Scroll(c) == [c EXCEPT !.fb = [n \in Cells |->
                IF n + ScreenWidth \in Cells THEN c.fb[n + ScreenWidth] ELSE "NUL"]]

LowByte(pos) == pos % PortRange
HighByte(pos) == (pos \div PortRange) % PortRange

MutWriteCursorPorts(c, pos) ==
    [c EXCEPT !.index = "low", !.low = HighByte(pos)]
(* The four port writes of VgaMoveCursor. *)
WriteCursorPorts(c, pos) ==
    [c EXCEPT !.index = "high", !.low = LowByte(pos), !.high = HighByte(pos)]

(* The part of VgaEntry after its check of PosY. *)
PutEntry(c, Letter, PosX, PosY) ==
    [StoreCell(c, Letter, PosX, PosY) EXCEPT !.CurrentCol = PosX]

internalVgaPushUp(c) ==
    IF ~ c.CursorEnabled THEN Scroll(c)
    ELSE PutEntry(WriteCursorPorts(Scroll(c), Offset(0, ScreenHeight - 1)),
                  "NUL", 0, ScreenHeight - 1)

VgaEntry(c, Letter, PosX, PosY) ==
    PutEntry(IF PosY >= ScreenHeight THEN internalVgaPushUp(c) ELSE c,
             Letter, PosX, PosY)

VgaMoveCursor(c, PosX, PosY) ==
    IF ~ c.CursorEnabled THEN c
    ELSE VgaEntry(WriteCursorPorts(c, Offset(PosX, PosY)), "NUL", PosX, PosY)

-----------------------------------------------------------------------------
WrapCol(c) ==
    IF c.CurrentCol >= ScreenWidth
    THEN [c EXCEPT !.CurrentCol = 0, !.CurrentRow = @ + 1]
    ELSE c

MutClampRow(c) ==
    IF c.CurrentRow > ScreenHeight
    THEN internalVgaPushUp([c EXCEPT !.CurrentRow = ScreenHeight - 1])
    ELSE c
ClampRow(c) ==
    IF c.CurrentRow >= ScreenHeight
    THEN internalVgaPushUp([c EXCEPT !.CurrentRow = ScreenHeight - 1])
    ELSE c

VgaAutoEntry(c, Letter) ==
    LET ready == ClampRow(WrapCol(c))
        put   == VgaEntry(ready, Letter, ready.CurrentCol, ready.CurrentRow)
    IN  [put EXCEPT !.CurrentCol = @ + 1]

VgaPutChar(c, Letter) ==
    LET put   == VgaAutoEntry(c, Letter)
        ready == ClampRow(WrapCol(put))
    IN  IF put.FollowingInput
        THEN VgaMoveCursor(ready, ready.CurrentCol, ready.CurrentRow)
        ELSE put

-----------------------------------------------------------------------------
(* VgaStringEntry: the loop works on a copy of the position.  e is the     *)
(* context c and the copy x, y.                                            *)
WrapCopy(e) ==
    IF e.x >= ScreenWidth
    THEN [e EXCEPT !.x = 0, !.y = @ + 1, !.c.CurrentRow = e.y + 1]
    ELSE e

ClampCopy(e) ==
    IF e.y >= ScreenHeight
    THEN [e EXCEPT !.y = ScreenHeight - 1, !.c = internalVgaPushUp(e.c)]
    ELSE e

EightSpaces(c) == FoldLeft(VgaPutChar, c, [i \in 1 .. 8 |-> "SP"])

StringStep(e, Letter) ==
    LET r == ClampCopy(WrapCopy(e))
    IN  CASE Letter = "TAB" -> [r EXCEPT !.c = EightSpaces(r.c)]
          [] Letter = "LF"  -> [r EXCEPT !.c.CurrentCol = 0, !.c.CurrentRow = @ + 1]
          [] OTHER          -> [r EXCEPT !.c = VgaEntry(r.c, Letter, r.x, r.y),
                                         !.x = @ + 1]

(* The context and the copy after each letter of the string. *)
Rounds(c, String) ==
    LET e[n \in 0 .. Len(String)] ==
            IF n = 0 THEN [c |-> c, x |-> c.CurrentCol, y |-> c.CurrentRow]
                     ELSE StringStep(e[n - 1], String[n])
    IN  e

VgaStringEntry(c, String) == Rounds(c, String)[Len(String)].c

VgaPrintln(c, String) ==
    LET put   == VgaStringEntry(c, String)
        ready == ClampRow([put EXCEPT !.CurrentRow = @ + 1, !.CurrentCol = 0])
    IN  VgaMoveCursor(ready, ready.CurrentCol, ready.CurrentRow)

VgaAutoPrint(c, String) ==
    LET put == VgaStringEntry(c, String)
    IN  VgaMoveCursor([put EXCEPT !.CurrentCol = @ + 1],
                      put.CurrentCol + 1, put.CurrentRow)

-----------------------------------------------------------------------------
(* Start-up. *)

(* The frame buffer still shows what the firmware left. *)
VgaPrepareEnvironment(firmware) ==
    [fb |-> [n \in Cells |-> firmware], CurrentRow |-> 0, CurrentCol |-> 0,
     CursorEnabled |-> FALSE, FollowingInput |-> FALSE,
     index |-> "high", low |-> 0, high |-> 0, stray |-> FALSE]

KiBlankVgaScreen(c) ==
    [c EXCEPT !.fb = [n \in Cells |-> "NUL"], !.CurrentRow = 0, !.CurrentCol = 0]

(* The lines of kern_init that turn the cursor on. *)
EnableCursor(c) ==
    VgaMoveCursor([c EXCEPT !.CursorEnabled = TRUE, !.FollowingInput = TRUE,
                            !.index = "end"],
                  0, ScreenHeight - 1)

-----------------------------------------------------------------------------
MutVgaBackspace(c) ==
    IF c.CurrentCol = 0 THEN c
    ELSE LET X == c.CurrentCol - 1
             Y == c.CurrentRow
         IN  VgaPutChar(VgaMoveCursor(c, X, Y), "SP")

(* InternalVgaBackspace of the multiboot entry. *)
InternalVgaBackspace(c) ==
    IF c.CurrentCol = 0 THEN c
    ELSE LET X == c.CurrentCol - 1
             Y == c.CurrentRow
         IN  VgaMoveCursor(VgaPutChar(VgaMoveCursor(c, X, Y), "SP"), X, Y)
=============================================================================
