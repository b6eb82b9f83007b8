----------------------------- MODULE VgaConsole -----------------------------
(***************************************************************************)
(* The text console as its callers see it when no interrupt gets in        *)
(* between: kern_init prepares the screen and prints its messages with the *)
(* cursor off, turns the cursor on, and from then on the kernel and the    *)
(* keyboard use KiPutChar, KiPrintLine and KiBackspace.                    *)
(***************************************************************************)
EXTENDS Vga

CONSTANTS Letters,    \* the letters that KiPutChar is given
          Strings     \* the strings that are printed

(* The strings are literals and numbers, none with a tab or a newline in   *)
(* it (KiPrintFmt handles those itself), and the name and the command line *)
(* of the boot loader, taken to have none either.                          *)
ASSUME TextAssumption == /\ Strings \subseteq Seq(Letters)
                         /\ Letters \cap {"NUL", "TAB", "LF"} = {}

VARIABLES phase,      \* "prepared", "boot" or "running"
          context     \* CurVgaContext and the CRT controller

vars == <<phase, context>>

(* VgaContext, with the state of the CRT controller: a context that is in   *)
(* order.  A column of ScreenWidth means that the row is full.              *)
VgaContext ==
    [fb : [Cells -> Letters \cup {"NUL", "SP", "firmware"}],
     CurrentRow : 0 .. ScreenHeight - 1, CurrentCol : 0 .. ScreenWidth,
     FollowingInput : BOOLEAN, CursorEnabled : BOOLEAN,
     index : {"low", "high", "end"}, low : 0 .. PortRange - 1, high : 0 .. PortRange - 1,
     stray : {FALSE}]

Init == /\ phase = "prepared"
        /\ context = VgaPrepareEnvironment("firmware")

BlankScreen == /\ phase = "prepared"
               /\ phase' = "boot"
               /\ context' = KiBlankVgaScreen(context)

(* The messages of kern_init that stay on their row.  They are short and   *)
(* few: none reaches the right edge or the bottom row.                     *)
BootPrint(String) ==
    /\ phase = "boot"
    /\ String # <<>>
    /\ context.CurrentCol + Len(String) <= ScreenWidth
    /\ context.CurrentRow < ScreenHeight - 1
    /\ context' = VgaAutoPrint(context, String)
    /\ UNCHANGED phase

BootPrintLine(String) ==
    /\ phase = "boot"
    /\ context' = VgaPrintln(context, String)
    /\ UNCHANGED phase

(* Four letters of the vendor's name, from a register of the processor. *)
InternalPrintRegister(reg) ==
    /\ phase = "boot"
    /\ Len(reg) = 4
    /\ context' = LET put[n \in 0 .. 4] ==
                          IF n = 0 THEN context ELSE VgaAutoEntry(put[n - 1], reg[n])
                  IN  put[4]
    /\ UNCHANGED phase

(* kern_init turns the cursor on after a complete line. *)
TurnCursorOn == /\ phase = "boot"
                /\ context.CurrentCol = 0
                /\ phase' = "running"
                /\ context' = EnableCursor(context)

KiPutChar(Letter) == /\ phase = "running"
                     /\ context' = VgaPutChar(context, Letter)
                     /\ UNCHANGED phase

KiPrintLine(String) == /\ phase = "running"
                       /\ context' = VgaPrintln(context, String)
                       /\ UNCHANGED phase

KiBackspace == /\ phase = "running"
               /\ context' = InternalVgaBackspace(context)
               /\ UNCHANGED phase

Next == \/ BlankScreen
        \/ \E String \in Strings :
              BootPrint(String) \/ BootPrintLine(String) \/ InternalPrintRegister(String)
        \/ TurnCursorOn
        \/ \E Letter \in Letters : KiPutChar(Letter)
        \/ \E String \in Strings : KiPrintLine(String)
        \/ KiBackspace

Spec == Init /\ [][Next]_vars

-----------------------------------------------------------------------------
(* The cursor registers point at a position. *)
CursorAt(c, PosX, PosY) == /\ c.low = LowByte(Offset(PosX, PosY))
                           /\ c.high = HighByte(Offset(PosX, PosY))

(* The current position is on the screen and no call wrote outside the     *)
(* frame buffer.                                                           *)
TypeOK ==
    /\ phase \in {"prepared", "boot", "running"}
    /\ context \in VgaContext

(* Every output call leaves the hardware cursor on the position of the     *)
(* next letter ("We'll want the cursor to always follow us!"); a backspace *)
(* in column 0, which does nothing, leaves it where it was.                *)
CursorFollows ==
    [][phase = "running" /\ context' # context =>
         CursorAt(context', context.CurrentCol', context.CurrentRow')]_vars

(* The text of a row: its cells without the empty ones at its end. *)
RowCells(fb, r) == [x \in 1 .. ScreenWidth |-> fb[Offset(x - 1, r)]]
Trimmed(cells) ==
    LET last == CHOOSE n \in 0 .. ScreenWidth :
                   /\ n > 0 => cells[n] # "NUL"
                   /\ \A x \in n + 1 .. ScreenWidth : cells[x] = "NUL"
    IN  SubSeq(cells, 1, last)

ShownRows == IF phase = "prepared" THEN [r \in 1 .. ScreenHeight |-> <<>>]
             ELSE [r \in 1 .. ScreenHeight |-> Trimmed(RowCells(context.fb, r - 1))]
CurrentRow == context.CurrentRow + 1

(* The frame buffer always shows the text of a terminal: no letter is lost *)
(* or left over by wrapping, scrolling, moving the cursor or erasing.      *)
TM == INSTANCE Terminal WITH rows <- ShownRows, cur <- CurrentRow
ImplementsTerminal == TM!Spec
=============================================================================
