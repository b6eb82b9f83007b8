----------------------------- MODULE ConsoleIrq -----------------------------
(***************************************************************************)
(* The console with interrupts on.  The kernel's main line prints through  *)
(* VgaPutChar and VgaPrintln, one access to the shared context at a time;  *)
(* between any two of them the keyboard interrupt may run PS2KeyboardHandler, *)
(* which prints or erases through the same driver.  The handler runs with  *)
(* interrupts off and is atomic for the main line.                         *)
(*                                                                         *)
(* pc names the next access of the main line:                              *)
(*   wrap, zerocol, loadrow, storerow   "if (Col >= W) { Col = 0; Row++; }" *)
(*   clamp, setrow                      "if (Row >= H) { Row = H - 1; ..." *)
(*   scroll                             the copy of internalVgaPushUp      *)
(*   lowindex, lowdata, highindex, highdata   ports of VgaMoveCursor       *)
(*   entry, store, setcol               VgaEntry                           *)
(*   loadcol, storecol                  "CurrentCol++"                     *)
(*   string, setcopy, clampcopy, letter the loop of VgaStringEntry         *)
(*   args                               arguments of the call that follows *)
(***************************************************************************)
EXTENDS Vga

CONSTANTS Letters,    \* the letters that are printed and typed
          Strings,    \* the lines that the main line prints
          Keys        \* what the keyboard may do: letters, "ENTER", "BACKSPACE"

ASSUME KeysAssumption == Keys \subseteq Letters \cup {"ENTER", "BACKSPACE"}

(* The lines have no tab or newline in them. *)
ASSUME TextAssumption == /\ Strings \subseteq Seq(Letters)
                         /\ Letters \cap {"TAB", "LF"} = {}

VARIABLES
    context,    \* CurVgaContext and the CRT controller
    pc,         \* the next access of the main line
    part,       \* "auto" VgaAutoEntry, "tail" rest of VgaPutChar, "line" VgaPrintln
    push,       \* in the VgaMoveCursor of internalVgaPushUp
    back,       \* where internalVgaPushUp returns to
    after,      \* where VgaEntry returns to
    x, y,       \* PosX and PosY of the call, or of VgaStringEntry
    cell,       \* the letter to store
    todo,       \* the rest of the string
    tmp,        \* the value loaded by an increment
    disturbed,  \* history: the handler ran inside the last call
    expected    \* history: what the last call does if nothing disturbs it

main == <<pc, part, push, back, after, x, y, cell, todo, tmp>>
vars == <<context, main, disturbed, expected>>

Init ==
    /\ \E r \in 0 .. ScreenHeight - 1 :
         context = EnableCursor([KiBlankVgaScreen(VgaPrepareEnvironment("firmware"))
                                 EXCEPT !.CurrentRow = r])
    /\ pc = "idle" /\ part = "line" /\ push = FALSE
    /\ back = "args" /\ after = "idle"
    /\ x = 0 /\ y = 0 /\ cell = "NUL" /\ todo = <<>> /\ tmp = 0
    /\ disturbed = TRUE
    /\ expected = context

-----------------------------------------------------------------------------
(* The main line *)

Goto(label) == pc' = label
Quiet == UNCHANGED <<disturbed, expected>>

BeginPutChar(Letter) ==
    /\ pc = "idle" /\ Goto("wrap")
    /\ part' = "auto" /\ cell' = Letter
    /\ disturbed' = FALSE /\ expected' = VgaPutChar(context, Letter)
    /\ UNCHANGED <<context, push, back, after, x, y, todo, tmp>>

BeginPrintln(String) ==
    /\ pc = "idle" /\ Goto("string")
    /\ part' = "line" /\ todo' = String
    /\ x' = context.CurrentCol /\ y' = context.CurrentRow
    /\ disturbed' = FALSE /\ expected' = VgaPrintln(context, String)
    /\ UNCHANGED <<context, push, back, after, cell, tmp>>

MutWrapStep ==
    /\ pc = "wrap"
    /\ Goto(IF context.CurrentCol > ScreenWidth THEN "zerocol" ELSE "clamp")
    /\ UNCHANGED <<context, part, push, back, after, x, y, cell, todo, tmp>> /\ Quiet
WrapStep ==
    /\ pc = "wrap"
    /\ Goto(IF context.CurrentCol >= ScreenWidth THEN "zerocol" ELSE "clamp")
    /\ UNCHANGED <<context, part, push, back, after, x, y, cell, todo, tmp>> /\ Quiet

ZeroColStep ==
    /\ pc = "zerocol"
    /\ Goto(IF part = "line" THEN "clamp" ELSE "loadrow")
    /\ context' = [context EXCEPT !.CurrentCol = 0]
    /\ UNCHANGED <<part, push, back, after, x, y, cell, todo, tmp>> /\ Quiet

LoadRowStep ==
    /\ pc = "loadrow" /\ Goto("storerow")
    /\ tmp' = context.CurrentRow
    /\ UNCHANGED <<context, part, push, back, after, x, y, cell, todo>> /\ Quiet

StoreRowStep ==
    /\ pc = "storerow"
    /\ Goto(IF part = "line" THEN "zerocol" ELSE "clamp")
    /\ context' = [context EXCEPT !.CurrentRow = tmp + 1]
    /\ UNCHANGED <<part, push, back, after, x, y, cell, todo, tmp>> /\ Quiet

MutClampStep ==
    /\ pc = "clamp"
    /\ Goto(IF context.CurrentRow > ScreenHeight THEN "setrow" ELSE "args")
    /\ UNCHANGED <<context, part, push, back, after, x, y, cell, todo, tmp>> /\ Quiet
ClampStep ==
    /\ pc = "clamp"
    /\ Goto(IF context.CurrentRow >= ScreenHeight THEN "setrow" ELSE "args")
    /\ UNCHANGED <<context, part, push, back, after, x, y, cell, todo, tmp>> /\ Quiet

SetRowStep ==
    /\ pc = "setrow" /\ Goto("scroll")
    /\ context' = [context EXCEPT !.CurrentRow = ScreenHeight - 1]
    /\ back' = "args"
    /\ UNCHANGED <<part, push, after, x, y, cell, todo, tmp>> /\ Quiet

ScrollStep ==
    /\ pc = "scroll" /\ Goto("lowindex")
    /\ context' = Scroll(context)
    /\ push' = TRUE
    /\ UNCHANGED <<part, back, after, x, y, cell, todo, tmp>> /\ Quiet

(* Position and letter of the VgaEntry or VgaMoveCursor in progress. *)
PosX == IF push THEN 0 ELSE x
PosY == IF push THEN ScreenHeight - 1 ELSE y
Letter == IF push THEN "NUL" ELSE cell

(* VgaAutoEntry calls VgaEntry; VgaPutChar and VgaPrintln end by calling   *)
(* VgaMoveCursor.                                                          *)
ArgsStep ==
    /\ pc = "args"
    /\ x' = context.CurrentCol /\ y' = context.CurrentRow
    /\ \/ /\ part = "auto" /\ Goto("entry")
          /\ after' = "loadcol" /\ UNCHANGED cell
       \/ /\ part # "auto" /\ Goto("lowindex")
          /\ after' = "idle" /\ cell' = "NUL"
    /\ UNCHANGED <<context, part, push, back, todo, tmp>> /\ Quiet

Select(register, next) ==
    /\ Goto(next)
    /\ context' = [context EXCEPT !.index = register]
    /\ UNCHANGED <<part, push, back, after, x, y, cell, todo, tmp>> /\ Quiet

(* The data port writes the register selected last, by whomever. *)
WriteData(value, next) ==
    /\ Goto(next)
    /\ context' = IF context.index = "low" THEN [context EXCEPT !.low = value]
                                           ELSE [context EXCEPT !.high = value]
    /\ UNCHANGED <<part, push, back, after, x, y, cell, todo, tmp>> /\ Quiet

LowIndexStep == pc = "lowindex" /\ Select("low", "lowdata")
LowDataStep == pc = "lowdata" /\ WriteData(LowByte(Offset(PosX, PosY)), "highindex")
MutHighIndexStep == pc = "highindex" /\ Select("low", "highdata")
HighIndexStep == pc = "highindex" /\ Select("high", "highdata")
HighDataStep == pc = "highdata" /\ WriteData(HighByte(Offset(PosX, PosY)), "entry")

EntryStep ==
    /\ pc = "entry"
    /\ Goto(IF PosY >= ScreenHeight THEN "scroll" ELSE "store")
    /\ back' = IF PosY >= ScreenHeight THEN "store" ELSE back
    /\ UNCHANGED <<context, part, push, after, x, y, cell, todo, tmp>> /\ Quiet

StoreStep ==
    /\ pc = "store" /\ Goto("setcol")
    /\ context' = StoreCell(context, Letter, PosX, PosY)
    /\ UNCHANGED <<part, push, back, after, x, y, cell, todo, tmp>> /\ Quiet

SetColStep ==
    /\ pc = "setcol"
    /\ context' = [context EXCEPT !.CurrentCol = PosX]
    /\ push' = FALSE
    /\ \/ push /\ Goto(back) /\ UNCHANGED x
       \/ ~ push /\ Goto(after) /\ x' = IF after = "string" THEN x + 1 ELSE x
    /\ UNCHANGED <<part, back, after, y, cell, todo, tmp>> /\ Quiet

LoadColStep ==
    /\ pc = "loadcol" /\ Goto("storecol")
    /\ tmp' = context.CurrentCol
    /\ UNCHANGED <<context, part, push, back, after, x, y, cell, todo>> /\ Quiet

StoreColStep ==
    /\ pc = "storecol" /\ Goto("wrap")
    /\ context' = [context EXCEPT !.CurrentCol = tmp + 1]
    /\ part' = "tail"
    /\ UNCHANGED <<push, back, after, x, y, cell, todo, tmp>> /\ Quiet

(* VgaStringEntry, then "CurrentRow++" of VgaPrintln. *)
StringStepMain ==
    /\ pc = "string"
    /\ \/ todo = <<>> /\ Goto("loadrow") /\ UNCHANGED <<x, y>>
       \/ /\ todo # <<>> /\ x >= ScreenWidth
          /\ Goto("setcopy") /\ x' = 0 /\ y' = y + 1
       \/ todo # <<>> /\ x < ScreenWidth /\ Goto("clampcopy") /\ UNCHANGED <<x, y>>
    /\ UNCHANGED <<context, part, push, back, after, cell, todo, tmp>> /\ Quiet

SetCopyStep ==
    /\ pc = "setcopy" /\ Goto("clampcopy")
    /\ context' = [context EXCEPT !.CurrentRow = y]
    /\ UNCHANGED <<part, push, back, after, x, y, cell, todo, tmp>> /\ Quiet

ClampCopyStep ==
    /\ pc = "clampcopy"
    /\ \/ y >= ScreenHeight /\ Goto("scroll") /\ y' = ScreenHeight - 1 /\ back' = "letter"
       \/ y < ScreenHeight /\ Goto("letter") /\ UNCHANGED <<y, back>>
    /\ UNCHANGED <<context, part, push, after, x, cell, todo, tmp>> /\ Quiet

MutLetterStep ==
    /\ pc = "letter" /\ Goto("entry")
    /\ cell' = Head(todo)
    /\ after' = "string"
    /\ UNCHANGED <<context, part, push, back, x, y, todo, tmp>> /\ Quiet
LetterStep ==
    /\ pc = "letter" /\ Goto("entry")
    /\ cell' = Head(todo) /\ todo' = Tail(todo)
    /\ after' = "string"
    /\ UNCHANGED <<context, part, push, back, x, y, tmp>> /\ Quiet

MainStep ==
    \/ WrapStep \/ ZeroColStep \/ LoadRowStep \/ StoreRowStep \/ ClampStep
    \/ SetRowStep \/ ScrollStep \/ ArgsStep
    \/ LowIndexStep \/ LowDataStep \/ HighIndexStep \/ HighDataStep
    \/ EntryStep \/ StoreStep \/ SetColStep \/ LoadColStep \/ StoreColStep
    \/ StringStepMain \/ SetCopyStep \/ ClampCopyStep \/ LetterStep

-----------------------------------------------------------------------------
(* The keyboard interrupt *)

KeyEffect(c, key) == IF key = "ENTER" THEN VgaPrintln(c, <<>>) ELSE
                     IF key = "BACKSPACE" THEN InternalVgaBackspace(c) ELSE
                     VgaPutChar(c, key)

PS2KeyboardHandler(key) ==
    /\ context' = KeyEffect(context, key)
    /\ expected' = IF pc = "idle" THEN KeyEffect(context, key) ELSE expected
    /\ disturbed' = IF pc = "idle"
                    THEN key = "BACKSPACE" /\ context.CurrentCol = 0 /\ disturbed
                    ELSE TRUE
    /\ UNCHANGED main

Next == \/ \E L \in Letters : BeginPutChar(L)
        \/ \E S \in Strings : BeginPrintln(S)
        \/ MainStep
        \/ \E key \in Keys : PS2KeyboardHandler(key)

(* The processor keeps executing the main line. *)
Spec == Init /\ [][Next]_vars /\ WF_vars(MainStep)

-----------------------------------------------------------------------------
Labels == {"idle", "wrap", "zerocol", "loadrow", "storerow", "clamp", "setrow",
           "scroll", "args", "lowindex", "lowdata", "highindex", "highdata",
           "entry", "store", "setcol", "loadcol", "storecol", "string", "setcopy",
           "clampcopy", "letter"}

(* The types of the main line's variables; the shared position exceeds the *)
(* screen by at most two rows and one column, even inside a call.          *)
TypeOK ==
    /\ pc \in Labels
    /\ part \in {"auto", "tail", "line"}
    /\ push \in BOOLEAN
    /\ back \in {"args", "store", "letter"}
    /\ after \in {"idle", "loadcol", "string"}
    /\ x \in 0 .. ScreenWidth /\ y \in 0 .. ScreenHeight
    /\ tmp \in Nat
    /\ context.CurrentRow \in 0 .. ScreenHeight + 1
    /\ context.CurrentCol \in 0 .. ScreenWidth
    /\ disturbed \in BOOLEAN

(* No access of the main line or of a handler running anywhere inside it   *)
(* writes outside the screen ("Now in safe-to-write state.", VgaAutoEntry). *)
WritesStayOnScreen == ~ context.stray

(* Between two calls the current position is on the screen, whatever the   *)
(* handler did to it while the last call ran.                              *)
PositionRecovers == pc = "idle" => /\ context.CurrentRow < ScreenHeight
                                   /\ context.CurrentCol < ScreenWidth

(* A call that no handler ran into has the effect the driver's functions   *)
(* have on their own, cursor registers included, even when earlier calls   *)
(* were disturbed: what a race breaks, the next quiet call repairs.        *)
QuietCallsAreAtomic ==
    pc = "idle" /\ ~ disturbed =>
        /\ context = expected
        /\ context.low = LowByte(Offset(context.CurrentCol, context.CurrentRow))
        /\ context.high = HighByte(Offset(context.CurrentCol, context.CurrentRow))

(* Every call returns: keystrokes cannot keep the main line in the driver. *)
CallsReturn == pc # "idle" ~> pc = "idle"
=============================================================================
