-------------------------- MODULE ConsoleIrqProofs --------------------------
(* Proofs about ConsoleIrq for screens of every size, all letters and all  *)
(* lines, with every key but the one that erases.                          *)
EXTENDS ConsoleIrq, SequenceTheorems, WellFoundedInduction, TLAPS

-----------------------------------------------------------------------------
(* The driver's functions. *)

(* A context that the kernel can print through, and one whose position is  *)
(* on the screen.                                                          *)
Fields == {"fb", "CurrentRow", "CurrentCol", "CursorEnabled", "FollowingInput",
           "index", "low", "high", "stray"}
Open(c) == /\ DOMAIN c = Fields
           /\ c.CursorEnabled /\ c.FollowingInput /\ ~ c.stray
           /\ c.CurrentRow \in Nat /\ c.CurrentCol \in Nat
OnScreen(c) == Open(c) /\ c.CurrentRow < ScreenHeight /\ c.CurrentCol < ScreenWidth

(* A position on the screen is a cell of the frame buffer. *)
LEMMA OffsetOK ==
    ASSUME NEW X \in Nat, NEW Y \in Nat, X < ScreenWidth, Y < ScreenHeight
    PROVE  Offset(X, Y) \in Cells
<1>1. ScreenWidth \in Nat /\ ScreenHeight \in Nat
  BY ScreenAssumption
<1>2. PICK d \in Nat : ScreenHeight = Y + 1 + d
  <2>1. ScreenHeight - (Y + 1) \in Nat /\ ScreenHeight = Y + 1 + (ScreenHeight - (Y + 1))
    BY <1>1
  <2>2. QED BY <2>1
<1>3. /\ ScreenWidth * ScreenHeight = ScreenWidth * Y + ScreenWidth + ScreenWidth * d
      /\ ScreenWidth * d \in Nat /\ Y * ScreenWidth \in Nat
      /\ Y * ScreenWidth = ScreenWidth * Y
  BY <1>1, <1>2
<1>4. /\ X + Y * ScreenWidth >= 0
      /\ X + Y * ScreenWidth <= ScreenWidth * ScreenHeight - 1
      /\ X + Y * ScreenWidth \in Int
  BY <1>1, <1>3
<1>5. QED BY <1>1, <1>4 DEF Offset, Cells

(* PutEntry moves the column and nothing else of the position. *)
LEMMA PutEntryOK ==
    ASSUME NEW c, Open(c), NEW L, NEW X \in Nat, NEW Y \in Nat,
           X < ScreenWidth, Y < ScreenHeight, NEW d, d = PutEntry(c, L, X, Y)
    PROVE  Open(d) /\ d.CurrentCol = X /\ d.CurrentRow = c.CurrentRow
<1>1. d = [[c EXCEPT !.fb[Offset(X, Y)] = L] EXCEPT !.CurrentCol = X]
  BY OffsetOK DEF PutEntry, StoreCell
<1>2. QED BY <1>1 DEF Open, Fields

(* Scrolling leaves the position alone. *)
LEMMA ScrollOK ==
    ASSUME NEW c, Open(c), NEW d, d = Scroll(c)
    PROVE  Open(d) /\ d.CurrentCol = c.CurrentCol /\ d.CurrentRow = c.CurrentRow
BY DEF Scroll, Open, Fields

(* The writes to the cursor's ports leave the position alone. *)
LEMMA PortsOK ==
    ASSUME NEW c, Open(c), NEW pos, NEW d, d = WriteCursorPorts(c, pos)
    PROVE  Open(d) /\ d.CurrentCol = c.CurrentCol /\ d.CurrentRow = c.CurrentRow
BY DEF WriteCursorPorts, Open, Fields

(* internalVgaPushUp leaves the cursor in the first column. *)
LEMMA PushUpOK ==
    ASSUME NEW c, Open(c), NEW d, d = internalVgaPushUp(c)
    PROVE  Open(d) /\ d.CurrentCol = 0 /\ d.CurrentRow = c.CurrentRow
<1> DEFINE s == Scroll(c)
           p == WriteCursorPorts(s, Offset(0, ScreenHeight - 1))
<1>1. d = PutEntry(p, "NUL", 0, ScreenHeight - 1)
  BY DEF internalVgaPushUp, Open
<1> HIDE DEF p
<1>2. Open(p) /\ p.CurrentRow = c.CurrentRow
  <2> HIDE DEF s
  <2>1. Open(s) /\ s.CurrentRow = c.CurrentRow
    BY ScrollOK DEF s
  <2>2. QED BY <2>1, PortsOK DEF p
<1>3. ScreenHeight - 1 \in Nat /\ ScreenHeight - 1 < ScreenHeight /\ 0 < ScreenWidth
  BY ScreenAssumption
<1>4. QED BY <1>1, <1>2, <1>3, PutEntryOK

(* VgaEntry on the screen stores a cell and sets the column to its own. *)
LEMMA EntryOK ==
    ASSUME NEW c, Open(c), NEW L, NEW X \in Nat, NEW Y \in Nat,
           X < ScreenWidth, Y < ScreenHeight, NEW d, d = VgaEntry(c, L, X, Y)
    PROVE  Open(d) /\ d.CurrentCol = X /\ d.CurrentRow = c.CurrentRow
<1>1. ~ (Y >= ScreenHeight)
  BY ScreenAssumption
<1>2. d = PutEntry(c, L, X, Y)
  BY <1>1 DEF VgaEntry
<1>3. QED BY <1>2, PutEntryOK

(* VgaMoveCursor to a position on the screen stays there. *)
LEMMA MoveCursorOK ==
    ASSUME NEW c, OnScreen(c), NEW d, d = VgaMoveCursor(c, c.CurrentCol, c.CurrentRow)
    PROVE  OnScreen(d)
<1> DEFINE p == WriteCursorPorts(c, Offset(c.CurrentCol, c.CurrentRow))
<1>1. d = VgaEntry(p, "NUL", c.CurrentCol, c.CurrentRow)
  BY DEF VgaMoveCursor, OnScreen, Open
<1>2. Open(p) /\ p.CurrentRow = c.CurrentRow
  BY PortsOK DEF OnScreen
<1> HIDE DEF p
<1>3. Open(d) /\ d.CurrentCol = c.CurrentCol /\ d.CurrentRow = c.CurrentRow
  BY <1>1, <1>2, EntryOK DEF OnScreen, Open
<1>4. QED BY <1>3 DEF OnScreen

(* The check of the row before a letter brings every row back. *)
LEMMA ClampOK ==
    ASSUME NEW c, Open(c), c.CurrentCol < ScreenWidth, NEW d, d = ClampRow(c)
    PROVE  OnScreen(d)
<1>1. CASE c.CurrentRow >= ScreenHeight
  <2> DEFINE e == [c EXCEPT !.CurrentRow = ScreenHeight - 1]
  <2>1. ScreenHeight - 1 \in Nat /\ ScreenHeight - 1 < ScreenHeight /\ 0 < ScreenWidth
    BY ScreenAssumption
  <2>2. Open(e) /\ e.CurrentRow = ScreenHeight - 1
    BY <2>1 DEF Open, Fields
  <2>3. d = internalVgaPushUp(e)
    BY <1>1 DEF ClampRow
  <2> HIDE DEF e
  <2>4. Open(d) /\ d.CurrentCol = 0 /\ d.CurrentRow = ScreenHeight - 1
    BY <2>2, <2>3, PushUpOK
  <2>5. QED BY <2>1, <2>4 DEF OnScreen
<1>2. CASE ~ (c.CurrentRow >= ScreenHeight)
  <2>1. d = c /\ c.CurrentRow < ScreenHeight
    BY <1>2, ScreenAssumption DEF ClampRow, Open
  <2>2. QED BY <2>1 DEF OnScreen
<1>3. QED BY <1>1, <1>2

(* The check of the column before a letter brings every column back. *)
LEMMA WrapOK ==
    ASSUME NEW c, Open(c), NEW d, d = WrapCol(c)
    PROVE  Open(d) /\ d.CurrentCol < ScreenWidth
<1>1. CASE c.CurrentCol >= ScreenWidth
  <2>1. d = [c EXCEPT !.CurrentCol = 0, !.CurrentRow = c.CurrentRow + 1]
    BY <1>1 DEF WrapCol
  <2>2. c.CurrentRow + 1 \in Nat /\ 0 < ScreenWidth /\ 0 \in Nat
    BY ScreenAssumption DEF Open
  <2>3. QED BY <2>1, <2>2 DEF Open, Fields
<1>2. CASE ~ (c.CurrentCol >= ScreenWidth)
  BY <1>2, ScreenAssumption DEF WrapCol, Open
<1>3. QED BY <1>1, <1>2

-----------------------------------------------------------------------------
(* The loop of VgaStringEntry. *)

(* Context and copy after the letters of S, from e on, and any run of the  *)
(* loop.                                                                   *)
Printed(e, S) == LET w[n \in 0 .. Len(S)] == IF n = 0 THEN e ELSE StringStep(w[n - 1], S[n])
                 IN  w[Len(S)]
Run(w, n, e, S) == w = [i \in 0 .. n |-> IF i = 0 THEN e ELSE StringStep(w[i - 1], S[i])]

(* The least-number principle, for sets. *)
LEMMA LeastNumber ==
    ASSUME NEW S \in SUBSET Nat, S # {}
    PROVE  \E m \in S : \A k \in S : m <= k
<1>1. PICK m \in S : \A k \in S : ~ (<<k, m>> \in OpToRel(<, Nat))
  BY NatLessThanWellFounded, WFMin
<1>2. \A k \in S : ~ (k < m)
  BY <1>1 DEF OpToRel
<1>3. QED BY <1>2

(* The loop runs, and a run starts and goes on as its body says. *)
LEMMA RunExists == ASSUME NEW e, NEW S, NEW n \in Nat PROVE \E w : Run(w, n, e, S)
<1> DEFINE B == {k \in Nat : ~ \E w : Run(w, k, e, S)}
<1>1. ASSUME B # {} PROVE FALSE
  <2>1. PICK m \in B : \A k \in B : m <= k
    BY <1>1, LeastNumber
  <2>2. m # 0
    <3>1. Run([i \in 0 .. 0 |-> e], 0, e, S)
      BY DEF Run
    <3>2. QED BY <3>1
  <2>3. m - 1 \in Nat /\ m - 1 \notin B
    BY <2>1, <2>2
  <2>4. PICK w : Run(w, m - 1, e, S)
    BY <2>3
  <2> DEFINE v == [i \in 0 .. m |-> IF i = m THEN StringStep(w[m - 1], S[m]) ELSE w[i]]
  <2>5. \A i \in 0 .. m : v[i] = IF i = 0 THEN e ELSE StringStep(v[i - 1], S[i])
    <3>1. TAKE i \in 0 .. m
    <3>2. CASE i = m
      BY <2>2, <2>3, <3>2
    <3>3. CASE i # m
      <4>1. i \in 0 .. m - 1 /\ v[i] = w[i]
        BY <2>3, <3>3
      <4>2. w[i] = IF i = 0 THEN e ELSE StringStep(w[i - 1], S[i])
        BY <4>1, <2>4 DEF Run
      <4>3. i # 0 => v[i - 1] = w[i - 1]
        BY <4>1
      <4>4. QED BY <4>1, <4>2, <4>3
    <3>4. QED BY <3>2, <3>3
  <2>6. Run(v, m, e, S)
    BY <2>5 DEF Run
  <2>7. QED BY <2>1, <2>6
<1>2. QED BY <1>1

(* All runs over the same letters end alike. *)
LEMMA RunsAgree ==
    ASSUME NEW n \in Nat, NEW w, NEW v, w[0] = v[0],
           \A i \in 1 .. n : w[i - 1] = v[i - 1] => w[i] = v[i]
    PROVE  w[n] = v[n]
<1> DEFINE B == {i \in 0 .. n : w[i] # v[i]}
<1>1. ASSUME B # {} PROVE FALSE
  <2>1. B \in SUBSET Nat
    OBVIOUS
  <2>2. PICK m \in B : \A k \in B : m <= k
    BY <1>1, <2>1, LeastNumber
  <2>3. m \in 1 .. n /\ m - 1 \in 0 .. n /\ ~ (m <= m - 1)
    <3>1. m # 0 /\ m \in 0 .. n
      BY <2>2
    <3>2. QED BY <3>1
  <2>4. w[m - 1] = v[m - 1]
    BY <2>2, <2>3
  <2>5. QED BY <2>2, <2>3, <2>4
<1>2. QED BY <1>1

(* Printed is the end of a run. *)
LEMMA PrintedRun ==
    ASSUME NEW e, NEW S, Len(S) \in Nat
    PROVE  \E w : Run(w, Len(S), e, S) /\ Printed(e, S) = w[Len(S)]
<1>1. PICK w : w = CHOOSE v : Run(v, Len(S), e, S)
  OBVIOUS
<1>2. Run(w, Len(S), e, S)
  <2>1. \E v : Run(v, Len(S), e, S)
    BY RunExists
  <2>2. QED BY <1>1, <2>1, Zenon
<1>3. Printed(e, S) = w[Len(S)]
  BY <1>1, Zenon DEF Printed, Run
<1>4. QED BY <1>2, <1>3

(* No letters. *)
LEMMA PrintedEmpty == ASSUME NEW e PROVE Printed(e, <<>>) = e
<1>1. PICK n, S : S = <<>> /\ n = Len(S) /\ n = 0
  OBVIOUS
<1>2. PICK w : Run(w, Len(S), e, S) /\ Printed(e, S) = w[Len(S)]
  BY <1>1, PrintedRun
<1>3. w[0] = e
  BY <1>1, <1>2 DEF Run
<1>4. QED BY <1>1, <1>2, <1>3

(* One letter, then the others. *)
LEMMA PrintedFirst ==
    ASSUME NEW e, NEW S \in Seq(Letters), S # <<>>
    PROVE  Printed(e, S) = Printed(StringStep(e, Head(S)), Tail(S))
<1>1. PICK n \in Nat : n = Len(S) - 1
  OBVIOUS
<1>2. PICK T \in Seq(Letters) : T = Tail(S)
  BY HeadTailProperties
<1>3. /\ Len(S) = n + 1 /\ Len(T) = n /\ Head(S) = S[1]
      /\ \A i \in 1 .. n : T[i] = S[i + 1]
  BY <1>1, <1>2
<1>4. PICK w : Run(w, n + 1, e, S) /\ Printed(e, S) = w[n + 1]
  <2>1. Len(S) \in Nat
    OBVIOUS
  <2>2. PICK w : Run(w, Len(S), e, S) /\ Printed(e, S) = w[Len(S)]
    BY <2>1, PrintedRun
  <2>3. QED BY <1>3, <2>2
<1>5. PICK b : b = StringStep(e, Head(S))
  OBVIOUS
<1>6. PICK v : Run(v, n, b, T) /\ Printed(b, T) = v[n]
  BY <1>3, PrintedRun
<1>7. PICK u : u = [i \in 0 .. n |-> w[i + 1]]
  OBVIOUS
<1>8. u[0] = b /\ v[0] = b
  <2>1. w[0] = e /\ w[1] = StringStep(w[0], S[1])
    BY <1>4 DEF Run
  <2>2. v[0] = b
    BY <1>6 DEF Run
  <2>3. QED BY <1>3, <1>5, <1>7, <2>1, <2>2
<1>9. ASSUME NEW i \in 1 .. n, u[i - 1] = v[i - 1] PROVE u[i] = v[i]
  <2>1. /\ i \in 0 .. n /\ i - 1 \in 0 .. n /\ i # 0 /\ i + 1 \in 0 .. n + 1 /\ i + 1 # 0
        /\ (i - 1) + 1 = i /\ (i + 1) - 1 = i
    OBVIOUS
  <2>2. w[i + 1] = StringStep(w[i], S[i + 1])
    BY <1>4, <2>1 DEF Run
  <2>3. v[i] = StringStep(v[i - 1], T[i])
    BY <1>6, <2>1 DEF Run
  <2>4. u[i] = w[i + 1] /\ u[i - 1] = w[i]
    BY <1>7, <2>1
  <2>5. QED BY <1>3, <1>9, <2>2, <2>3, <2>4
<1>10. u[n] = v[n]
  BY <1>8, <1>9, RunsAgree
<1>11. QED BY <1>2, <1>4, <1>5, <1>6, <1>7, <1>10

(* VgaStringEntry is the loop from the position of the context. *)
Copy(c, X, Y) == [c |-> c, x |-> X, y |-> Y]

(* Its result. *)
LEMMA StringEntryIs ==
    ASSUME NEW c, NEW S
    PROVE  VgaStringEntry(c, S) = Printed(Copy(c, c.CurrentCol, c.CurrentRow), S).c
BY Zenon DEF VgaStringEntry, Rounds, Printed, Copy

(* VgaStringEntry prints nothing when there is nothing to print. *)
LEMMA EmptyString == ASSUME NEW c PROVE VgaStringEntry(c, <<>>) = c
<1>1. PICK e : e = Copy(c, c.CurrentCol, c.CurrentRow)
  OBVIOUS
<1>2. VgaStringEntry(c, <<>>) = Printed(e, <<>>).c
  BY <1>1, StringEntryIs
<1>3. Printed(e, <<>>) = e /\ e.c = c
  BY <1>1, PrintedEmpty DEF Copy
<1>4. QED BY <1>2, <1>3

-----------------------------------------------------------------------------
(* What a key does. *)

(* VgaPutChar works from any position, and ends on the screen. *)
LEMMA PutCharOK ==
    ASSUME NEW c, Open(c), NEW L, NEW d, d = VgaPutChar(c, L)
    PROVE  OnScreen(d)
<1> DEFINE ready == ClampRow(WrapCol(c))
           put == VgaEntry(ready, L, ready.CurrentCol, ready.CurrentRow)
           auto == [put EXCEPT !.CurrentCol = put.CurrentCol + 1]
           done == ClampRow(WrapCol(auto))
<1>1. VgaAutoEntry(c, L) = auto
  BY DEF VgaAutoEntry
<1>2. OnScreen(ready)
  BY WrapOK, ClampOK
<1> HIDE DEF ready
<1>3. Open(put)
  BY <1>2, EntryOK DEF OnScreen, Open
<1> HIDE DEF put
<1>4. Open(auto)
  <2>1. put.CurrentCol + 1 \in Nat
    BY <1>3 DEF Open
  <2>2. QED BY <1>3, <2>1 DEF Open, Fields
<1>5. d = VgaMoveCursor(done, done.CurrentCol, done.CurrentRow)
  <2> HIDE DEF auto
  <2>1. auto.FollowingInput
    BY <1>4 DEF Open
  <2>2. QED BY <1>1, <2>1 DEF VgaPutChar
<1> HIDE DEF auto
<1>6. OnScreen(done)
  BY <1>4, WrapOK, ClampOK
<1> HIDE DEF done
<1>7. QED BY <1>5, <1>6, MoveCursorOK

(* VgaPrintln of an empty line, which is what the Enter key prints. *)
LEMMA NewLineOK ==
    ASSUME NEW c, Open(c), NEW d, d = VgaPrintln(c, <<>>)
    PROVE  OnScreen(d)
<1> DEFINE e == [c EXCEPT !.CurrentRow = c.CurrentRow + 1, !.CurrentCol = 0]
           ready == ClampRow(e)
<1>1. d = VgaMoveCursor(ready, ready.CurrentCol, ready.CurrentRow)
  BY EmptyString DEF VgaPrintln
<1>2. Open(e) /\ e.CurrentCol < ScreenWidth
  <2>1. c.CurrentRow + 1 \in Nat /\ 0 < ScreenWidth
    BY ScreenAssumption DEF Open
  <2>2. QED BY <2>1 DEF Open, Fields
<1> HIDE DEF e
<1>3. OnScreen(ready)
  BY <1>2, ClampOK
<1> HIDE DEF ready
<1>4. QED BY <1>1, <1>3, MoveCursorOK

(* A key, wherever it interrupts the main line, leaves a position on the   *)
(* screen.                                                                 *)
LEMMA KeyOK ==
    ASSUME NEW c, Open(c), NEW key, key # "BACKSPACE", NEW d, d = KeyEffect(c, key)
    PROVE  OnScreen(d)
BY PutCharOK, NewLineOK DEF KeyEffect

-----------------------------------------------------------------------------
(* The inductive invariant. *)

InCall == {"lowindex", "lowdata", "highindex", "highdata", "entry", "store", "setcol"}

(* The main line is in the loop of VgaStringEntry, in a call of            *)
(* internalVgaPushUp or VgaEntry made there included.                      *)
InLoop ==
    \/ pc \in {"string", "setcopy", "clampcopy", "letter"}
    \/ pc = "scroll" /\ back = "letter"
    \/ pc \in InCall /\ push /\ back = "letter"
    \/ pc \in InCall /\ ~ push /\ after = "string"

(* Where calls return to.  VgaEntry is never asked for a row behind the    *)
(* last one, so that it does not scroll by itself.                         *)
ControlInv ==
    /\ pc \in Labels /\ part \in {"auto", "tail", "line"} /\ push \in BOOLEAN
    /\ back \in {"args", "letter"} /\ after \in {"idle", "loadcol", "string"}
    /\ push => pc \in InCall
    /\ InLoop => part = "line"

(* The position the main line works with: its own copy, and the value it   *)
(* loaded before an increment, however stale.                              *)
CopyInv ==
    /\ x \in 0 .. ScreenWidth /\ y \in 0 .. ScreenHeight /\ tmp \in Nat
    /\ pc = "string" => y < ScreenHeight
    /\ pc \in {"setcopy", "clampcopy", "letter"} => x < ScreenWidth
    /\ pc = "letter" => y < ScreenHeight
    /\ pc = "scroll" /\ back = "letter" => x < ScreenWidth /\ y < ScreenHeight
    /\ pc \in InCall /\ (~ push \/ back = "letter") => x < ScreenWidth /\ y < ScreenHeight
    /\ pc = "storerow" => tmp <= ScreenHeight
    /\ pc = "storecol" => tmp < ScreenWidth

(* The shared position: on the screen but where the main line has put it   *)
(* off and has still to bring it back.                                     *)
RowInv ==
    \/ context.CurrentRow < ScreenHeight
    \/ context.CurrentRow = ScreenHeight
         /\ (InLoop \/ (pc \in {"loadrow", "storerow"} /\ part = "line"))
    \/ context.CurrentRow <= ScreenHeight + 1
         /\ (pc \in {"clamp", "setrow"} \/ (pc = "zerocol" /\ part = "line"))
ColInv ==
    \/ context.CurrentCol < ScreenWidth
    \/ context.CurrentCol = ScreenWidth /\ pc \in {"wrap", "zerocol"}

PositionInv == Open(context) /\ RowInv /\ ColInv

IInv == ControlInv /\ CopyInv /\ PositionInv /\ disturbed \in BOOLEAN

(* The screen at the start: blank, with the cursor on in any row. *)
LEMMA InitIInv == Init => IInv
<1> SUFFICES ASSUME Init PROVE IInv
  OBVIOUS
<1>1. OnScreen(context)
  <2>1. PICK r \in 0 .. ScreenHeight - 1 :
          context = EnableCursor([KiBlankVgaScreen(VgaPrepareEnvironment("firmware"))
                                  EXCEPT !.CurrentRow = r])
    BY DEF Init
  <2> DEFINE b == [KiBlankVgaScreen(VgaPrepareEnvironment("firmware")) EXCEPT !.CurrentRow = r]
             c == [b EXCEPT !.CursorEnabled = TRUE, !.FollowingInput = TRUE, !.index = "end"]
             p == WriteCursorPorts(c, Offset(0, ScreenHeight - 1))
  <2>2. /\ r \in Nat /\ r < ScreenHeight
        /\ ScreenHeight - 1 \in Nat /\ ScreenHeight - 1 < ScreenHeight /\ 0 < ScreenWidth
    BY ScreenAssumption
  <2>3. DOMAIN b = Fields /\ ~ b.stray /\ b.CurrentRow = r /\ b.CurrentCol = 0
    BY DEF KiBlankVgaScreen, VgaPrepareEnvironment, Fields
  <2>4. context = VgaMoveCursor(c, 0, ScreenHeight - 1)
    BY <2>1 DEF EnableCursor
  <2> HIDE DEF b
  <2>5. Open(c) /\ c.CurrentRow = r
    BY <2>2, <2>3 DEF Open, Fields
  <2>6. context = VgaEntry(p, "NUL", 0, ScreenHeight - 1)
    BY <2>4, <2>5 DEF VgaMoveCursor, Open
  <2> HIDE DEF c
  <2>7. Open(p) /\ p.CurrentRow = r
    BY <2>5, PortsOK
  <2> HIDE DEF p
  <2>8. Open(context) /\ context.CurrentCol = 0 /\ context.CurrentRow = r
    BY <2>2, <2>6, <2>7, EntryOK
  <2>9. QED BY <2>2, <2>8 DEF OnScreen
<1>2. 0 \in 0 .. ScreenWidth /\ 0 \in 0 .. ScreenHeight
  BY ScreenAssumption
<1>3. ControlInv /\ CopyInv /\ disturbed \in BOOLEAN
  BY <1>2 DEF Init, ControlInv, CopyInv, Labels, InLoop, InCall
<1>4. PositionInv
  BY <1>1 DEF OnScreen, PositionInv, RowInv, ColInv
<1>5. QED BY <1>3, <1>4 DEF IInv

-----------------------------------------------------------------------------
(* Every access keeps it, part by part. *)

(* Calls return where they were made. *)
LEMMA ControlNext == ASSUME IInv, Next, "BACKSPACE" \notin Keys PROVE ControlInv'
<1>1. ControlInv /\ CopyInv /\ PositionInv
  BY DEF IInv
<1>2. ScreenWidth \in Nat \ {0} /\ ScreenHeight \in Nat \ {0}
  BY ScreenAssumption
<1> USE DEF ControlInv, InLoop, InCall, Labels
<1>3. CASE WrapStep
  BY <1>1, <1>2, <1>3 DEF WrapStep, Goto
<1>4. CASE ZeroColStep
  BY <1>1, <1>2, <1>4 DEF ZeroColStep, Goto
<1>5. CASE LoadRowStep
  BY <1>1, <1>2, <1>5 DEF LoadRowStep, Goto
<1>6. CASE StoreRowStep
  BY <1>1, <1>2, <1>6 DEF StoreRowStep, Goto
<1>7. CASE ClampStep
  BY <1>1, <1>2, <1>7 DEF ClampStep, Goto
<1>8. CASE SetRowStep
  BY <1>1, <1>2, <1>8 DEF SetRowStep, Goto
<1>9. CASE ScrollStep
  BY <1>1, <1>2, <1>9 DEF ScrollStep, Goto
<1>10. CASE ArgsStep
  BY <1>1, <1>2, <1>10 DEF ArgsStep, Goto
<1>11. CASE LowIndexStep
  BY <1>1, <1>2, <1>11 DEF LowIndexStep, Select, Goto
<1>12. CASE LowDataStep
  BY <1>1, <1>2, <1>12 DEF LowDataStep, WriteData, Goto
<1>13. CASE HighIndexStep
  BY <1>1, <1>2, <1>13 DEF HighIndexStep, Select, Goto
<1>14. CASE HighDataStep
  BY <1>1, <1>2, <1>14 DEF HighDataStep, WriteData, Goto
<1>15. CASE EntryStep
  <2>1. ~ (PosY >= ScreenHeight)
    BY <1>1, <1>2, <1>15 DEF EntryStep, PosY, CopyInv
  <2>2. QED BY <1>1, <1>15, <2>1 DEF EntryStep, Goto
<1>16. CASE StoreStep
  BY <1>1, <1>2, <1>16 DEF StoreStep, Goto
<1>17. CASE SetColStep
  BY <1>1, <1>2, <1>17 DEF SetColStep, PosX, Goto
<1>18. CASE LoadColStep
  BY <1>1, <1>2, <1>18 DEF LoadColStep, Goto
<1>19. CASE StoreColStep
  BY <1>1, <1>2, <1>19 DEF StoreColStep, Goto
<1>20. CASE StringStepMain
  BY <1>1, <1>2, <1>20 DEF StringStepMain, Goto
<1>21. CASE SetCopyStep
  BY <1>1, <1>2, <1>21 DEF SetCopyStep, Goto
<1>22. CASE ClampCopyStep
  BY <1>1, <1>2, <1>22 DEF ClampCopyStep, Goto
<1>23. CASE LetterStep
  BY <1>1, <1>2, <1>23 DEF LetterStep, Goto
<1>24. ASSUME NEW L \in Letters, BeginPutChar(L) PROVE ControlInv'
  BY <1>1, <1>2, <1>24 DEF BeginPutChar, Goto
<1>25. ASSUME NEW S \in Strings, BeginPrintln(S) PROVE ControlInv'
  BY <1>1, <1>2, <1>25 DEF BeginPrintln, Goto
<1>26. ASSUME NEW key \in Keys, PS2KeyboardHandler(key) PROVE ControlInv'
  BY <1>1, <1>2, <1>26 DEF PS2KeyboardHandler, main
<1>27. QED
  BY <1>3, <1>4, <1>5, <1>6, <1>7, <1>8, <1>9, <1>10, <1>11, <1>12, <1>13,
     <1>14, <1>15, <1>16, <1>17, <1>18, <1>19, <1>20, <1>21, <1>22, <1>23,
     <1>24, <1>25, <1>26 DEF Next, MainStep

(* The copy of the position, and the loaded values. *)
LEMMA CopyNext == ASSUME IInv, Next, "BACKSPACE" \notin Keys PROVE CopyInv'
<1>1. ControlInv /\ CopyInv /\ PositionInv
  BY DEF IInv
<1>2. ScreenWidth \in Nat \ {0} /\ ScreenHeight \in Nat \ {0}
  BY ScreenAssumption
<1> USE DEF ControlInv, CopyInv, PositionInv, RowInv, ColInv, Open, InLoop, InCall
<1>3. CASE WrapStep
  BY <1>1, <1>2, <1>3 DEF WrapStep, Goto
<1>4. CASE ZeroColStep
  BY <1>1, <1>2, <1>4 DEF ZeroColStep, Goto
<1>5. CASE LoadRowStep
  BY <1>1, <1>2, <1>5 DEF LoadRowStep, Goto
<1>6. CASE StoreRowStep
  BY <1>1, <1>2, <1>6 DEF StoreRowStep, Goto
<1>7. CASE ClampStep
  BY <1>1, <1>2, <1>7 DEF ClampStep, Goto
<1>8. CASE SetRowStep
  BY <1>1, <1>2, <1>8 DEF SetRowStep, Goto
<1>9. CASE ScrollStep
  BY <1>1, <1>2, <1>9 DEF ScrollStep, Goto
<1>10. CASE ArgsStep
  BY <1>1, <1>2, <1>10 DEF ArgsStep, Goto
<1>11. CASE LowIndexStep
  BY <1>1, <1>2, <1>11 DEF LowIndexStep, Select, Goto
<1>12. CASE LowDataStep
  BY <1>1, <1>2, <1>12 DEF LowDataStep, WriteData, Goto
<1>13. CASE HighIndexStep
  BY <1>1, <1>2, <1>13 DEF HighIndexStep, Select, Goto
<1>14. CASE HighDataStep
  BY <1>1, <1>2, <1>14 DEF HighDataStep, WriteData, Goto
<1>15. CASE EntryStep
  BY <1>1, <1>2, <1>15 DEF EntryStep, PosY, Goto
<1>16. CASE StoreStep
  BY <1>1, <1>2, <1>16 DEF StoreStep, Goto
<1>17. CASE SetColStep
  BY <1>1, <1>2, <1>17 DEF SetColStep, PosX, Goto
<1>18. CASE LoadColStep
  BY <1>1, <1>2, <1>18 DEF LoadColStep, Goto
<1>19. CASE StoreColStep
  BY <1>1, <1>2, <1>19 DEF StoreColStep, Goto
<1>20. CASE StringStepMain
  BY <1>1, <1>2, <1>20 DEF StringStepMain, Goto
<1>21. CASE SetCopyStep
  BY <1>1, <1>2, <1>21 DEF SetCopyStep, Goto
<1>22. CASE ClampCopyStep
  BY <1>1, <1>2, <1>22 DEF ClampCopyStep, Goto
<1>23. CASE LetterStep
  BY <1>1, <1>2, <1>23 DEF LetterStep, Goto
<1>24. ASSUME NEW L \in Letters, BeginPutChar(L) PROVE CopyInv'
  BY <1>1, <1>2, <1>24 DEF BeginPutChar, Goto
<1>25. ASSUME NEW S \in Strings, BeginPrintln(S) PROVE CopyInv'
  BY <1>1, <1>2, <1>25 DEF BeginPrintln, Goto
<1>26. ASSUME NEW key \in Keys, PS2KeyboardHandler(key) PROVE CopyInv'
  BY <1>1, <1>2, <1>26 DEF PS2KeyboardHandler, main
<1>27. QED
  BY <1>3, <1>4, <1>5, <1>6, <1>7, <1>8, <1>9, <1>10, <1>11, <1>12, <1>13,
     <1>14, <1>15, <1>16, <1>17, <1>18, <1>19, <1>20, <1>21, <1>22, <1>23,
     <1>24, <1>25, <1>26 DEF Next, MainStep

(* The shared position. *)
LEMMA PositionNext == ASSUME IInv, Next, "BACKSPACE" \notin Keys PROVE PositionInv'
<1>1. ControlInv /\ CopyInv /\ PositionInv
  BY DEF IInv
<1>2. ScreenWidth \in Nat \ {0} /\ ScreenHeight \in Nat \ {0}
  BY ScreenAssumption
<1> USE DEF ControlInv, CopyInv, PositionInv, RowInv, ColInv, Open, InLoop, InCall, Fields
<1>3. CASE WrapStep
  BY <1>1, <1>2, <1>3 DEF WrapStep, Goto
<1>4. CASE ZeroColStep
  BY <1>1, <1>2, <1>4 DEF ZeroColStep, Goto
<1>5. CASE LoadRowStep
  BY <1>1, <1>2, <1>5 DEF LoadRowStep, Goto
<1>6. CASE StoreRowStep
  BY <1>1, <1>2, <1>6 DEF StoreRowStep, Goto
<1>7. CASE ClampStep
  BY <1>1, <1>2, <1>7 DEF ClampStep, Goto
<1>8. CASE SetRowStep
  BY <1>1, <1>2, <1>8 DEF SetRowStep, Goto
<1>9. CASE ScrollStep
  <2>1. /\ Open(context') /\ context'.CurrentRow = context.CurrentRow
        /\ context'.CurrentCol = context.CurrentCol
    BY <1>1, <1>9, ScrollOK DEF ScrollStep
  <2>2. QED BY <1>1, <1>2, <1>9, <2>1 DEF ScrollStep, Goto
<1>10. CASE ArgsStep
  BY <1>1, <1>2, <1>10 DEF ArgsStep, Goto
<1>11. CASE LowIndexStep
  BY <1>1, <1>2, <1>11 DEF LowIndexStep, Select, Goto
<1>12. CASE LowDataStep
  BY <1>1, <1>2, <1>12 DEF LowDataStep, WriteData, Goto
<1>13. CASE HighIndexStep
  BY <1>1, <1>2, <1>13 DEF HighIndexStep, Select, Goto
<1>14. CASE HighDataStep
  BY <1>1, <1>2, <1>14 DEF HighDataStep, WriteData, Goto
<1>15. CASE EntryStep
  BY <1>1, <1>2, <1>15 DEF EntryStep, PosY, Goto
<1>16. CASE StoreStep
  <2>1. PosX \in Nat /\ PosY \in Nat /\ PosX < ScreenWidth /\ PosY < ScreenHeight
    BY <1>1, <1>2, <1>16 DEF StoreStep, PosX, PosY
  <2>2. context' = [context EXCEPT !.fb[Offset(PosX, PosY)] = Letter]
    BY <1>16, <2>1, OffsetOK DEF StoreStep, StoreCell
  <2>3. /\ Open(context') /\ context'.CurrentRow = context.CurrentRow
        /\ context'.CurrentCol = context.CurrentCol
    BY <1>1, <2>2
  <2>4. QED BY <1>1, <1>2, <1>16, <2>3 DEF StoreStep, Goto
<1>17. CASE SetColStep
  BY <1>1, <1>2, <1>17 DEF SetColStep, PosX, Goto
<1>18. CASE LoadColStep
  BY <1>1, <1>2, <1>18 DEF LoadColStep, Goto
<1>19. CASE StoreColStep
  BY <1>1, <1>2, <1>19 DEF StoreColStep, Goto
<1>20. CASE StringStepMain
  BY <1>1, <1>2, <1>20 DEF StringStepMain, Goto
<1>21. CASE SetCopyStep
  BY <1>1, <1>2, <1>21 DEF SetCopyStep, Goto
<1>22. CASE ClampCopyStep
  BY <1>1, <1>2, <1>22 DEF ClampCopyStep, Goto
<1>23. CASE LetterStep
  BY <1>1, <1>2, <1>23 DEF LetterStep, Goto
<1>24. ASSUME NEW L \in Letters, BeginPutChar(L) PROVE PositionInv'
  BY <1>1, <1>2, <1>24 DEF BeginPutChar, Goto
<1>25. ASSUME NEW S \in Strings, BeginPrintln(S) PROVE PositionInv'
  BY <1>1, <1>2, <1>25 DEF BeginPrintln, Goto
<1>26. ASSUME NEW key \in Keys, PS2KeyboardHandler(key) PROVE PositionInv'
  <2>1. context' = KeyEffect(context, key) /\ key # "BACKSPACE"
    BY <1>26 DEF PS2KeyboardHandler
  <2>2. OnScreen(context')
    BY <1>1, <2>1, KeyOK
  <2>3. QED BY <2>2 DEF OnScreen
<1>27. QED
  BY <1>3, <1>4, <1>5, <1>6, <1>7, <1>8, <1>9, <1>10, <1>11, <1>12, <1>13,
     <1>14, <1>15, <1>16, <1>17, <1>18, <1>19, <1>20, <1>21, <1>22, <1>23,
     <1>24, <1>25, <1>26 DEF Next, MainStep

(* A step of the main line or a key keeps the invariant. *)
LEMMA NextIInv == ASSUME "BACKSPACE" \notin Keys PROVE IInv /\ [Next]_vars => IInv'
<1> SUFFICES ASSUME IInv, [Next]_vars PROVE IInv'
  OBVIOUS
<1>1. CASE Next
  <2>1. disturbed' \in BOOLEAN
    BY <1>1 DEF IInv, Next, BeginPutChar, BeginPrintln, PS2KeyboardHandler, MainStep,
         WrapStep, ZeroColStep, LoadRowStep, StoreRowStep, ClampStep, SetRowStep, ScrollStep,
         ArgsStep, LowIndexStep, LowDataStep, HighIndexStep, HighDataStep, EntryStep,
         StoreStep, SetColStep, LoadColStep, StoreColStep, StringStepMain, SetCopyStep,
         ClampCopyStep, LetterStep, Select, WriteData, Quiet
  <2>2. QED BY <1>1, <2>1, ControlNext, CopyNext, PositionNext DEF IInv
<1>2. CASE UNCHANGED vars
  BY <1>2 DEF vars, main, IInv, ControlInv, CopyInv, PositionInv, RowInv, ColInv, InLoop
<1>3. QED BY <1>1, <1>2

-----------------------------------------------------------------------------
(* What a call that is not disturbed has still to do. *)

(* The last call of VgaPutChar and VgaPrintln, and what comes before it. *)
Finish(c) == VgaMoveCursor(c, c.CurrentCol, c.CurrentRow)
Settle(c) == Finish(ClampRow(WrapCol(c)))
BumpRow(p, c, r) == IF p = "line" THEN [c EXCEPT !.CurrentRow = r + 1, !.CurrentCol = 0]
                                  ELSE [c EXCEPT !.CurrentRow = r + 1]
BumpCol(c, col) == [c EXCEPT !.CurrentCol = col + 1]
WithRow(c, r) == [c EXCEPT !.CurrentRow = r]
WithCol(c, col) == [c EXCEPT !.CurrentCol = col]

(* From the arguments of the last call on: VgaAutoEntry stores its letter  *)
(* L, the others move the cursor.                                          *)
AtArgs(p, L, c) ==
    IF p = "auto"
    THEN LET put == VgaEntry(c, L, c.CurrentCol, c.CurrentRow)
         IN  Settle(BumpCol(put, put.CurrentCol))
    ELSE Finish(c)

(* From places of the loop of VgaStringEntry on, with the letters S left.  *)
AtString(c, X, Y, S) ==
    LET put == Printed(Copy(c, X, Y), S).c
    IN  Finish(ClampRow(BumpRow("line", put, put.CurrentRow)))
AtLetter(c, X, Y, S) == AtString(VgaEntry(c, Head(S), X, Y), X + 1, Y, Tail(S))
AtClampCopy(c, X, Y, S) ==
    IF Y >= ScreenHeight THEN AtLetter(internalVgaPushUp(c), X, ScreenHeight - 1, S)
                         ELSE AtLetter(c, X, Y, S)

(* After internalVgaPushUp, and after the call in progress. *)
AfterPush(c) == IF back = "letter" THEN AtLetter(c, x, y, todo) ELSE AtArgs(part, cell, c)
AfterCall(c) == IF push THEN AfterPush(c) ELSE
                IF after = "idle" THEN c ELSE
                IF after = "loadcol" THEN Settle(BumpCol(c, c.CurrentCol))
                ELSE AtString(c, x + 1, y, todo)

(* The cursor registers point at a position. *)
CursorAt(c, X, Y) == c.low = LowByte(Offset(X, Y)) /\ c.high = HighByte(Offset(X, Y))

(* What remains to be done gives what the call is expected to give. *)
RowOutcome ==
    /\ pc = "wrap" => expected = AtArgs(part, cell, ClampRow(WrapCol(context)))
    /\ pc = "zerocol" =>
         expected = AtArgs(part, cell, ClampRow(
                      IF part = "line" THEN WithCol(context, 0)
                      ELSE BumpRow("line", context, context.CurrentRow)))
    /\ pc = "loadrow" =>
         expected = AtArgs(part, cell, ClampRow(BumpRow(part, context, context.CurrentRow)))
    /\ pc = "storerow" => expected = AtArgs(part, cell, ClampRow(BumpRow(part, context, tmp)))
    /\ pc = "clamp" => expected = AtArgs(part, cell, ClampRow(context))
    /\ pc = "setrow" =>
         expected = AtArgs(part, cell, internalVgaPushUp(WithRow(context, ScreenHeight - 1)))
    /\ pc = "args" => expected = AtArgs(part, cell, context)

CallOutcome ==
    /\ pc = "scroll" => expected = AfterPush(internalVgaPushUp(context))
    /\ pc \in {"lowindex", "lowdata", "highindex", "highdata"} =>
         expected = AfterCall(PutEntry(WriteCursorPorts(context, Offset(PosX, PosY)),
                                       Letter, PosX, PosY))
    /\ pc \in {"entry", "store"} => expected = AfterCall(PutEntry(context, Letter, PosX, PosY))
    /\ pc = "setcol" => expected = AfterCall(WithCol(context, PosX))
    /\ pc = "loadcol" => expected = Settle(BumpCol(context, context.CurrentCol))
    /\ pc = "storecol" => expected = Settle(BumpCol(context, tmp))

LoopOutcome ==
    /\ pc = "string" => expected = AtString(context, x, y, todo)
    /\ pc = "setcopy" => expected = AtClampCopy(WithRow(context, y), x, y, todo)
    /\ pc = "clampcopy" => expected = AtClampCopy(context, x, y, todo)
    /\ pc = "letter" => expected = AtLetter(context, x, y, todo)

(* The registers of the cursor while it is moved, and where it is then. *)
CursorOutcome ==
    /\ pc = "idle" => expected = context /\ CursorAt(context, context.CurrentCol, context.CurrentRow)
    /\ pc = "lowdata" => context.index = "low"
    /\ pc \in {"highindex", "highdata"} => context.low = LowByte(Offset(PosX, PosY))
    /\ pc = "highdata" => context.index = "high"
    /\ pc \in InCall /\ ~ push /\ after = "idle" => context.CurrentRow = y
    /\ pc \in {"entry", "store", "setcol"} /\ ~ push /\ after = "idle" => CursorAt(context, x, y)

Outcome == RowOutcome /\ CallOutcome /\ LoopOutcome /\ CursorOutcome

(* Letters are left where one is printed, and only VgaPutChar wraps. *)
LeftInv ==
    /\ todo \in Seq(Letters)
    /\ pc \in {"setcopy", "clampcopy", "letter"} => todo # <<>>
    /\ pc = "scroll" /\ back = "letter" => todo # <<>>
    /\ pc \in InCall /\ push /\ back = "letter" => todo # <<>>
    /\ pc = "wrap" => part # "line"

QuietInv == LeftInv /\ (~ disturbed => Outcome)

(* Some laws of the changes of a context. *)
LEMMA BumpLaws ==
    ASSUME NEW c, DOMAIN c = Fields, NEW r, NEW p
    PROVE  /\ p # "line" => BumpRow(p, WithCol(c, 0), r) = BumpRow("line", c, r)
           /\ WithCol(WithRow(c, r + 1), 0) = BumpRow("line", c, r)
           /\ p # "line" => BumpRow(p, c, r) = WithRow(c, r + 1)
           /\ [c EXCEPT !.CurrentCol = 0, !.CurrentRow = r + 1] = BumpRow("line", c, r)
           /\ WithCol(c, 0).CurrentRow = c.CurrentRow
BY DEF BumpRow, WithCol, WithRow, Fields

(* A record is a function of its fields. *)
LEMMA OpenDomain == ASSUME IInv PROVE Open(context) /\ DOMAIN context = Fields
BY DEF IInv, PositionInv, Open

(* The checks of column and row. *)
LEMMA QuietWrap == ASSUME IInv, QuietInv, ~ disturbed, WrapStep PROVE Outcome'
<1>1. PICK c, p, L : c = context /\ p = part /\ L = cell
  OBVIOUS
<1>2. /\ context' = c /\ part' = p /\ cell' = L /\ expected' = expected /\ p # "line"
      /\ pc' = IF c.CurrentCol >= ScreenWidth THEN "zerocol" ELSE "clamp"
      /\ expected = AtArgs(p, L, ClampRow(WrapCol(c)))
  BY <1>1 DEF WrapStep, Goto, Quiet, QuietInv, LeftInv, Outcome, RowOutcome
<1>3. CASE c.CurrentCol >= ScreenWidth
  <2>1. WrapCol(c) = BumpRow("line", c, c.CurrentRow)
    BY <1>1, <1>3, OpenDomain, BumpLaws DEF WrapCol
  <2>2. QED BY <1>2, <1>3, <2>1 DEF Outcome, RowOutcome, CallOutcome, LoopOutcome, CursorOutcome, InCall
<1>4. CASE ~ (c.CurrentCol >= ScreenWidth)
  <2>1. WrapCol(c) = c
    BY <1>4 DEF WrapCol
  <2>2. QED BY <1>2, <1>4, <2>1 DEF Outcome, RowOutcome, CallOutcome, LoopOutcome, CursorOutcome, InCall
<1>5. QED BY <1>3, <1>4

(* "CurrentCol = 0;" *)
LEMMA QuietZeroCol == ASSUME IInv, QuietInv, ~ disturbed, ZeroColStep PROVE Outcome'
<1>1. PICK c, d, p, L : c = context /\ d = context' /\ p = part /\ L = cell
  OBVIOUS
<1>2. /\ d = WithCol(c, 0) /\ part' = p /\ cell' = L /\ expected' = expected
      /\ pc' = IF p = "line" THEN "clamp" ELSE "loadrow"
      /\ expected = AtArgs(p, L, ClampRow(IF p = "line" THEN WithCol(c, 0)
                                          ELSE BumpRow("line", c, c.CurrentRow)))
  BY <1>1 DEF ZeroColStep, Goto, Quiet, QuietInv, Outcome, RowOutcome, WithCol
<1>3. CASE p = "line"
  BY <1>1, <1>2, <1>3 DEF Outcome, RowOutcome, CallOutcome, LoopOutcome, CursorOutcome, InCall
<1>4. CASE p # "line"
  <2>1. BumpRow("line", c, c.CurrentRow) = BumpRow(p, d, d.CurrentRow)
    <3>1. PICK r : r = c.CurrentRow
      OBVIOUS
    <3>2. DOMAIN c = Fields
      BY <1>1, OpenDomain
    <3>3. BumpRow(p, WithCol(c, 0), r) = BumpRow("line", c, r) /\ WithCol(c, 0).CurrentRow = c.CurrentRow
      BY <1>4, <3>2, BumpLaws
    <3>4. QED BY <1>2, <3>1, <3>3
  <2>2. QED BY <1>1, <1>2, <1>4, <2>1 DEF Outcome, RowOutcome, CallOutcome, LoopOutcome, CursorOutcome, InCall
<1>5. QED BY <1>3, <1>4

(* "CurrentRow++;", load and store. *)
LEMMA QuietLoadRow == ASSUME QuietInv, ~ disturbed, LoadRowStep PROVE Outcome'
<1>1. PICK c, p, L : c = context /\ p = part /\ L = cell
  OBVIOUS
<1>2. /\ context' = c /\ part' = p /\ cell' = L /\ expected' = expected
      /\ pc' = "storerow" /\ tmp' = c.CurrentRow
      /\ expected = AtArgs(p, L, ClampRow(BumpRow(p, c, c.CurrentRow)))
  BY <1>1 DEF LoadRowStep, Goto, Quiet, QuietInv, Outcome, RowOutcome
<1>3. QED BY <1>2 DEF Outcome, RowOutcome, CallOutcome, LoopOutcome, CursorOutcome, InCall

(* The store. *)
LEMMA QuietStoreRow == ASSUME IInv, QuietInv, ~ disturbed, StoreRowStep PROVE Outcome'
<1>1. PICK c, d, p, L, t : c = context /\ d = context' /\ p = part /\ L = cell /\ t = tmp
  OBVIOUS
<1>2. /\ d = WithRow(c, t + 1) /\ part' = p /\ cell' = L /\ expected' = expected
      /\ pc' = IF p = "line" THEN "zerocol" ELSE "clamp"
      /\ expected = AtArgs(p, L, ClampRow(BumpRow(p, c, t)))
  BY <1>1 DEF StoreRowStep, Goto, Quiet, QuietInv, Outcome, RowOutcome, WithRow
<1>3. /\ WithCol(d, 0) = BumpRow("line", c, t)
      /\ p # "line" => BumpRow(p, c, t) = d
  BY <1>1, <1>2, OpenDomain, BumpLaws
<1>4. CASE p = "line"
  BY <1>1, <1>2, <1>3, <1>4 DEF Outcome, RowOutcome, CallOutcome, LoopOutcome, CursorOutcome, InCall
<1>5. CASE p # "line"
  BY <1>1, <1>2, <1>3, <1>5 DEF Outcome, RowOutcome, CallOutcome, LoopOutcome, CursorOutcome, InCall
<1>6. QED BY <1>4, <1>5

(* The check of the row. *)
LEMMA QuietClamp == ASSUME QuietInv, ~ disturbed, ClampStep PROVE Outcome'
<1>1. PICK c, p, L : c = context /\ p = part /\ L = cell
  OBVIOUS
<1>2. /\ context' = c /\ part' = p /\ cell' = L /\ expected' = expected
      /\ pc' = IF c.CurrentRow >= ScreenHeight THEN "setrow" ELSE "args"
      /\ expected = AtArgs(p, L, ClampRow(c))
  BY <1>1 DEF ClampStep, Goto, Quiet, QuietInv, Outcome, RowOutcome
<1>3. ClampRow(c) = IF c.CurrentRow >= ScreenHeight
                    THEN internalVgaPushUp(WithRow(c, ScreenHeight - 1)) ELSE c
  BY DEF ClampRow, WithRow
<1>4. QED BY <1>2, <1>3 DEF Outcome, RowOutcome, CallOutcome, LoopOutcome, CursorOutcome, InCall

(* "CurrentRow = SCREEN_HEIGHT - 1;" *)
LEMMA QuietSetRow == ASSUME QuietInv, ~ disturbed, SetRowStep PROVE Outcome'
<1>1. PICK c, d, p, L : c = context /\ d = context' /\ p = part /\ L = cell
  OBVIOUS
<1>2. /\ d = WithRow(c, ScreenHeight - 1) /\ part' = p /\ cell' = L /\ expected' = expected
      /\ pc' = "scroll" /\ back' = "args"
      /\ expected = AtArgs(p, L, internalVgaPushUp(WithRow(c, ScreenHeight - 1)))
  BY <1>1 DEF SetRowStep, Goto, Quiet, QuietInv, Outcome, RowOutcome, WithRow
<1>3. QED BY <1>1, <1>2 DEF Outcome, RowOutcome, CallOutcome, LoopOutcome, CursorOutcome, InCall, AfterPush

(* Laws of the cursor's ports. *)
LEMMA PortLaws ==
    ASSUME NEW c, DOMAIN c = Fields, NEW o, NEW v
    PROVE  /\ WriteCursorPorts([c EXCEPT !.index = v], o) = WriteCursorPorts(c, o)
           /\ WriteCursorPorts([c EXCEPT !.low = v], o) = WriteCursorPorts(c, o)
           /\ c.index = "high" /\ c.low = LowByte(o) =>
                [c EXCEPT !.high = HighByte(o)] = WriteCursorPorts(c, o)
BY DEF WriteCursorPorts, Fields

(* The calls that are made with the cursor on. *)
LEMMA OpenCalls ==
    ASSUME NEW c, Open(c)
    PROVE  /\ internalVgaPushUp(c) =
                PutEntry(WriteCursorPorts(Scroll(c), Offset(0, ScreenHeight - 1)),
                         "NUL", 0, ScreenHeight - 1)
           /\ \A X, Y, L : Y \in Nat /\ Y < ScreenHeight =>
                /\ VgaEntry(c, L, X, Y) = PutEntry(c, L, X, Y)
                /\ VgaMoveCursor(c, X, Y) = PutEntry(WriteCursorPorts(c, Offset(X, Y)), "NUL", X, Y)
<1>1. c.CursorEnabled
  BY DEF Open
<1>2. ASSUME NEW Y \in Nat, Y < ScreenHeight PROVE ~ (Y >= ScreenHeight)
  BY <1>2, ScreenAssumption
<1>3. QED BY <1>1, <1>2 DEF internalVgaPushUp, VgaEntry, VgaMoveCursor

(* The copy of internalVgaPushUp. *)
LEMMA QuietScroll == ASSUME IInv, QuietInv, ~ disturbed, ScrollStep PROVE Outcome'
<1>1. PICK c, d : c = context /\ d = context'
  OBVIOUS
<1>2. /\ d = Scroll(c) /\ pc' = "lowindex" /\ push' = TRUE /\ expected' = expected
      /\ part' = part /\ back' = back /\ x' = x /\ y' = y /\ cell' = cell /\ todo' = todo
      /\ expected = AfterPush(internalVgaPushUp(c))
  BY <1>1 DEF ScrollStep, Goto, Quiet, QuietInv, Outcome, CallOutcome
<1>3. PICK v : v = PutEntry(WriteCursorPorts(d, Offset(0, ScreenHeight - 1)), "NUL", 0, ScreenHeight - 1)
  OBVIOUS
<1>4. internalVgaPushUp(c) = v
  BY <1>1, <1>2, <1>3, OpenDomain, OpenCalls
<1>5. expected = AfterPush(v)
  BY <1>2, <1>4
<1>6. CallOutcome'
  BY <1>1, <1>2, <1>3, <1>5 DEF CallOutcome, AfterCall, AfterPush, PosX, PosY, Letter
<1>7. QED BY <1>2, <1>6 DEF Outcome, RowOutcome, LoopOutcome, CursorOutcome, InCall

(* The arguments of the last call. *)
LEMMA QuietArgs == ASSUME IInv, QuietInv, ~ disturbed, ArgsStep PROVE Outcome'
<1>1. PICK c, p, L : c = context /\ p = part /\ L = cell
  OBVIOUS
<1>2. /\ context' = c /\ part' = p /\ push' = FALSE /\ expected' = expected
      /\ x' = c.CurrentCol /\ y' = c.CurrentRow
      /\ c.CurrentRow \in Nat /\ c.CurrentRow < ScreenHeight /\ Open(c)
      /\ expected = AtArgs(p, L, c)
  BY <1>1 DEF ArgsStep, Quiet, QuietInv, Outcome, RowOutcome, IInv, ControlInv, InCall, InLoop,
              PositionInv, RowInv, Open
<1>3. CASE p = "auto"
  <2>1. pc' = "entry" /\ after' = "loadcol" /\ cell' = L
    BY <1>1, <1>3 DEF ArgsStep, Goto
  <2>2. PICK v : v = PutEntry(c, L, c.CurrentCol, c.CurrentRow)
    OBVIOUS
  <2>3. VgaEntry(c, L, c.CurrentCol, c.CurrentRow) = v
    BY <1>2, <2>2, OpenCalls
  <2>4. expected = Settle(BumpCol(v, v.CurrentCol))
    BY <1>2, <1>3, <2>3 DEF AtArgs
  <2>5. CallOutcome'
    BY <1>2, <2>1, <2>2, <2>4 DEF CallOutcome, AfterCall, PosX, PosY, Letter
  <2>6. QED BY <1>2, <2>1, <2>5 DEF Outcome, RowOutcome, LoopOutcome, CursorOutcome, InCall
<1>4. CASE p # "auto"
  <2>1. pc' = "lowindex" /\ after' = "idle" /\ cell' = "NUL"
    BY <1>1, <1>4 DEF ArgsStep, Goto
  <2>2. PICK v : v = PutEntry(WriteCursorPorts(c, Offset(c.CurrentCol, c.CurrentRow)),
                              "NUL", c.CurrentCol, c.CurrentRow)
    OBVIOUS
  <2>3. expected = v
    BY <1>2, <1>4, <2>2, OpenCalls DEF AtArgs, Finish
  <2>4. CallOutcome'
    BY <1>2, <2>1, <2>2, <2>3 DEF CallOutcome, AfterCall, PosX, PosY, Letter
  <2>5. QED BY <1>2, <2>1, <2>4 DEF Outcome, RowOutcome, LoopOutcome, CursorOutcome, InCall
<1>5. QED BY <1>3, <1>4

(* A write to a port: everything but the controller stays. *)
InPorts == {"lowindex", "lowdata", "highindex", "highdata"}
PortStep == LowIndexStep \/ LowDataStep \/ HighIndexStep \/ HighDataStep

(* What it leaves alone. *)
LEMMA PortStepIs ==
    ASSUME IInv, QuietInv, ~ disturbed, PortStep, NEW o, o = Offset(PosX, PosY)
    PROVE  /\ part' = part /\ push' = push /\ back' = back /\ after' = after /\ x' = x /\ y' = y
           /\ cell' = cell /\ todo' = todo /\ expected' = expected
           /\ PosX' = PosX /\ PosY' = PosY /\ Letter' = Letter
           /\ context'.CurrentRow = context.CurrentRow
           /\ expected = AfterCall(PutEntry(WriteCursorPorts(context, o), Letter, PosX, PosY))
           /\ pc \in InCall
<1>1. DOMAIN context = Fields
  BY OpenDomain
<1>2. pc \in InPorts
  BY DEF PortStep, LowIndexStep, LowDataStep, HighIndexStep, HighDataStep, InPorts
<1>3. /\ part' = part /\ push' = push /\ back' = back /\ after' = after /\ x' = x /\ y' = y
      /\ cell' = cell /\ todo' = todo /\ expected' = expected
  BY DEF PortStep, LowIndexStep, LowDataStep, HighIndexStep, HighDataStep, Select, WriteData, Quiet
<1>4. \E v : \/ context' = [context EXCEPT !.index = v]
             \/ context' = [context EXCEPT !.low = v]
             \/ context' = [context EXCEPT !.high = v]
  BY DEF PortStep, LowIndexStep, LowDataStep, HighIndexStep, HighDataStep, Select, WriteData
<1>5. context'.CurrentRow = context.CurrentRow
  BY <1>1, <1>4 DEF Fields
<1>6. expected = AfterCall(PutEntry(WriteCursorPorts(context, o), Letter, PosX, PosY))
  BY <1>2 DEF QuietInv, Outcome, CallOutcome, InPorts
<1>7. QED BY <1>2, <1>3, <1>5, <1>6 DEF PosX, PosY, Letter, InPorts, InCall

(* The row stays the one the cursor is moved to. *)
LEMMA PortRow ==
    ASSUME IInv, QuietInv, ~ disturbed, PortStep, ~ push', after' = "idle"
    PROVE  context'.CurrentRow = y'
<1>1. PICK o : o = Offset(PosX, PosY)
  OBVIOUS
<1>2. pc \in InCall /\ ~ push /\ after = "idle" /\ y' = y /\ context'.CurrentRow = context.CurrentRow
  BY <1>1, PortStepIs
<1>3. QED BY <1>2 DEF QuietInv, Outcome, CursorOutcome

(* The four writes: index and data of the low half, then of the high one. *)
LEMMA QuietPorts == ASSUME IInv, QuietInv, ~ disturbed, PortStep PROVE Outcome'
<1>1. PICK c, d, X, Y, L, o : /\ c = context /\ d = context' /\ X = PosX /\ Y = PosY /\ L = Letter
                              /\ o = Offset(X, Y)
  OBVIOUS
<1>2. /\ part' = part /\ push' = push /\ back' = back /\ after' = after /\ x' = x /\ y' = y
      /\ cell' = cell /\ todo' = todo /\ expected' = expected
      /\ PosX' = X /\ PosY' = Y /\ Letter' = L
      /\ expected = AfterCall(PutEntry(WriteCursorPorts(c, o), L, X, Y))
  BY <1>1, PortStepIs
<1>3. \A v : AfterCall(v)' = AfterCall(v)
  BY <1>2 DEF AfterCall, AfterPush
<1>4. DOMAIN c = Fields
  BY <1>1, OpenDomain
<1>5. ~ push' /\ after' = "idle" => d.CurrentRow = y'
  BY <1>1, PortRow
<1>6. CASE LowIndexStep
  <2>1. pc' = "lowdata" /\ d = [c EXCEPT !.index = "low"]
    BY <1>1, <1>6 DEF LowIndexStep, Select, Goto
  <2>2. WriteCursorPorts(d, o) = WriteCursorPorts(c, o) /\ d.index = "low"
    BY <1>4, <2>1, PortLaws DEF Fields
  <2>3. CallOutcome'
    <3>1. PICK v : v = PutEntry(WriteCursorPorts(d, o), L, X, Y)
      OBVIOUS
    <3>2. expected' = AfterCall(v)'
      BY <1>2, <1>3, <2>2, <3>1
    <3>3. QED BY <1>1, <1>2, <2>1, <3>1, <3>2 DEF CallOutcome, AfterCall, AfterPush
  <2>4. QED BY <1>1, <1>5, <2>1, <2>2, <2>3 DEF Outcome, RowOutcome, LoopOutcome, CursorOutcome, InCall
<1>7. CASE LowDataStep
  <2>1. c.index = "low"
    BY <1>1, <1>7 DEF LowDataStep, QuietInv, Outcome, CursorOutcome
  <2>2. pc' = "highindex" /\ d = [c EXCEPT !.low = LowByte(o)]
    BY <1>1, <1>7, <2>1 DEF LowDataStep, WriteData, Goto
  <2>3. WriteCursorPorts(d, o) = WriteCursorPorts(c, o) /\ d.low = LowByte(o)
    BY <1>4, <2>2, PortLaws DEF Fields
  <2>4. CallOutcome'
    <3>1. PICK v : v = PutEntry(WriteCursorPorts(d, o), L, X, Y)
      OBVIOUS
    <3>2. expected' = AfterCall(v)'
      BY <1>2, <1>3, <2>3, <3>1
    <3>3. QED BY <1>1, <1>2, <2>2, <3>1, <3>2 DEF CallOutcome, AfterCall, AfterPush
  <2>5. QED BY <1>1, <1>2, <1>5, <2>2, <2>3, <2>4 DEF Outcome, RowOutcome, LoopOutcome, CursorOutcome, InCall
<1>8. CASE HighIndexStep
  <2>1. c.low = LowByte(o)
    BY <1>1, <1>8 DEF HighIndexStep, QuietInv, Outcome, CursorOutcome
  <2>2. pc' = "highdata" /\ d = [c EXCEPT !.index = "high"]
    BY <1>1, <1>8 DEF HighIndexStep, Select, Goto
  <2>3. WriteCursorPorts(d, o) = WriteCursorPorts(c, o) /\ d.low = LowByte(o) /\ d.index = "high"
    BY <1>4, <2>1, <2>2, PortLaws DEF Fields
  <2>4. CallOutcome'
    <3>1. PICK v : v = PutEntry(WriteCursorPorts(d, o), L, X, Y)
      OBVIOUS
    <3>2. expected' = AfterCall(v)'
      BY <1>2, <1>3, <2>3, <3>1
    <3>3. QED BY <1>1, <1>2, <2>2, <3>1, <3>2 DEF CallOutcome, AfterCall, AfterPush
  <2>5. QED BY <1>1, <1>2, <1>5, <2>2, <2>3, <2>4 DEF Outcome, RowOutcome, LoopOutcome, CursorOutcome, InCall
<1>9. CASE HighDataStep
  <2>1. c.low = LowByte(o) /\ c.index = "high"
    BY <1>1, <1>9 DEF HighDataStep, QuietInv, Outcome, CursorOutcome
  <2>2. pc' = "entry" /\ d = [c EXCEPT !.high = HighByte(o)]
    BY <1>1, <1>9, <2>1 DEF HighDataStep, WriteData, Goto
  <2>3. d = WriteCursorPorts(c, o) /\ d.low = LowByte(o) /\ d.high = HighByte(o)
    BY <1>4, <2>1, <2>2, PortLaws DEF Fields
  <2>4. CallOutcome'
    <3>1. PICK v : v = PutEntry(d, L, X, Y)
      OBVIOUS
    <3>2. expected' = AfterCall(v)'
      BY <1>2, <1>3, <2>3, <3>1
    <3>3. QED BY <1>1, <1>2, <2>2, <3>1, <3>2 DEF CallOutcome, AfterCall, AfterPush
  <2>5. ~ push' => o = Offset(x', y')
    BY <1>1, <1>2 DEF PosX, PosY
  <2>6. QED BY <1>1, <1>5, <2>2, <2>3, <2>4, <2>5
              DEF Outcome, RowOutcome, LoopOutcome, CursorOutcome, CursorAt, InCall
<1>10. QED BY <1>6, <1>7, <1>8, <1>9 DEF PortStep

(* VgaEntry: its check of the row, *)
LEMMA QuietEntry == ASSUME IInv, QuietInv, ~ disturbed, EntryStep PROVE Outcome'
<1>1. PICK c, X, Y, L : c = context /\ X = PosX /\ Y = PosY /\ L = Letter
  OBVIOUS
<1>2. ~ (PosY >= ScreenHeight)
  BY ScreenAssumption DEF EntryStep, PosY, IInv, CopyInv, InCall
<1>3. /\ part' = part /\ push' = push /\ back' = back /\ after' = after /\ x' = x /\ y' = y
      /\ cell' = cell /\ todo' = todo /\ expected' = expected /\ context' = c
      /\ pc = "entry" /\ pc' = "store"
  BY <1>1, <1>2 DEF EntryStep, Goto, Quiet
<1>4. PosX' = X /\ PosY' = Y /\ Letter' = L /\ (\A v : AfterCall(v)' = AfterCall(v))
  BY <1>1, <1>3 DEF PosX, PosY, Letter, AfterCall, AfterPush
<1>5. PICK v : v = PutEntry(c, L, X, Y)
  OBVIOUS
<1>6. expected = AfterCall(v)
  BY <1>1, <1>3, <1>5 DEF QuietInv, Outcome, CallOutcome
<1>7. CallOutcome'
  BY <1>3, <1>4, <1>5, <1>6 DEF CallOutcome, AfterCall, AfterPush
<1>8. CursorOutcome'
  BY <1>1, <1>3 DEF QuietInv, Outcome, CursorOutcome, InCall
<1>9. QED BY <1>3, <1>7, <1>8 DEF Outcome, RowOutcome, LoopOutcome

(* the store, *)
LEMMA QuietStore == ASSUME IInv, QuietInv, ~ disturbed, StoreStep PROVE Outcome'
<1>1. PICK c, d, X, Y, L : c = context /\ d = context' /\ X = PosX /\ Y = PosY /\ L = Letter
  OBVIOUS
<1>2. /\ part' = part /\ push' = push /\ back' = back /\ after' = after /\ x' = x /\ y' = y
      /\ cell' = cell /\ todo' = todo /\ expected' = expected /\ d = StoreCell(c, L, X, Y)
      /\ pc = "store" /\ pc' = "setcol"
  BY <1>1 DEF StoreStep, Goto, Quiet
<1>3. PosX' = X /\ (\A v : AfterCall(v)' = AfterCall(v))
  BY <1>1, <1>2 DEF PosX, AfterCall, AfterPush
<1>4. PICK v : v = WithCol(d, X)
  OBVIOUS
<1>5. v = PutEntry(c, L, X, Y)
  BY <1>2, <1>4 DEF PutEntry, WithCol
<1>6. expected = AfterCall(v)
  BY <1>1, <1>2, <1>5 DEF QuietInv, Outcome, CallOutcome
<1>7. CallOutcome'
  BY <1>1, <1>2, <1>3, <1>4, <1>6 DEF CallOutcome, AfterCall, AfterPush
<1>8. d.CurrentRow = c.CurrentRow /\ d.low = c.low /\ d.high = c.high
  BY <1>1, <1>2, OpenDomain DEF StoreCell, Fields
<1>9. CursorOutcome'
  BY <1>1, <1>2, <1>8 DEF QuietInv, Outcome, CursorOutcome, CursorAt, InCall
<1>10. QED BY <1>2, <1>7, <1>9 DEF Outcome, RowOutcome, LoopOutcome

(* the column, and the return. *)
LEMMA QuietSetCol == ASSUME IInv, QuietInv, ~ disturbed, SetColStep PROVE Outcome'
<1>1. PICK c, d, X : c = context /\ d = context' /\ X = PosX
  OBVIOUS
<1>2. /\ part' = part /\ y' = y /\ cell' = cell /\ todo' = todo /\ expected' = expected
      /\ d = WithCol(c, X) /\ pc = "setcol" /\ expected = AfterCall(d) /\ DOMAIN c = Fields
      /\ back \in {"args", "letter"} /\ after \in {"idle", "loadcol", "string"}
  BY <1>1, OpenDomain DEF SetColStep, Quiet, WithCol, QuietInv, Outcome, CallOutcome, IInv, ControlInv
<1>3. CASE push
  <2>1. pc' = back /\ x' = x
    BY <1>3 DEF SetColStep, Goto
  <2>2. expected = AfterPush(d)
    BY <1>2, <1>3 DEF AfterCall
  <2>3. CASE back = "args"
    <3>1. expected = AtArgs(part, cell, d)
      BY <2>2, <2>3 DEF AfterPush
    <3>2. QED BY <1>1, <1>2, <2>1, <2>3, <3>1
                DEF Outcome, RowOutcome, CallOutcome, LoopOutcome, CursorOutcome, InCall
  <2>4. CASE back = "letter"
    <3>1. expected = AtLetter(d, x, y, todo)
      BY <2>2, <2>4 DEF AfterPush
    <3>2. QED BY <1>1, <1>2, <2>1, <2>4, <3>1
                DEF Outcome, RowOutcome, CallOutcome, LoopOutcome, CursorOutcome, InCall
  <2>5. QED BY <1>2, <2>3, <2>4
<1>4. CASE ~ push
  <2>1. pc' = after /\ x' = IF after = "string" THEN x + 1 ELSE x
    BY <1>4 DEF SetColStep, Goto
  <2>2. CASE after = "idle"
    <3>1. expected = d
      BY <1>2, <1>4, <2>2 DEF AfterCall
    <3>2. c.CurrentRow = y /\ CursorAt(c, x, y) /\ X = x
      BY <1>1, <1>2, <1>4, <2>2 DEF QuietInv, Outcome, CursorOutcome, InCall, PosX
    <3>3. CursorAt(d, d.CurrentCol, d.CurrentRow)
      BY <1>2, <3>2 DEF CursorAt, WithCol, Fields
    <3>4. QED BY <1>1, <1>2, <2>1, <2>2, <3>1, <3>3
                DEF Outcome, RowOutcome, CallOutcome, LoopOutcome, CursorOutcome, InCall
  <2>3. CASE after = "loadcol"
    <3>1. expected = Settle(BumpCol(d, d.CurrentCol))
      BY <1>2, <1>4, <2>3 DEF AfterCall
    <3>2. QED BY <1>1, <1>2, <2>1, <2>3, <3>1
                DEF Outcome, RowOutcome, CallOutcome, LoopOutcome, CursorOutcome, InCall
  <2>4. CASE after = "string"
    <3>1. expected = AtString(d, x + 1, y, todo)
      BY <1>2, <1>4, <2>4 DEF AfterCall
    <3>2. QED BY <1>1, <1>2, <2>1, <2>4, <3>1
                DEF Outcome, RowOutcome, CallOutcome, LoopOutcome, CursorOutcome, InCall
  <2>5. QED BY <1>2, <2>2, <2>3, <2>4
<1>5. QED BY <1>3, <1>4

(* "CurrentCol++;", load and store. *)
LEMMA QuietLoadCol == ASSUME QuietInv, ~ disturbed, LoadColStep PROVE Outcome'
<1>1. PICK c : c = context
  OBVIOUS
<1>2. /\ context' = c /\ expected' = expected /\ pc' = "storecol" /\ tmp' = c.CurrentCol
      /\ expected = Settle(BumpCol(c, c.CurrentCol))
  BY <1>1 DEF LoadColStep, Goto, Quiet, QuietInv, Outcome, CallOutcome
<1>3. QED BY <1>2 DEF Outcome, RowOutcome, CallOutcome, LoopOutcome, CursorOutcome, InCall

(* The store. *)
LEMMA QuietStoreCol == ASSUME QuietInv, ~ disturbed, StoreColStep PROVE Outcome'
<1>1. PICK c, d : c = context /\ d = context'
  OBVIOUS
<1>2. /\ d = BumpCol(c, tmp) /\ expected' = expected /\ pc' = "wrap" /\ part' = "tail"
      /\ expected = Settle(BumpCol(c, tmp)) /\ cell' = cell
  BY <1>1 DEF StoreColStep, Goto, Quiet, QuietInv, Outcome, CallOutcome, BumpCol
<1>3. expected = AtArgs("tail", cell, ClampRow(WrapCol(d)))
  BY <1>2 DEF Settle, AtArgs
<1>4. QED BY <1>1, <1>2, <1>3 DEF Outcome, RowOutcome, CallOutcome, LoopOutcome, CursorOutcome, InCall

(* The loop of VgaStringEntry, one letter of it. *)
LEMMA StringUnfold ==
    ASSUME NEW c, NEW X, NEW Y, NEW S \in Seq(Letters), S # <<>>
    PROVE  AtString(c, X, Y, S) = IF X >= ScreenWidth
                                  THEN AtClampCopy(WithRow(c, Y + 1), 0, Y + 1, S)
                                  ELSE AtClampCopy(c, X, Y, S)
<1>1. PICK L : L = Head(S)
  OBVIOUS
<1>2. L \notin {"TAB", "LF"}
  <2>1. Head(S) \in Letters
    BY HeadTailProperties
  <2>2. QED BY <1>1, <2>1, TextAssumption
<1>3. PICK k, u, v : /\ k = IF X >= ScreenWidth THEN WithRow(c, Y + 1) ELSE c
                     /\ u = IF X >= ScreenWidth THEN 0 ELSE X
                     /\ v = IF X >= ScreenWidth THEN Y + 1 ELSE Y
  OBVIOUS
<1>4. WrapCopy(Copy(c, X, Y)) = Copy(k, u, v)
  BY <1>3 DEF WrapCopy, Copy, WithRow
<1>5. PICK m, z : /\ m = IF v >= ScreenHeight THEN internalVgaPushUp(k) ELSE k
                  /\ z = IF v >= ScreenHeight THEN ScreenHeight - 1 ELSE v
  OBVIOUS
<1>6. ClampCopy(Copy(k, u, v)) = Copy(m, u, z)
  BY <1>5 DEF ClampCopy, Copy
<1>7. StringStep(Copy(c, X, Y), L) = Copy(VgaEntry(m, L, u, z), u + 1, z)
  <2>1. PICK r : r = ClampCopy(WrapCopy(Copy(c, X, Y)))
    OBVIOUS
  <2>2. r = Copy(m, u, z)
    BY <1>4, <1>6, <2>1
  <2>3. StringStep(Copy(c, X, Y), L) = [r EXCEPT !.c = VgaEntry(r.c, L, r.x, r.y), !.x = r.x + 1]
    BY <1>2, <2>1 DEF StringStep
  <2>4. QED BY <2>2, <2>3 DEF Copy
<1>8. Printed(Copy(c, X, Y), S) = Printed(Copy(VgaEntry(m, L, u, z), u + 1, z), Tail(S))
  BY <1>1, <1>7, PrintedFirst
<1>9. AtString(c, X, Y, S) = AtLetter(m, u, z, S)
  BY <1>1, <1>8 DEF AtString, AtLetter
<1>10. AtLetter(m, u, z, S) = AtClampCopy(k, u, v, S)
  BY <1>5 DEF AtClampCopy
<1>11. QED BY <1>3, <1>9, <1>10

(* The test of the loop. *)
LEMMA QuietString == ASSUME IInv, QuietInv, ~ disturbed, StringStepMain PROVE Outcome'
<1>1. PICK c, S : c = context /\ S = todo
  OBVIOUS
<1>2. /\ context' = c /\ part' = part /\ cell' = cell /\ todo' = S /\ expected' = expected
      /\ expected = AtString(c, x, y, S) /\ part = "line" /\ S \in Seq(Letters)
      /\ x \in Nat /\ y \in Nat
  BY <1>1, ScreenAssumption DEF StringStepMain, Quiet, QuietInv, LeftInv, Outcome, LoopOutcome,
       IInv, ControlInv, CopyInv, InLoop
<1>3. CASE S = <<>>
  <2>1. pc' = "loadrow"
    BY <1>1, <1>3 DEF StringStepMain, Goto
  <2>2. PICK e : e = Copy(c, x, y)
    OBVIOUS
  <2>3. Printed(e, S).c = c
    BY <1>3, <2>2, PrintedEmpty DEF Copy
  <2>4. expected = AtArgs("line", cell, ClampRow(BumpRow("line", c, c.CurrentRow)))
    BY <1>2, <2>2, <2>3 DEF AtString, AtArgs
  <2>5. QED BY <1>2, <2>1, <2>4 DEF Outcome, RowOutcome, CallOutcome, LoopOutcome, CursorOutcome, InCall
<1>4. CASE S # <<>>
  <2>1. AtString(c, x, y, S) = IF x >= ScreenWidth
                               THEN AtClampCopy(WithRow(c, y + 1), 0, y + 1, S)
                               ELSE AtClampCopy(c, x, y, S)
    <3>1. PICK X, Y : X = x /\ Y = y
      OBVIOUS
    <3>2. QED BY <1>2, <1>4, <3>1, StringUnfold
  <2>2. CASE x >= ScreenWidth
    <3>1. pc' = "setcopy" /\ x' = 0 /\ y' = y + 1
      BY <1>1, <1>2, <1>4, <2>2, ScreenAssumption DEF StringStepMain, Goto
    <3>2. QED BY <1>2, <2>1, <2>2, <3>1
                DEF Outcome, RowOutcome, CallOutcome, LoopOutcome, CursorOutcome, InCall
  <2>3. CASE ~ (x >= ScreenWidth)
    <3>1. pc' = "clampcopy" /\ x' = x /\ y' = y
      BY <1>1, <1>2, <1>4, <2>3, ScreenAssumption DEF StringStepMain, Goto
    <3>2. QED BY <1>2, <2>1, <2>3, <3>1
                DEF Outcome, RowOutcome, CallOutcome, LoopOutcome, CursorOutcome, InCall
  <2>4. QED BY <2>2, <2>3
<1>5. QED BY <1>3, <1>4

(* "CurrentRow = RowVal;" *)
LEMMA QuietSetCopy == ASSUME QuietInv, ~ disturbed, SetCopyStep PROVE Outcome'
<1>1. PICK c, d : c = context /\ d = context'
  OBVIOUS
<1>2. /\ d = WithRow(c, y) /\ x' = x /\ y' = y /\ todo' = todo /\ expected' = expected
      /\ pc' = "clampcopy" /\ expected = AtClampCopy(WithRow(c, y), x, y, todo)
  BY <1>1 DEF SetCopyStep, Goto, Quiet, WithRow, QuietInv, Outcome, LoopOutcome
<1>3. QED BY <1>1, <1>2 DEF Outcome, RowOutcome, CallOutcome, LoopOutcome, CursorOutcome, InCall

(* The check of the copied row. *)
LEMMA QuietClampCopy == ASSUME IInv, QuietInv, ~ disturbed, ClampCopyStep PROVE Outcome'
<1>1. PICK c : c = context
  OBVIOUS
<1>2. /\ context' = c /\ x' = x /\ todo' = todo /\ expected' = expected /\ y \in Nat
      /\ expected = AtClampCopy(c, x, y, todo)
  BY <1>1, ScreenAssumption DEF ClampCopyStep, Quiet, QuietInv, Outcome, LoopOutcome, IInv, CopyInv
<1>3. CASE y >= ScreenHeight
  <2>1. pc' = "scroll" /\ back' = "letter" /\ y' = ScreenHeight - 1
    BY <1>2, <1>3, ScreenAssumption DEF ClampCopyStep, Goto
  <2>2. expected = AtLetter(internalVgaPushUp(c), x, ScreenHeight - 1, todo)
    BY <1>2, <1>3 DEF AtClampCopy
  <2>3. CallOutcome'
    BY <1>2, <2>1, <2>2 DEF CallOutcome, AfterPush
  <2>4. QED BY <1>2, <2>1, <2>3 DEF Outcome, RowOutcome, LoopOutcome, CursorOutcome, InCall
<1>4. CASE ~ (y >= ScreenHeight)
  <2>1. pc' = "letter" /\ y' = y
    BY <1>2, <1>4, ScreenAssumption DEF ClampCopyStep, Goto
  <2>2. expected = AtLetter(c, x, y, todo)
    BY <1>2, <1>4 DEF AtClampCopy
  <2>3. QED BY <1>2, <2>1, <2>2 DEF Outcome, RowOutcome, CallOutcome, LoopOutcome, CursorOutcome, InCall
<1>5. QED BY <1>3, <1>4

(* The letter. *)
LEMMA QuietLetter == ASSUME IInv, QuietInv, ~ disturbed, LetterStep PROVE Outcome'
<1>1. PICK c, L, T, X, Y : c = context /\ L = Head(todo) /\ T = Tail(todo) /\ X = x /\ Y = y
  OBVIOUS
<1>2. /\ context' = c /\ x' = X /\ y' = Y /\ todo' = T /\ cell' = L /\ after' = "string"
      /\ expected' = expected /\ pc' = "entry" /\ push' = FALSE /\ Y \in Nat /\ Y < ScreenHeight
      /\ expected = AtLetter(c, X, Y, todo)
  BY <1>1, ScreenAssumption DEF LetterStep, Goto, Quiet, QuietInv, Outcome, LoopOutcome,
       IInv, CopyInv, ControlInv, InCall
<1>3. PICK v : v = PutEntry(c, L, X, Y)
  OBVIOUS
<1>4. VgaEntry(c, L, X, Y) = v
  BY <1>1, <1>2, <1>3, OpenDomain, OpenCalls
<1>5. expected = AtString(v, X + 1, Y, T)
  BY <1>1, <1>2, <1>4 DEF AtLetter
<1>6. CallOutcome'
  BY <1>2, <1>3, <1>5 DEF CallOutcome, AfterCall, PosX, PosY, Letter
<1>7. QED BY <1>2, <1>6 DEF Outcome, RowOutcome, LoopOutcome, CursorOutcome, InCall

-----------------------------------------------------------------------------
(* A call begins, or a key comes between two calls. *)

(* The last call leaves the cursor on the position. *)
LEMMA FinishCursor ==
    ASSUME NEW c, OnScreen(c), NEW d, d = Finish(c)
    PROVE  CursorAt(d, d.CurrentCol, d.CurrentRow)
<1>1. PICK X, Y : X = c.CurrentCol /\ Y = c.CurrentRow
  OBVIOUS
<1>2. X \in Nat /\ Y \in Nat /\ X < ScreenWidth /\ Y < ScreenHeight /\ Open(c) /\ DOMAIN c = Fields
  BY <1>1 DEF OnScreen, Open
<1>3. PICK p : p = WriteCursorPorts(c, Offset(X, Y))
  OBVIOUS
<1>4. /\ DOMAIN p = Fields /\ p.low = LowByte(Offset(X, Y)) /\ p.high = HighByte(Offset(X, Y))
      /\ p.CurrentRow = Y
  BY <1>1, <1>2, <1>3 DEF WriteCursorPorts, Fields
<1>5. d = PutEntry(p, "NUL", X, Y)
  BY <1>1, <1>2, <1>3, OpenCalls DEF Finish
<1>6. d = [[p EXCEPT !.fb[Offset(X, Y)] = "NUL"] EXCEPT !.CurrentCol = X]
  BY <1>2, <1>5, OffsetOK DEF PutEntry, StoreCell
<1>7. QED BY <1>4, <1>6 DEF CursorAt, Fields

(* VgaPutChar from its first check on. *)
LEMMA PutCharOutcome ==
    ASSUME NEW c, Open(c), NEW L, NEW d, d = VgaPutChar(c, L)
    PROVE  /\ d = AtArgs("auto", L, ClampRow(WrapCol(c)))
           /\ CursorAt(d, d.CurrentCol, d.CurrentRow)
<1>1. PICK ready : ready = ClampRow(WrapCol(c))
  OBVIOUS
<1>2. OnScreen(ready)
  BY <1>1, WrapOK, ClampOK
<1>3. PICK put : put = VgaEntry(ready, L, ready.CurrentCol, ready.CurrentRow)
  OBVIOUS
<1>4. Open(put)
  BY <1>2, <1>3, EntryOK DEF OnScreen, Open
<1>5. PICK auto : auto = BumpCol(put, put.CurrentCol)
  OBVIOUS
<1>6. VgaAutoEntry(c, L) = auto
  BY <1>1, <1>3, <1>5 DEF VgaAutoEntry, BumpCol
<1>7. Open(auto)
  <2>1. put.CurrentCol + 1 \in Nat
    BY <1>4 DEF Open
  <2>2. QED BY <1>4, <1>5, <2>1 DEF BumpCol, Open, Fields
<1>8. d = Settle(auto)
  <2>1. auto.FollowingInput
    BY <1>7 DEF Open
  <2>2. QED BY <1>6, <2>1 DEF VgaPutChar, Settle, Finish
<1>9. OnScreen(ClampRow(WrapCol(auto)))
  BY <1>7, WrapOK, ClampOK
<1>10. CursorAt(d, d.CurrentCol, d.CurrentRow)
  BY <1>8, <1>9, FinishCursor DEF Settle
<1>11. d = AtArgs("auto", L, ready)
  BY <1>3, <1>5, <1>8 DEF AtArgs
<1>12. QED BY <1>1, <1>10, <1>11

(* VgaPrintln from the start of its loop on. *)
LEMMA PrintlnOutcome ==
    ASSUME NEW c, NEW S
    PROVE  VgaPrintln(c, S) = AtString(c, c.CurrentCol, c.CurrentRow, S)
BY StringEntryIs DEF VgaPrintln, AtString, Finish, BumpRow

(* The cursor after a key. *)
LEMMA KeyCursor ==
    ASSUME NEW c, Open(c), NEW key, key # "BACKSPACE", NEW d, d = KeyEffect(c, key)
    PROVE  CursorAt(d, d.CurrentCol, d.CurrentRow)
<1>1. CASE key = "ENTER"
  <2>1. PICK e : e = BumpRow("line", c, c.CurrentRow)
    OBVIOUS
  <2>2. d = Finish(ClampRow(e))
    BY <1>1, <2>1, EmptyString DEF KeyEffect, VgaPrintln, Finish, BumpRow
  <2>3. Open(e) /\ e.CurrentCol < ScreenWidth
    <3>1. c.CurrentRow + 1 \in Nat /\ 0 < ScreenWidth /\ 0 \in Nat
      BY ScreenAssumption DEF Open
    <3>2. QED BY <2>1, <3>1 DEF BumpRow, Open, Fields
  <2>4. OnScreen(ClampRow(e))
    BY <2>3, ClampOK
  <2>5. QED BY <2>2, <2>4, FinishCursor
<1>2. CASE key # "ENTER"
  BY <1>2, PutCharOutcome DEF KeyEffect
<1>3. QED BY <1>1, <1>2

(* The beginning of VgaPutChar. *)
LEMMA QuietPutChar == ASSUME IInv, NEW L \in Letters, BeginPutChar(L) PROVE Outcome'
<1>1. PICK c : c = context
  OBVIOUS
<1>2. /\ context' = c /\ part' = "auto" /\ cell' = L /\ pc' = "wrap" /\ Open(c)
      /\ expected' = VgaPutChar(c, L)
  BY <1>1, OpenDomain DEF BeginPutChar, Goto
<1>3. expected' = AtArgs("auto", L, ClampRow(WrapCol(c)))
  BY <1>2, PutCharOutcome
<1>4. QED BY <1>2, <1>3 DEF Outcome, RowOutcome, CallOutcome, LoopOutcome, CursorOutcome, InCall

(* The beginning of VgaPrintln. *)
LEMMA QuietPrintln == ASSUME NEW S \in Strings, BeginPrintln(S) PROVE Outcome'
<1>1. PICK c : c = context
  OBVIOUS
<1>2. /\ context' = c /\ x' = c.CurrentCol /\ y' = c.CurrentRow /\ todo' = S /\ pc' = "string"
      /\ expected' = VgaPrintln(c, S)
  BY <1>1 DEF BeginPrintln, Goto
<1>3. expected' = AtString(c, c.CurrentCol, c.CurrentRow, S)
  BY <1>2, PrintlnOutcome
<1>4. QED BY <1>2, <1>3 DEF Outcome, RowOutcome, CallOutcome, LoopOutcome, CursorOutcome, InCall

(* A key between two calls; anywhere else it disturbs the call. *)
LEMMA QuietKey ==
    ASSUME IInv, NEW key \in Keys, key # "BACKSPACE", PS2KeyboardHandler(key), ~ disturbed'
    PROVE  Outcome'
<1>1. PICK c, d : c = context /\ d = context'
  OBVIOUS
<1>2. pc = "idle" /\ pc' = "idle" /\ d = KeyEffect(c, key) /\ expected' = d /\ Open(c)
  BY <1>1, OpenDomain DEF PS2KeyboardHandler, main
<1>3. CursorAt(d, d.CurrentCol, d.CurrentRow)
  BY <1>2, KeyCursor
<1>4. QED BY <1>1, <1>2, <1>3 DEF Outcome, RowOutcome, CallOutcome, LoopOutcome, CursorOutcome, InCall

(* The letters left over. *)
LEMMA LeftNext == ASSUME IInv, LeftInv, Next PROVE LeftInv'
<1>1. /\ ControlInv /\ todo \in Seq(Letters)
  BY DEF IInv, LeftInv
<1>2. todo # <<>> => Tail(todo) \in Seq(Letters)
  BY <1>1, HeadTailProperties
<1> USE DEF LeftInv, InCall, Goto
<1>3. CASE WrapStep \/ ZeroColStep \/ LoadRowStep \/ StoreRowStep \/ ClampStep \/ SetRowStep
  BY <1>1, <1>3 DEF WrapStep, ZeroColStep, LoadRowStep, StoreRowStep, ClampStep, SetRowStep
<1>4. CASE ScrollStep
  BY <1>1, <1>4 DEF ScrollStep
<1>5. CASE ArgsStep
  BY <1>1, <1>5 DEF ArgsStep, ControlInv
<1>6. CASE PortStep
  BY <1>1, <1>6 DEF PortStep, LowIndexStep, LowDataStep, HighIndexStep, HighDataStep, Select, WriteData
<1>7. CASE EntryStep
  BY <1>1, <1>7 DEF EntryStep
<1>8. CASE StoreStep
  BY <1>1, <1>8 DEF StoreStep
<1>9. CASE SetColStep
  BY <1>1, <1>9 DEF SetColStep, ControlInv
<1>10. CASE LoadColStep \/ StoreColStep
  BY <1>1, <1>10 DEF LoadColStep, StoreColStep
<1>11. CASE StringStepMain
  BY <1>1, <1>11 DEF StringStepMain
<1>12. CASE SetCopyStep
  BY <1>1, <1>12 DEF SetCopyStep
<1>13. CASE ClampCopyStep
  BY <1>1, <1>13 DEF ClampCopyStep
<1>14. CASE LetterStep
  BY <1>1, <1>2, <1>14 DEF LetterStep, ControlInv
<1>15. ASSUME NEW L \in Letters, BeginPutChar(L) PROVE LeftInv'
  BY <1>1, <1>15 DEF BeginPutChar
<1>16. ASSUME NEW S \in Strings, BeginPrintln(S) PROVE LeftInv'
  <2>1. S \in Seq(Letters)
    BY TextAssumption
  <2>2. QED BY <1>16, <2>1 DEF BeginPrintln
<1>17. ASSUME NEW key \in Keys, PS2KeyboardHandler(key) PROVE LeftInv'
  BY <1>1, <1>17 DEF PS2KeyboardHandler, main
<1>18. QED
  BY <1>3, <1>4, <1>5, <1>6, <1>7, <1>8, <1>9, <1>10, <1>11, <1>12, <1>13, <1>14,
     <1>15, <1>16, <1>17 DEF Next, MainStep, PortStep

(* Every step keeps what remains to be done right. *)
LEMMA QuietNext ==
    ASSUME "BACKSPACE" \notin Keys, IInv, QuietInv, [Next]_vars PROVE QuietInv'
<1>1. CASE Next
  <2>1. LeftInv'
    BY <1>1, LeftNext DEF QuietInv
  <2>2. ASSUME ~ disturbed' PROVE Outcome'
    <3>1. ASSUME MainStep PROVE Outcome'
      <4>1. ~ disturbed
        BY <2>2, <3>1 DEF MainStep,
             WrapStep, ZeroColStep, LoadRowStep, StoreRowStep, ClampStep, SetRowStep, ScrollStep,
             ArgsStep, LowIndexStep, LowDataStep, HighIndexStep, HighDataStep, EntryStep,
             StoreStep, SetColStep, LoadColStep, StoreColStep, StringStepMain, SetCopyStep,
             ClampCopyStep, LetterStep, Select, WriteData, Quiet
      <4>2. QED
        BY <3>1, <4>1, QuietWrap, QuietZeroCol, QuietLoadRow, QuietStoreRow, QuietClamp,
           QuietSetRow, QuietScroll, QuietArgs, QuietPorts, QuietEntry, QuietStore,
           QuietSetCol, QuietLoadCol, QuietStoreCol, QuietString, QuietSetCopy,
           QuietClampCopy, QuietLetter DEF MainStep, PortStep
    <3>2. QED BY <1>1, <2>2, <3>1, QuietPutChar, QuietPrintln, QuietKey DEF Next
  <2>3. QED BY <2>1, <2>2 DEF QuietInv
<1>2. CASE UNCHANGED vars
  BY <1>2 DEF vars, main, QuietInv, LeftInv, Outcome, RowOutcome, CallOutcome, LoopOutcome,
       CursorOutcome, AfterCall, AfterPush, PosX, PosY, Letter
<1>3. QED BY <1>1, <1>2

-----------------------------------------------------------------------------
(* The theorems, for keys that print: with the one that erases the second  *)
(* does not hold (see the run with ConsoleIrqErase.cfg).                   *)

(* Every variable keeps its type, and the shared position of the VGA       *)
(* driver exceeds the screen by two rows and one column at most, wherever  *)
(* PS2KeyboardHandler interrupts.                                          *)
THEOREM TypeCorrect == ASSUME "BACKSPACE" \notin Keys PROVE Spec => []TypeOK
<1>1. IInv => TypeOK
  <2> SUFFICES ASSUME IInv PROVE TypeOK
    OBVIOUS
  <2>1. context.CurrentRow \in 0 .. ScreenHeight + 1 /\ context.CurrentCol \in 0 .. ScreenWidth
    BY ScreenAssumption DEF IInv, PositionInv, Open, RowInv, ColInv
  <2>2. QED BY <2>1 DEF IInv, ControlInv, CopyInv, TypeOK
<1>2. QED BY <1>1, InitIInv, NextIInv, PTL DEF Spec

(* No interleaving of VgaPutChar, VgaPrintln and PS2KeyboardHandler writes *)
(* a cell outside the frame buffer, on a screen of any size.               *)
THEOREM StaysOnScreen == ASSUME "BACKSPACE" \notin Keys PROVE Spec => []WritesStayOnScreen
<1>1. IInv => WritesStayOnScreen
  BY DEF IInv, PositionInv, Open, WritesStayOnScreen
<1>2. QED BY <1>1, InitIInv, NextIInv, PTL DEF Spec

(* Between two calls of the VGA driver the position is on the screen,      *)
(* whatever PS2KeyboardHandler did during the last one.                    *)
THEOREM PositionIsRecovered == ASSUME "BACKSPACE" \notin Keys PROVE Spec => []PositionRecovers
<1>1. IInv => PositionRecovers
  BY DEF IInv, PositionInv, RowInv, ColInv, InLoop, InCall, PositionRecovers
<1>2. QED BY <1>1, InitIInv, NextIInv, PTL DEF Spec

(* A call that PS2KeyboardHandler does not run into does exactly what      *)
(* VgaPutChar or VgaPrintln does on its own and leaves the cursor on the   *)
(* position, whatever the races of earlier calls have left behind.         *)
THEOREM QuietCallsAreExact == ASSUME "BACKSPACE" \notin Keys PROVE Spec => []QuietCallsAreAtomic
<1>1. Init => QuietInv
  BY DEF Init, QuietInv, LeftInv, InCall
<1>2. IInv /\ QuietInv /\ [Next]_vars => QuietInv'
  BY QuietNext
<1>3. QuietInv => QuietCallsAreAtomic
  BY DEF QuietInv, Outcome, CursorOutcome, CursorAt, QuietCallsAreAtomic
<1>4. QED BY <1>1, <1>2, <1>3, InitIInv, NextIInv, PTL DEF Spec
=============================================================================
