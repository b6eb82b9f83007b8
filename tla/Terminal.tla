------------------------------ MODULE Terminal ------------------------------
(***************************************************************************)
(* What the text console promises: a screen of ScreenHeight rows of text,  *)
(* a current row at whose end the next letter appears, and a screen that   *)
(* scrolls when the text runs off its bottom.  There is no frame buffer    *)
(* and no cursor here; VgaConsole is shown to implement this.              *)
(***************************************************************************)
EXTENDS Integers, Sequences, SequencesExt

CONSTANTS ScreenWidth, ScreenHeight, Letters, Strings

VARIABLES rows,    \* the text of each row, rows 1 .. ScreenHeight
          cur      \* the row the next letter goes to

vars == <<rows, cur>>

Text == [rows |-> rows, cur |-> cur]
EmptyText == [rows |-> [r \in 1 .. ScreenHeight |-> <<>>], cur |-> 1]
Becomes(t) == rows' = t.rows /\ cur' = t.cur

NewRow(t) ==
    IF t.cur < ScreenHeight
    THEN [t EXCEPT !.cur = @ + 1]
    ELSE [t EXCEPT !.rows = [r \in 1 .. ScreenHeight |->
                                IF r < ScreenHeight THEN t.rows[r + 1] ELSE <<>>]]

RowFull(t) == Len(t.rows[t.cur]) = ScreenWidth
AddLetter(t, Letter) == [t EXCEPT !.rows[t.cur] = Append(@, Letter)]

(* A letter of a string starts a new row when the row before it is full;   *)
(* a typed letter starts the new row as soon as it fills the old one.      *)
WriteLetter(t, Letter) == AddLetter(IF RowFull(t) THEN NewRow(t) ELSE t, Letter)
TypeLetter(t, Letter) ==
    LET w == WriteLetter(t, Letter) IN IF RowFull(w) THEN NewRow(w) ELSE w

(* The text after each letter of a string, and after the last. *)
Texts(t, String) ==
    LET w[n \in 0 .. Len(String)] ==
            IF n = 0 THEN t ELSE WriteLetter(w[n - 1], String[n])
    IN  w
WriteString(t, String) == Texts(t, String)[Len(String)]

Init == rows = EmptyText.rows /\ cur = EmptyText.cur

Type(Letter) == Becomes(TypeLetter(Text, Letter))
PrintLine(String) == Becomes(NewRow(WriteString(Text, String)))
Write(String) == Becomes(WriteString(Text, String))
Erase == /\ rows[cur] # <<>>
         /\ Becomes([Text EXCEPT !.rows[cur] = Front(@)])

Next == \/ \E Letter \in Letters : Type(Letter)
        \/ \E String \in Strings : PrintLine(String) \/ Write(String)
        \/ Erase

Spec == Init /\ [][Next]_vars
=============================================================================
