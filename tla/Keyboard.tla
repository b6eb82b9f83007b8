------------------------------ MODULE Keyboard ------------------------------
(***************************************************************************)
(* What PS2KeyboardHandler does with a scan code: CheckStatusCode keeps    *)
(* the shift state, InternalConvertPS2KeyToASCII and ApplyShiftIfNeeded    *)
(* choose what is printed.  Keys are pressed and released in any order and *)
(* the keyboard repeats the code of the key pressed last while it is held. *)
(*                                                                         *)
(* A key is its entry of PS2Charmap.  The entry "" ("Invalid sequence...") *)
(* belongs to no key: as a member of Keys it stands for the codes 0x00 and *)
(* 0x80 arriving all the same.  Codes past the end of the table, which the *)
(* handler looks up without a check, are left out.                         *)
(***************************************************************************)
EXTENDS Integers

CONSTANT Keys         \* the keys that are used

ShiftKeys == {"LShift", "RShift"}
CaseKeys == {"A", "B", "[", "]"}            \* codes from 'A' to 'z'
PlainKeys == {"1", ";"}                     \* other codes of one letter
OtherKeys == {"F1", "Backspace", "CapsLock", "Enter", " ", "Backquote", ""} \cup ShiftKeys

ASSUME KeysAssumption == Keys \subseteq CaseKeys \cup PlainKeys \cup OtherKeys

VARIABLES
    ShiftModifier, CapsLock,   \* KeyboardContext
    held,                      \* the keys held down
    last,                      \* the key whose code is repeated, or "none"
    out,                       \* what the last code printed, or "none"
    oneUp,                     \* history: the last shift code released one
                               \* shift key and the other stayed down
    capsOn                     \* history: CapsLock codes so far are odd

vars == <<ShiftModifier, CapsLock, held, last, out, oneUp, capsOn>>

Init == /\ ShiftModifier = FALSE /\ CapsLock = FALSE
        /\ held = {} /\ last = "none" /\ out = "none"
        /\ oneUp = FALSE /\ capsOn = FALSE

-----------------------------------------------------------------------------
(* Comparing the entry's own length with a longer name: an empty entry     *)
(* compares equal to every name.                                           *)
IsShift(key) == key \in ShiftKeys \cup {""}

MutShiftAfter(Released) == ~ Released
ShiftAfter(Released) == IF Released THEN CapsLock ELSE ~ CapsLock

(* CheckStatusCode, up to the call of KiBackspace. *)
CheckStatusCode(key, Released) ==
    \/ /\ IsShift(key)
       /\ ShiftModifier' = ShiftAfter(Released)
       /\ UNCHANGED CapsLock
    \/ /\ key = "CapsLock" /\ ~ Released
       /\ ShiftModifier' = ~ ShiftModifier
       /\ CapsLock' = ~ CapsLock
    \/ /\ ~ IsShift(key)
       /\ key = "CapsLock" => Released
       /\ UNCHANGED <<ShiftModifier, CapsLock>>

(* "In & ~0x20" leaves the codes of CaseKeys alone; this is "In | 0x20". *)
With0x20(key) == IF key = "A" THEN "a" ELSE
                 IF key = "B" THEN "b" ELSE
                 IF key = "[" THEN "{" ELSE "}"

MutApplyShift(key, shift) == IF key \in CaseKeys /\ ~ CapsLock THEN With0x20(key) ELSE key
ApplyShiftIfNeeded(key, shift) ==
    IF key \in CaseKeys /\ ~ shift THEN With0x20(key) ELSE key

MutConvert(key, shift) ==
    IF key = "Enter" THEN "\n" ELSE
    IF key \in {" ", "Backquote"} THEN " " ELSE ApplyShiftIfNeeded(key, shift)
InternalConvertPS2KeyToASCII(key, shift) ==
    IF key = "Enter" THEN "\n" ELSE
    IF key \in {" ", "Backquote"} THEN " " ELSE
    IF key \notin CaseKeys \cup PlainKeys THEN "none" ELSE ApplyShiftIfNeeded(key, shift)

(* Only the code of a press prints; a backspace erases instead. *)
PS2KeyboardHandler(key, Released) ==
    /\ CheckStatusCode(key, Released)
    /\ out' = IF Released THEN "none"
              ELSE IF key = "Backspace" THEN "erase"
              ELSE InternalConvertPS2KeyToASCII(key, ShiftModifier')
    /\ oneUp' = IF key \in ShiftKeys THEN Released /\ held' \cap ShiftKeys # {} ELSE oneUp
    /\ capsOn' = IF key = "CapsLock" /\ ~ Released THEN ~ capsOn ELSE capsOn

-----------------------------------------------------------------------------
(* The user and the keyboard. *)

Press(key) == /\ key \notin held
              /\ held' = held \cup {key} /\ last' = key
              /\ PS2KeyboardHandler(key, FALSE)

Repeat == /\ last # "none"
          /\ UNCHANGED <<held, last>>
          /\ PS2KeyboardHandler(last, FALSE)

Release(key) == /\ key \in held
                /\ held' = held \ {key}
                /\ last' = IF key = last THEN "none" ELSE last
                /\ PS2KeyboardHandler(key, TRUE)

Next == \/ \E key \in Keys : Press(key) \/ Release(key)
        \/ Repeat

Spec == Init /\ [][Next]_vars

-----------------------------------------------------------------------------
(* The modifiers are Booleans, the repeated key is held, and only keys of  *)
(* one letter, Enter and the space print (names such as "F1" do not).      *)
TypeOK == /\ ShiftModifier \in BOOLEAN /\ CapsLock \in BOOLEAN
          /\ held \subseteq Keys
          /\ last \in held \cup {"none"}
          /\ out \in CaseKeys \cup PlainKeys \cup {With0x20(key) : key \in CaseKeys}
                    \cup {"\n", " ", "erase", "none"}
          /\ oneUp \in BOOLEAN /\ capsOn \in BOOLEAN

ShiftHeld == held \cap ShiftKeys # {}

(* With no shift key held, ShiftModifier is the caps lock's state again,   *)
(* in whatever order and on whichever side shift and caps lock were used.  *)
NoShiftLeftOver == ~ ShiftHeld => (ShiftModifier = CapsLock)

(* A letter is printed as a capital exactly if one of a shift key and caps *)
(* lock is on: shift undoes caps lock, and caps lock pressed while shift   *)
(* is held does not upset the release.  CheckStatusCode has one flag for   *)
(* both shift keys, so that the release of one ends the shift although the *)
(* other is still down (oneUp), until that one's code is sent again: then, *)
(* and only then, letters are printed as if no shift key were held.        *)
CapitalsAreRight ==
    /\ out \in {"A", "B"} => (IF oneUp THEN capsOn ELSE ShiftHeld # capsOn)
    /\ out \in {"a", "b"} => (IF oneUp THEN ~ capsOn ELSE ShiftHeld = capsOn)

(* What the modifiers are after any sequence of codes: the strengthening   *)
(* that makes the two properties above inductive.                          *)
ModifiersFollowCodes ==
    /\ CapsLock = capsOn
    /\ ShiftModifier = ((ShiftHeld /\ ~ oneUp) # capsOn)
    /\ oneUp => ShiftHeld
=============================================================================
