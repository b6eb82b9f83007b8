--------------------------- MODULE KeyboardProofs ---------------------------
(* Proofs about Keyboard for every set of keys without the invalid entry.  *)
EXTENDS Keyboard, TLAPS

Inv == TypeOK /\ ModifiersFollowCodes /\ CapitalsAreRight

(* The state of the keyboard when the kernel starts. *)
LEMMA InitInv == Init => Inv
  BY DEF Init, Inv, TypeOK, ModifiersFollowCodes, CapitalsAreRight, ShiftHeld, ShiftKeys

(* One code, whatever key it belongs to, keeps the modifiers in step with  *)
(* the codes seen so far, once held and last have been updated.            *)
LEMMA CodeInv ==
    ASSUME Inv, NEW key \in Keys, "" \notin Keys,
           NEW Released \in BOOLEAN,
           PS2KeyboardHandler(key, Released),
           held' \subseteq Keys, last' \in held' \cup {"none"},
           key \notin ShiftKeys => (ShiftHeld' <=> ShiftHeld),
           key \in ShiftKeys /\ ~ Released => ShiftHeld'
    PROVE  Inv'
<1>1. /\ ShiftModifier \in BOOLEAN /\ CapsLock \in BOOLEAN
      /\ oneUp \in BOOLEAN /\ capsOn \in BOOLEAN /\ ShiftHeld \in BOOLEAN
      /\ CapsLock = capsOn /\ ShiftModifier = ((ShiftHeld /\ ~ oneUp) # capsOn)
      /\ oneUp => ShiftHeld
  BY DEF Inv, TypeOK, ModifiersFollowCodes, ShiftHeld
<1>2. /\ oneUp' = IF key \in ShiftKeys THEN Released /\ ShiftHeld' ELSE oneUp
      /\ capsOn' = IF key = "CapsLock" /\ ~ Released THEN ~ capsOn ELSE capsOn
      /\ oneUp' \in BOOLEAN /\ capsOn' \in BOOLEAN /\ ShiftHeld' \in BOOLEAN
  BY <1>1 DEF PS2KeyboardHandler, ShiftHeld
<1>3. "CapsLock" \notin ShiftKeys
  BY DEF ShiftKeys
<1> DEFINE On  == ShiftHeld /\ ~ oneUp
           On1 == ShiftHeld' /\ ~ oneUp'
<1>4. /\ CapsLock' \in BOOLEAN /\ ShiftModifier' \in BOOLEAN
      /\ CapsLock' = capsOn' /\ ShiftModifier' = (On1 # capsOn')
  <2>1. CASE key \in ShiftKeys
    <3>1. ShiftModifier' = ShiftAfter(Released) /\ CapsLock' = CapsLock
      BY <2>1, <1>3 DEF PS2KeyboardHandler, CheckStatusCode, IsShift
    <3>2. oneUp' = (Released /\ ShiftHeld') /\ capsOn' = capsOn
      BY <2>1, <1>2, <1>3
    <3>3. CASE Released
      <4>1. ShiftModifier' = CapsLock /\ On1 = FALSE
        BY <1>2, <3>1, <3>2, <3>3 DEF ShiftAfter
      <4>2. QED BY <1>1, <3>1, <3>2, <4>1
    <3>4. CASE ~ Released
      <4>1. ShiftModifier' = ~ CapsLock /\ On1 = TRUE
        BY <1>2, <2>1, <3>1, <3>2, <3>4 DEF ShiftAfter
      <4>2. QED BY <1>1, <3>1, <3>2, <4>1
    <3>5. QED BY <3>3, <3>4
  <2>2. CASE key = "CapsLock" /\ ~ Released
    <3>1. ShiftModifier' = ~ ShiftModifier /\ CapsLock' = ~ CapsLock
      BY <2>2, <1>3 DEF PS2KeyboardHandler, CheckStatusCode, IsShift
    <3>2. On1 = On /\ capsOn' = ~ capsOn /\ On \in BOOLEAN
      BY <2>2, <1>1, <1>2, <1>3
    <3>3. ShiftModifier = (On # capsOn)
      BY <1>1
    <3> HIDE DEF On, On1
    <3>4. CASE capsOn = TRUE
      BY <1>1, <3>1, <3>2, <3>3, <3>4
    <3>5. CASE capsOn = FALSE
      BY <1>1, <3>1, <3>2, <3>3, <3>5
    <3>6. QED BY <1>1, <3>4, <3>5
  <2>3. CASE key \notin ShiftKeys /\ ~ (key = "CapsLock" /\ ~ Released)
    <3>1. ShiftModifier' = ShiftModifier /\ CapsLock' = CapsLock
      BY <2>3 DEF PS2KeyboardHandler, CheckStatusCode, IsShift
    <3>2. On1 = On /\ capsOn' = capsOn
      BY <2>3, <1>1, <1>2
    <3>3. ShiftModifier = (On # capsOn)
      BY <1>1
    <3> HIDE DEF On, On1
    <3>4. QED BY <1>1, <3>1, <3>2, <3>3
  <2>4. QED BY <2>1, <2>2, <2>3
<1>5. oneUp' => ShiftHeld'
  BY <1>1, <1>2
<1>6. /\ out' \in CaseKeys \cup PlainKeys \cup {With0x20(k) : k \in CaseKeys}
                  \cup {"\n", " ", "erase", "none"}
      /\ out' \in {"A", "B"} => ShiftModifier'
      /\ out' \in {"a", "b"} => ~ ShiftModifier'
  <2>1. CASE Released \/ key = "Backspace"
    <3>1. out' \in {"none", "erase"}
      BY <2>1 DEF PS2KeyboardHandler
    <3>2. QED BY <3>1
  <2>2. CASE ~ Released /\ key # "Backspace" /\ key \in CaseKeys
    <3>1. out' = IF ShiftModifier' THEN key ELSE With0x20(key)
      BY <2>2, <1>4 DEF PS2KeyboardHandler, InternalConvertPS2KeyToASCII,
                        ApplyShiftIfNeeded, CaseKeys
    <3>2. CASE ShiftModifier'
      BY <2>2, <3>1, <3>2 DEF CaseKeys
    <3>3. CASE ~ ShiftModifier'
      <4>1. out' \in {"a", "b", "{", "}"} /\ out' = With0x20(key)
        BY <2>2, <3>1, <3>3 DEF CaseKeys, With0x20
      <4>2. QED BY <2>2, <3>3, <4>1
    <3>4. QED BY <1>4, <3>2, <3>3
  <2>3. CASE ~ Released /\ key # "Backspace" /\ key \notin CaseKeys
    <3>1. out' \in PlainKeys \cup {"\n", " ", "none"}
      BY <2>3 DEF PS2KeyboardHandler, InternalConvertPS2KeyToASCII, ApplyShiftIfNeeded
    <3>2. QED BY <3>1 DEF PlainKeys
  <2>4. QED BY <2>1, <2>2, <2>3
<1>7. CapitalsAreRight'
  BY <1>2, <1>4, <1>5, <1>6 DEF CapitalsAreRight
<1>8. TypeOK'
  BY <1>2, <1>4, <1>6 DEF TypeOK
<1>9. QED BY <1>4, <1>5, <1>7, <1>8 DEF Inv, ModifiersFollowCodes

(* A press, a repetition or a release of any key keeps the invariant. *)
LEMMA NextInv == ASSUME "" \notin Keys PROVE Inv /\ [Next]_vars => Inv'
<1> SUFFICES ASSUME Inv, [Next]_vars PROVE Inv'
  OBVIOUS
<1>1. held \subseteq Keys /\ last \in held \cup {"none"}
  BY DEF Inv, TypeOK
<1>2. ASSUME NEW key \in Keys, Press(key) PROVE Inv'
  <2>1. /\ PS2KeyboardHandler(key, FALSE)
        /\ held' = held \cup {key} /\ last' = key
    BY <1>2 DEF Press
  <2>2. /\ key \notin ShiftKeys => (ShiftHeld' <=> ShiftHeld)
        /\ key \in ShiftKeys => ShiftHeld'
    BY <2>1 DEF ShiftHeld
  <2>3. QED BY <1>1, <2>1, <2>2, CodeInv
<1>3. ASSUME Repeat PROVE Inv'
  <2>1. /\ PS2KeyboardHandler(last, FALSE)
        /\ held' = held /\ last' = last /\ last \in held /\ last \in Keys
    BY <1>1, <1>3 DEF Repeat
  <2>2. (ShiftHeld' <=> ShiftHeld) /\ (last \in ShiftKeys => ShiftHeld')
    BY <2>1 DEF ShiftHeld
  <2>3. QED BY <1>1, <2>1, <2>2, CodeInv
<1>4. ASSUME NEW key \in Keys, Release(key) PROVE Inv'
  <2>1. /\ PS2KeyboardHandler(key, TRUE)
        /\ held' = held \ {key}
        /\ last' \in held' \cup {"none"}
    BY <1>1, <1>4 DEF Release
  <2>2. key \notin ShiftKeys => (ShiftHeld' <=> ShiftHeld)
    BY <2>1 DEF ShiftHeld
  <2>3. QED BY <1>1, <2>1, <2>2, CodeInv
<1>5. CASE UNCHANGED vars
  BY <1>5 DEF vars, Inv, TypeOK, ModifiersFollowCodes, CapitalsAreRight, ShiftHeld
<1>6. QED BY <1>2, <1>3, <1>4, <1>5 DEF Next

(* The modifiers stay Booleans, the repeated key is held and only keys of  *)
(* one letter, Enter and the space print, for every set of keys: here the  *)
(* invalid entry may be among them, as CheckStatusCode takes it for shift  *)
(* and InternalConvertPS2KeyToASCII prints nothing for it.                 *)
THEOREM TypeCorrect == Spec => []TypeOK
<1> DEFINE Printed == CaseKeys \cup PlainKeys \cup {With0x20(key) : key \in CaseKeys}
                        \cup {"\n", " ", "erase", "none"}
<1>1. Init => TypeOK
  BY DEF Init, TypeOK
<1>2. ASSUME TypeOK, NEW key \in Keys, NEW Released \in BOOLEAN,
             PS2KeyboardHandler(key, Released),
             held' \subseteq Keys, last' \in held' \cup {"none"}
      PROVE  TypeOK'
  <2>1. /\ ShiftModifier \in BOOLEAN /\ CapsLock \in BOOLEAN
        /\ oneUp \in BOOLEAN /\ capsOn \in BOOLEAN
    BY <1>2 DEF TypeOK
  <2>2. ShiftModifier' \in BOOLEAN /\ CapsLock' \in BOOLEAN
    BY <1>2, <2>1 DEF PS2KeyboardHandler, CheckStatusCode, ShiftAfter
  <2>3. oneUp' \in BOOLEAN /\ capsOn' \in BOOLEAN
    BY <1>2, <2>1 DEF PS2KeyboardHandler
  <2>4. out' \in Printed
    <3>1. CASE Released \/ key = "Backspace"
      BY <1>2, <3>1 DEF PS2KeyboardHandler
    <3>2. CASE ~ Released /\ key # "Backspace" /\ key \in CaseKeys
      BY <1>2, <3>2 DEF PS2KeyboardHandler, InternalConvertPS2KeyToASCII, ApplyShiftIfNeeded
    <3>3. CASE ~ Released /\ key # "Backspace" /\ key \notin CaseKeys
      BY <1>2, <3>3 DEF PS2KeyboardHandler, InternalConvertPS2KeyToASCII, ApplyShiftIfNeeded
    <3>4. QED BY <3>1, <3>2, <3>3
  <2>5. QED BY <1>2, <2>2, <2>3, <2>4 DEF TypeOK
<1>3. ASSUME TypeOK, [Next]_vars PROVE TypeOK'
  <2>1. held \subseteq Keys /\ last \in held \cup {"none"}
    BY <1>3 DEF TypeOK
  <2>2. ASSUME NEW key \in Keys, Press(key) PROVE TypeOK'
    BY <1>2, <1>3, <2>1, <2>2 DEF Press
  <2>3. CASE Repeat
    BY <1>2, <1>3, <2>1, <2>3 DEF Repeat
  <2>4. ASSUME NEW key \in Keys, Release(key) PROVE TypeOK'
    BY <1>2, <1>3, <2>1, <2>4 DEF Release
  <2>5. CASE UNCHANGED vars
    BY <1>3, <2>5 DEF vars, TypeOK
  <2>6. QED BY <1>3, <2>2, <2>3, <2>4, <2>5 DEF Next
<1>4. QED BY <1>1, <1>3, PTL DEF Spec

(* After any sequence of codes of real keys, ShiftModifier is the state of *)
(* caps lock again whenever no shift key is held (CheckStatusCode).        *)
THEOREM NoShiftLeft == ASSUME "" \notin Keys PROVE Spec => []NoShiftLeftOver
<1>1. Inv => NoShiftLeftOver
  BY DEF Inv, TypeOK, ModifiersFollowCodes, NoShiftLeftOver
<1>2. QED BY <1>1, InitInv, NextInv, PTL DEF Spec

(* Capitals are printed exactly when one of a held shift key and caps lock *)
(* is on, except after the release of one of two held shift keys, when     *)
(* they are printed exactly when caps lock is on (CheckStatusCode with     *)
(* ApplyShiftIfNeeded).                                                    *)
THEOREM Capitals == ASSUME "" \notin Keys PROVE Spec => []CapitalsAreRight
<1>1. Inv => CapitalsAreRight
  BY DEF Inv
<1>2. QED BY <1>1, InitInv, NextInv, PTL DEF Spec
=============================================================================
