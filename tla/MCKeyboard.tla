---------------------------- MODULE MCKeyboard ------------------------------
(* Instances of Keyboard for TLC. *)
EXTENDS Keyboard

(* Both shift keys, caps lock, a letter, a bracket and the special keys. *)
MCKeys == {"LShift", "RShift", "CapsLock", "A", "[", "1", "Backquote", "Enter",
           "Backspace", "F1"}
=============================================================================
