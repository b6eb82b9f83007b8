---------------------------- MODULE MCConsoleIrq ----------------------------
(* Instances of ConsoleIrq for TLC. *)
EXTENDS ConsoleIrq

(* The empty line and one that wraps on a screen of two columns. *)
MCStrings == {<<>>, <<"a", "a", "a">>}
=============================================================================
