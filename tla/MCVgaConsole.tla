---------------------------- MODULE MCVgaConsole ----------------------------
(* Instances of VgaConsole for TLC. *)
EXTENDS VgaConsole

(* The empty string, one that fits, one that fills a row of three exactly, *)
(* one that wraps and one that wraps twice, past the bottom if need be.    *)
MCStrings == {<<>>, <<"a">>, <<"a", "b", "a">>, <<"b", "a", "a", "b">>,
              <<"a", "a", "b", "a", "b", "b", "a">>}
=============================================================================
