------------------------------ MODULE MCStartup ------------------------------
(* The start-up with tables of eight entries.  The pages lie in slot 1 and  *)
(* in the kernel's slot of p4, with level indexes equal to each other and   *)
(* not, below and behind Shift.                                             *)
EXTENDS Startup

Page(l3, l2, l1, l0) == l0 + Span[2] * l1 + Span[3] * l2 + Span[4] * l3
MCVAddrs == {Page(1, 0, 1, 2), Page(1, 2, 1, 1), Page(1, 1, 1, 0), 
             Page(7, 1, 0, 2), Page(7, 0, 1, 0)}
=============================================================================
