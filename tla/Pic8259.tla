------------------------------ MODULE Pic8259 -------------------------------
(***************************************************************************)
(* The Intel 8259A interrupt controller, as far as archstart.c and         *)
(* interrupts.c program it: operators on a controller p, a record with     *)
(*   expect   the initialization word expected next, 0 when initialized;   *)
(*   base     the vector of its line 0;                                    *)
(*   imr, irr, isr   the sets of lines masked, requesting and in service.  *)
(* The hardware is external to the repository; only the writes that the    *)
(* kernel makes are described.                                             *)
(***************************************************************************)
EXTENDS Integers, FiniteSetsExt

Lines == 0 .. 7

Weight == <<1, 2, 4, 8, 16, 32, 64, 128>>      \* of the bit of each line
BitsOf(value) == {i \in Lines : (value \div Weight[i + 1]) % 2 = 1}

(* A controller as the firmware leaves it. *)
FirmwarePic(base) ==
    [expect |-> 0, base |-> base, imr |-> {}, irr |-> {}, isr |-> {}]

-----------------------------------------------------------------------------
ICW1 == 16 + 1      \* start of initialization, with an ICW4 to come
EOI == 32           \* end of the interrupt in service

(* The command port.  Initialization forgets the requests seen so far; an  *)
(* end of interrupt ends the one of highest priority.                      *)
WriteCommand(p, value) ==
    IF value = ICW1 THEN [p EXCEPT !.expect = 2, !.imr = {}, !.irr = {}, !.isr = {}]
    ELSE [p EXCEPT !.isr = IF @ = {} THEN {} ELSE @ \ {Min(@)}]     \* EOI

(* The data port: the initialization words in turn, then the mask. *)
WriteData(p, value) ==
    IF p.expect = 2 THEN [p EXCEPT !.base = value, !.expect = 3] ELSE
    IF p.expect = 3 THEN [p EXCEPT !.expect = 4] ELSE
    IF p.expect = 4 THEN [p EXCEPT !.expect = 0] ELSE
    [p EXCEPT !.imr = BitsOf(value)]

-----------------------------------------------------------------------------
(* A line rises; a line falls before it was acknowledged. *)
Rise(p, line) == [p EXCEPT !.irr = @ \cup {line}]
Fall(p, line) == [p EXCEPT !.irr = @ \ {line}]

(* The requests the controller presents: not masked, and of higher         *)
(* priority than everything in service.  extra holds the cascade line.     *)
Requests(p, extra) ==
    IF p.expect # 0 THEN {}
    ELSE {i \in (p.irr \cup extra) \ p.imr : \A s \in p.isr : i < s}

(* The processor acknowledges: the best request goes into service.  When   *)
(* it is gone the controller answers with line 7 and nothing in service.   *)
AckLine(p, extra) == IF Requests(p, extra) = {} THEN 7 ELSE Min(Requests(p, extra))

Acknowledge(p, extra) ==
    IF Requests(p, extra) = {} THEN p
    ELSE [p EXCEPT !.irr = @ \ {AckLine(p, extra)},
                   !.isr = @ \cup {AckLine(p, extra)}]
=============================================================================
