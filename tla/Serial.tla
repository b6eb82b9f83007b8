------------------------------- MODULE Serial -------------------------------
(***************************************************************************)
(* The serial driver (serial.c), the debugger prompt that uses it          *)
(* (kshell.c) and the UART behind port COM1, as the driver uses it.        *)
(*                                                                         *)
(* A machine without the port reads 0xFF from every register.  The prompt  *)
(* is a number of characters; of the characters typed at the other end     *)
(* only the newline matters.                                               *)
(***************************************************************************)
EXTENDS Naturals, Sequences

CONSTANTS
    Divisor,      \* 12
    PromptLen,    \* 8
    TypedBound    \* characters typed at the other end

VARIABLES
    uart,         \* the registers of the UART
    todo,         \* port writes InitSerialDevice has still to make
    shell         \* SerialDoKShellPrompt: where it is and what it did

ASSUME SerialAssumption == Divisor \in 1 .. 255 /\ PromptLen \in Nat

LineStatus == {"empty", "busy", "absent"}

(* The registers are what the firmware left.  lsr is the transmitter as    *)
(* bit 5 of the line status shows it, rbr the last character received.     *)
InitSerial ==
    /\ \E dlab \in BOOLEAN, lsr \in {"empty", "absent"} :
         uart = [dlab |-> dlab, dll |-> 1, dlm |-> 0, ier |-> 1, word |-> 8,
                 fifo |-> FALSE, out2 |-> FALSE, lsr |-> lsr, rbr |-> "none",
                 typed |-> 0]
    /\ todo = <<>>
    /\ shell = [at |-> "off", pos |-> 0, Index |-> 0, CmdBuffer |-> "none"]

-----------------------------------------------------------------------------
(* The UART *)

(* A write to register port + r.  While the divisor latch is open the      *)
(* registers 0 and 1 are the two bytes of the divisor.                     *)
Written(u, r, v) ==
    IF u.lsr = "absent" THEN u ELSE
    IF r = 0 THEN IF u.dlab THEN [u EXCEPT !.dll = v] ELSE [u EXCEPT !.lsr = "busy"] ELSE
    IF r = 1 THEN IF u.dlab THEN [u EXCEPT !.dlm = v] ELSE [u EXCEPT !.ier = v] ELSE
    IF r = 2 THEN [u EXCEPT !.fifo = v % 2 = 1] ELSE
    IF r = 3 THEN [u EXCEPT !.dlab = v >= 128, !.word = 5 + (v % 4)] ELSE
    [u EXCEPT !.out2 = (v \div 8) % 2 = 1]      \* r = 4

(* The transmitter has sent its character. *)
Transmitted ==
    /\ uart.lsr = "busy"
    /\ uart' = [uart EXCEPT !.lsr = "empty"]
    /\ UNCHANGED <<todo, shell>>

(* A character arrives; one that was not read is overwritten. *)
Typed(c) ==
    /\ uart.lsr # "absent"
    /\ uart.typed < TypedBound
    /\ uart' = [uart EXCEPT !.rbr = c, !.typed = @ + 1]
    /\ UNCHANGED <<todo, shell>>

-----------------------------------------------------------------------------
(* InitSerialDevice *)

SerialSetInterrupts(Bitmask) == << <<2, Bitmask>> >>
SerialSetMode(Data) == << <<2, Data>> >>
SerialSetFlags(Bitmask) == << <<3, Bitmask>> >>
SerialConfigureBaudRate(d) == << <<3, 128>>, <<0, d % 256>>, <<1, d \div 256>> >>

MutInitWrites ==
    SerialSetInterrupts(0) \o << <<3, 128>> >> \o SerialSetFlags(3)
      \o SerialConfigureBaudRate(Divisor) \o << <<1, 0>> >>
      \o SerialSetMode(199) \o << <<4, 11>> >>
InitWrites ==
    SerialSetInterrupts(0) \o << <<3, 128>> >>
      \o SerialConfigureBaudRate(Divisor) \o << <<1, 0>> >>
      \o SerialSetFlags(3) \o SerialSetMode(199) \o << <<4, 11>> >>

BeginInitSerialDevice ==
    /\ todo' = InitWrites
    /\ UNCHANGED <<uart, shell>>

PortWrite ==
    /\ todo # <<>>
    /\ uart' = Written(uart, Head(todo)[1], Head(todo)[2])
    /\ todo' = Tail(todo)
    /\ UNCHANGED shell

(* The line status is 0xFF when there is no port.  SerialSetInterrupts     *)
(* writes the FIFO register: the FIFO is switched off again.               *)
EndInitSerialDevice ==
    /\ todo = <<>>
    /\ uart' = IF uart.lsr = "absent" THEN uart
               ELSE Written(uart, 2, 2)
    /\ UNCHANGED <<todo, shell>>

-----------------------------------------------------------------------------
(* SerialDoKShellPrompt *)

BeginPrompt ==
    /\ shell' = [shell EXCEPT !.at = "send", !.pos = 0]
    /\ UNCHANGED <<uart, todo>>

(* SerialSend: a character is sent when the transmitter is empty and       *)
(* dropped otherwise; 0xFF of a missing port looks empty too.              *)
SerialSend ==
    /\ shell.at = "send"
    /\ shell.pos < PromptLen
    /\ uart' = IF uart.lsr = "busy" THEN uart ELSE Written(uart, 0, 102)
    /\ shell' = [shell EXCEPT !.pos = @ + 1]
    /\ UNCHANGED todo

SentAll ==
    /\ shell.at = "send"
    /\ shell.pos = PromptLen
    /\ shell' = [shell EXCEPT !.at = "read", !.Index = 0, !.CmdBuffer = "none"]
    /\ UNCHANGED <<uart, todo>>

(* SerialRecv does not ask whether a character is there. *)
SerialRecv == IF uart.lsr = "absent" THEN "other" ELSE uart.rbr

(* One turn of the loop.  Index is advanced only when it is not zero,      *)
(* which it always is.                                                     *)
MutReadRound ==
    /\ shell.at = "read"
    /\ shell' = [shell EXCEPT !.CmdBuffer = SerialRecv,
                              !.at = IF SerialRecv = "newline" /\ shell.Index # 0
                                     THEN "off" ELSE "read"]
    /\ UNCHANGED <<uart, todo>>
ReadRound ==
    /\ shell.at = "read"
    /\ shell' = [shell EXCEPT !.CmdBuffer = SerialRecv,
                              !.Index = IF @ # 0 THEN (@ + 1) % 1024 ELSE @,
                              !.at = IF SerialRecv = "newline" THEN "off" ELSE "read"]
    /\ UNCHANGED <<uart, todo>>

-----------------------------------------------------------------------------
(* Properties *)

(* The prompt is sent at the speed and with the word length that were      *)
(* configured: the divisor survives the writes of InitSerialDevice to the  *)
(* same ports, and the latch is closed, so that no character is taken for  *)
(* a divisor.                                                              *)
PromptReachesTheLine ==
    shell.at = "send" /\ uart.lsr # "absent" =>
        /\ ~ uart.dlab
        /\ uart.dll + 256 * uart.dlm = Divisor
        /\ uart.word = 8
=============================================================================
