-------------------------- MODULE InterruptsProofs --------------------------
(* Proofs about Interrupts, for every set of devices on the second         *)
(* controller and every period of the screen.                              *)
EXTENDS Interrupts, TLAPS

-----------------------------------------------------------------------------
(* The start-up sequence, written out. *)

(* Length and elements of two sequences put together. *)
LEMMA Concat ==
    ASSUME NEW R, NEW s \in Seq(R), NEW t \in Seq(R)
    PROVE  /\ s \o t \in Seq(R) /\ Len(s \o t) = Len(s) + Len(t)
           /\ \A i \in 1 .. Len(s) : (s \o t)[i] = s[i]
           /\ \A i \in Len(s) + 1 .. Len(s) + Len(t) : (s \o t)[i] = t[i - Len(s)]
  OBVIOUS

(* Which word each step of KiStartupProcessorMachineDependent writes. *)
LEMMA StartupIs ==
    /\ Len(Startup) = 16
    /\ Startup[1] = Op("cli")
    /\ Startup[2] = Command(1, ICW1) /\ Startup[3] = Command(2, ICW1)
    /\ Startup[4] = Data(1, 32) /\ Startup[5] = Data(2, 40)
    /\ Startup[6] = Data(1, 4) /\ Startup[7] = Data(2, 2)
    /\ Startup[8] = Data(1, 1) /\ Startup[9] = Data(2, 1)
    /\ Startup[10] = Data(1, 1) /\ Startup[11] = Data(2, 1)
    /\ Startup[12] = Data(1, 252) /\ Startup[13] = Data(2, 128)
    /\ Startup[14] = Op("gates") /\ Startup[15] = Op("sti") /\ Startup[16] = Op("sti")
<1> DEFINE R == {Op("cli"), Op("gates"), Op("sti"), Command(1, ICW1), Command(2, ICW1),
                 Data(1, 32), Data(2, 40), Data(1, 4), Data(2, 2), Data(1, 1),
                 Data(2, 1), Data(1, 252), Data(2, 128)}
           a == <<Op("cli")>>
           w == Words(ICW1, 252, 128)
           z == <<Op("gates"), Op("sti"), Op("sti")>>
<1>1. /\ a \in Seq(R) /\ Len(a) = 1 /\ a[1] = Op("cli")
      /\ z \in Seq(R) /\ Len(z) = 3
      /\ z[1] = Op("gates") /\ z[2] = Op("sti") /\ z[3] = Op("sti")
  OBVIOUS
<1>2. /\ w \in Seq(R) /\ Len(w) = 12
  BY DEF Words
<1>3. /\ w[1] = Command(1, ICW1) /\ w[2] = Command(2, ICW1)
      /\ w[3] = Data(1, 32) /\ w[4] = Data(2, 40)
      /\ w[5] = Data(1, 4) /\ w[6] = Data(2, 2)
      /\ w[7] = Data(1, 1) /\ w[8] = Data(2, 1)
      /\ w[9] = Data(1, 1) /\ w[10] = Data(2, 1)
      /\ w[11] = Data(1, 252) /\ w[12] = Data(2, 128)
  BY DEF Words
<1> DEFINE aw == a \o w
           s == aw \o z
<1>4. Startup = s
  BY DEF Startup
<1> HIDE DEF a, w, z, R
<1>5. /\ aw \in Seq(R) /\ Len(aw) = Len(a) + Len(w)
      /\ \A i \in 1 .. Len(a) : aw[i] = a[i]
      /\ \A i \in Len(a) + 1 .. Len(a) + Len(w) : aw[i] = w[i - Len(a)]
  BY <1>1, <1>2, Concat
<1> HIDE DEF aw
<1>6. /\ Len(s) = Len(aw) + Len(z)
      /\ \A i \in 1 .. Len(aw) : s[i] = aw[i]
      /\ \A i \in Len(aw) + 1 .. Len(aw) + Len(z) : s[i] = z[i - Len(aw)]
  <2>1. aw \in Seq(R) /\ z \in Seq(R)
    BY <1>1, <1>5
  <2>2. QED BY <2>1, Concat
<1> HIDE DEF s
<1>7. /\ aw[1] = a[1] /\ Len(aw) = 13
      /\ \A i \in 2 .. 13 : aw[i] = w[i - 1]
  BY <1>1, <1>2, <1>5
<1>8. /\ s[1] = a[1] /\ Len(s) = 16
      /\ \A i \in 2 .. 13 : s[i] = w[i - 1]
      /\ \A i \in 14 .. 16 : s[i] = z[i - 13]
  BY <1>1, <1>6, <1>7
<1>9. /\ s[2] = w[1] /\ s[3] = w[2] /\ s[4] = w[3] /\ s[5] = w[4]
      /\ s[6] = w[5] /\ s[7] = w[6] /\ s[8] = w[7] /\ s[9] = w[8]
      /\ s[10] = w[9] /\ s[11] = w[10] /\ s[12] = w[11] /\ s[13] = w[12]
      /\ s[14] = z[1] /\ s[15] = z[2] /\ s[16] = z[3]
  BY <1>8
<1>10. /\ s[1] = Op("cli") /\ s[14] = Op("gates") /\ s[15] = Op("sti") /\ s[16] = Op("sti")
  BY <1>1, <1>8, <1>9
<1>11. QED BY <1>3, <1>4, <1>8, <1>9, <1>10

(* The masks the start-up leaves: lines 0 and 1 are open on the first      *)
(* controller, lines 0 to 6 on the second.                                 *)
LEMMA Masks == BitsOf(252) = 2 .. 7 /\ BitsOf(128) = {7}
  BY DEF BitsOf, Lines, Weight
-----------------------------------------------------------------------------
(* The inductive invariant. *)

(* How far the start-up has programmed each controller. *)
Programmed ==
    /\ main \in {3, 4} => pic1.expect = 2
    /\ main \in {4, 5} => pic2.expect = 2
    /\ main \in {5, 6} => pic1.expect = 3
    /\ main \in {6, 7} => pic2.expect = 3
    /\ main \in {7, 8} => pic1.expect = 4
    /\ main \in {8, 9} => pic2.expect = 4
    /\ main > 8 => pic1.expect = 0
    /\ main > 9 => pic2.expect = 0
    /\ main > 4 => pic1.base = 32
    /\ main > 5 => pic2.base = 40
    /\ main > 12 => pic1.imr = 2 .. 7
    /\ main > 13 => pic2.imr = {7}

(* Interrupts come on only after the masks and the gates. *)
OffUntilReady ==
    /\ main < 16 => ~ flag /\ ~ inta /\ handler = "none"
    /\ main > 14 => gates = [v \in Vectors |-> GateOf(v)]
    /\ inta => handler = "none"

(* What is in service is what the handler that runs still has to end. *)
InService ==
    /\ pic2.isr = {}
    /\ handler \in {"none", "GenericHandler"} => todo = <<>> /\ pic1.isr = {}
    /\ handler \notin {"none", "GenericHandler"} =>
         /\ handler \in {"PITHandler", "PS2KeyboardHandler"}
         /\ todo \in {StepsOf(handler), <<"eoi1">>, <<>>}
         /\ todo = <<>> <=> pic1.isr = {}
         /\ pic1.isr \subseteq {IF handler = "PITHandler" THEN 0 ELSE 1}

(* A request of the keyboard's line, and a handler about to read, mean     *)
(* that a byte is there.                                                   *)
ByteIsThere ==
    /\ 1 \in pic1.irr => obf
    /\ handler = "PS2KeyboardHandler" /\ todo = StepsOf(handler) => obf

IInv == TypeOK /\ Programmed /\ OffUntilReady /\ InService /\ ByteIsThere

(* The state at the hand-over of the firmware. *)
LEMMA InitIInv == Init => IInv
<1> SUFFICES ASSUME Init PROVE IInv
  OBVIOUS
<1>1. TypeOK
  <2>1. Len(Startup) = 16
    BY StartupIs
  <2>2. pic1 \in ControllerTypes /\ pic2 \in ControllerTypes
    BY DEF Init, FirmwarePic, ControllerTypes, Vectors
  <2>3. ScreenTimer \in 0 .. SwapPeriod - 1
    BY DevicesAssumption DEF Init
  <2>4. /\ flag \in BOOLEAN /\ handler \in Handlers /\ handler = "none"
        /\ \A v \in Vectors : gates[v] \in Handlers
    BY DEF Init, Handlers
  <2>5. Len(todo) <= 2
    BY DEF Init
  <2>6. QED BY <2>1, <2>2, <2>3, <2>4, <2>5 DEF Init, TypeOK
<1>2. Programmed /\ OffUntilReady /\ ByteIsThere
  BY DEF Init, Programmed, OffUntilReady, ByteIsThere, FirmwarePic
<1>3. InService
  BY DEF Init, InService, FirmwarePic
<1>4. QED BY <1>1, <1>2, <1>3 DEF IInv

-----------------------------------------------------------------------------
(* The operators on a controller. *)

(* The one line in service is the one an end of interrupt ends. *)
LEMMA MinOfOne == ASSUME NEW x \in Int PROVE Min({x}) = x
  BY DEF Min

(* The best of the timer's and the keyboard's requests. *)
LEMMA MinOfTwo ==
    ASSUME NEW S, S \subseteq {0, 1}, S # {}
    PROVE  Min(S) = IF 0 \in S THEN 0 ELSE 1
<1>1. CASE 0 \in S
  <2>1. \A y \in S : 0 =< y
    OBVIOUS
  <2>2. \E x \in S : \A y \in S : x =< y
    BY <1>1, <2>1
  <2>3. Min(S) \in S /\ \A y \in S : Min(S) =< y
    BY <2>2 DEF Min
  <2>4. Min(S) \in {0, 1} /\ Min(S) =< 0
    BY <1>1, <2>3, Zenon
  <2>5. Min(S) = 0
    BY <2>4
  <2>6. QED BY <1>1, <2>5
<1>2. CASE 0 \notin S
  <2>1. S = {1}
    BY <1>2
  <2>2. QED BY <2>1, <1>2, MinOfOne
<1>3. QED BY <1>1, <1>2

(* Initialization: the word expected is the second, nothing is left. *)
LEMMA AfterICW1 ==
    ASSUME NEW p \in ControllerTypes
    PROVE  LET q == WriteCommand(p, ICW1) IN
           /\ q \in ControllerTypes
           /\ q.expect = 2 /\ q.irr = {} /\ q.isr = {} /\ q.base = p.base
  BY DEF WriteCommand, ControllerTypes, Lines

(* A word on the data port leaves requests and service alone. *)
LEMMA AfterData ==
    ASSUME NEW p \in ControllerTypes, NEW value \in Vectors
    PROVE  LET q == WriteData(p, value) IN
           /\ q \in ControllerTypes
           /\ q.irr = p.irr /\ q.isr = p.isr
           /\ p.expect = 2 => q.expect = 3 /\ q.base = value
           /\ p.expect # 2 => q.base = p.base
           /\ p.expect = 3 => q.expect = 4
           /\ p.expect = 4 => q.expect = 0
           /\ p.expect = 0 => q.expect = 0 /\ q.imr = BitsOf(value)
<1>1. BitsOf(value) \subseteq Lines
  BY DEF BitsOf
<1>2. CASE p.expect = 2
  <2>1. WriteData(p, value) = [p EXCEPT !.base = value, !.expect = 3]
    BY <1>2 DEF WriteData
  <2> DEFINE q == [p EXCEPT !.base = value, !.expect = 3]
  <2>2. q.expect = 3 /\ q.base = value /\ q.imr = p.imr /\ q.irr = p.irr /\ q.isr = p.isr
    BY DEF ControllerTypes
  <2>3. q \in ControllerTypes
    BY DEF ControllerTypes
  <2>4. QED BY <1>2, <2>1, <2>2, <2>3
<1>3. CASE p.expect = 3
  BY <1>3 DEF WriteData, ControllerTypes
<1>4. CASE p.expect = 4
  BY <1>4 DEF WriteData, ControllerTypes
<1>5. CASE p.expect = 0
  BY <1>1, <1>5 DEF WriteData, ControllerTypes
<1>6. QED BY <1>2, <1>3, <1>4, <1>5 DEF ControllerTypes

(* The end of the one interrupt in service. *)
LEMMA AfterEOI ==
    ASSUME NEW p \in ControllerTypes, NEW x \in Lines, p.isr = {x}
    PROVE  WriteCommand(p, EOI) = [p EXCEPT !.isr = {}]
<1>1. Min({x}) = x
  BY MinOfOne DEF Lines
<1>2. QED BY <1>1 DEF WriteCommand, EOI, ICW1, ControllerTypes

(* A line that rises or falls changes the requests only. *)
LEMMA AfterLine ==
    ASSUME NEW p \in ControllerTypes, NEW x \in Lines
    PROVE  /\ Rise(p, x) \in ControllerTypes /\ Fall(p, x) \in ControllerTypes
           /\ Rise(p, x) = [p EXCEPT !.irr = p.irr \cup {x}]
           /\ Fall(p, x) = [p EXCEPT !.irr = p.irr \ {x}]
  BY DEF Rise, Fall, ControllerTypes

(* With the masks of the start-up and nothing in service, the first        *)
(* controller presents the timer and the keyboard only, the cascade never. *)
LEMMA Presented ==
    ASSUME NEW p \in ControllerTypes, NEW extra \in {{}, {2}},
           p.expect = 0, p.imr = 2 .. 7, p.isr = {}
    PROVE  /\ Requests(p, extra) = p.irr \cap {0, 1}
           /\ AckLine(p, extra) = IF 0 \in p.irr THEN 0
                                  ELSE IF 1 \in p.irr THEN 1 ELSE 7
<1>1. Requests(p, extra) = p.irr \cap {0, 1}
  BY DEF Requests, ControllerTypes, Lines
<1>2. p.irr \cap {0, 1} # {} =>
        Min(p.irr \cap {0, 1}) = IF 0 \in p.irr THEN 0 ELSE 1
  BY MinOfTwo
<1>3. QED BY <1>1, <1>2 DEF AckLine

-----------------------------------------------------------------------------
(* Every step keeps the invariant. *)

(* Where in the start-up each kind of step stands. *)
LEMMA Where ==
    ASSUME IInv, NEW name, Step(name)
    PROVE  /\ main \in 1 .. 16
           /\ name = "cli" => main = 1
           /\ name = "command" => main \in {2, 3}
           /\ name = "data" => main \in 4 .. 13
           /\ name = "gates" => main = 14
           /\ name = "sti" => main \in {15, 16}
<1>1. main \in 1 .. 16 /\ Startup[main].op = name
  BY StartupIs DEF IInv, TypeOK, Step
<1>2. /\ Startup[1].op = "cli"
      /\ Startup[2].op = "command" /\ Startup[3].op = "command"
      /\ Startup[14].op = "gates"
      /\ Startup[15].op = "sti" /\ Startup[16].op = "sti"
  BY StartupIs DEF Op, Command
<1>3. /\ Startup[4].op = "data" /\ Startup[5].op = "data" /\ Startup[6].op = "data"
      /\ Startup[7].op = "data" /\ Startup[8].op = "data" /\ Startup[9].op = "data"
      /\ Startup[10].op = "data" /\ Startup[11].op = "data"
      /\ Startup[12].op = "data" /\ Startup[13].op = "data"
  BY StartupIs DEF Data
<1>4. \/ main = 1 \/ main = 2 \/ main = 3 \/ main = 4 \/ main = 5 \/ main = 6
      \/ main = 7 \/ main = 8 \/ main = 9 \/ main = 10 \/ main = 11 \/ main = 12
      \/ main = 13 \/ main = 14 \/ main = 15 \/ main = 16
  BY <1>1
<1>5. QED BY <1>1, <1>2, <1>3, <1>4

(* Every gate of x86SetupIDTEntries holds a handler; those of the first    *)
(* controller's lines are its own.                                         *)
LEMMA Gates ==
    /\ \A v \in Vectors : GateOf(v) \in Handlers
    /\ GateOf(32) = "PITHandler" /\ GateOf(33) = "PS2KeyboardHandler"
    /\ GateOf(39) = "GenericHandler"
  BY DEF GateOf, Handlers, Vectors

(* cli, sti and the filling of the IDT. *)
LEMMA SwitchesIInv ==
    ASSUME IInv,
           (\E value \in BOOLEAN : KiRestoreInterrupts(value)) \/ x86SetupIDTEntries
    PROVE  IInv'
<1>1. Len(Startup) = 16
  BY StartupIs
<1>2. ASSUME NEW value \in BOOLEAN, KiRestoreInterrupts(value) PROVE IInv'
  <2>1. /\ main' = main + 1 /\ flag' = value
        /\ UNCHANGED <<pic1, pic2, gates, handler, todo, inta, obf, ScreenTimer>>
        /\ handler = "none" /\ ~ inta
    BY <1>2 DEF KiRestoreInterrupts, Step, devices, InMain
  <2>2. (value /\ main \in {15, 16}) \/ (~ value /\ main = 1)
    BY <1>2, Where DEF KiRestoreInterrupts
  <2>3. TypeOK'
    BY <1>1, <2>1, <2>2 DEF IInv, TypeOK
  <2>4. Programmed'
    BY <2>1, <2>2 DEF IInv, Programmed
  <2>5. OffUntilReady'
    BY <2>1, <2>2 DEF IInv, OffUntilReady
  <2>6. InService' /\ ByteIsThere'
    BY <2>1 DEF IInv, InService, ByteIsThere
  <2>7. QED BY <2>3, <2>4, <2>5, <2>6 DEF IInv
<1>3. ASSUME x86SetupIDTEntries PROVE IInv'
  <2>1. /\ main = 14 /\ main' = 15
        /\ gates' = [v \in Vectors |-> GateOf(v)]
        /\ UNCHANGED <<flag, pic1, pic2, handler, todo, inta, obf, ScreenTimer>>
    BY <1>3, Where DEF x86SetupIDTEntries, Step, devices
  <2>2. \A v \in Vectors : gates'[v] \in Handlers
    BY <2>1, Gates
  <2>3. TypeOK'
    BY <1>1, <2>1, <2>2 DEF IInv, TypeOK
  <2>4. Programmed' /\ OffUntilReady'
    BY <2>1 DEF IInv, Programmed, OffUntilReady
  <2>5. InService' /\ ByteIsThere'
    BY <2>1 DEF IInv, InService, ByteIsThere
  <2>6. QED BY <2>3, <2>4, <2>5 DEF IInv
<1>4. QED BY <1>2, <1>3

(* A word written to a controller. *)
LEMMA OutIInv == ASSUME IInv, OutCommand \/ OutData PROVE IInv'
<1>1. Len(Startup) = 16
  BY StartupIs
<1>2. /\ main' = main + 1 /\ main \in 2 .. 13
      /\ pic1' = Out(1, pic1) /\ pic2' = Out(2, pic2)
      /\ UNCHANGED <<flag, gates, handler, todo, inta, obf, ScreenTimer>>
      /\ pic1 \in ControllerTypes /\ pic2 \in ControllerTypes
  BY Where DEF OutCommand, OutData, OutPort, Step, devices, IInv, TypeOK
<1> DEFINE Goal == /\ pic1' \in ControllerTypes /\ pic2' \in ControllerTypes
                   /\ pic1'.isr \subseteq pic1.isr /\ pic2'.isr \subseteq pic2.isr
                   /\ pic1'.irr \subseteq pic1.irr
                   /\ Programmed'
<1>3. ASSUME main = 2 PROVE Goal
  <2>1. Startup[main] = Command(1, ICW1)
    BY <1>3, StartupIs
  <2>2. pic1' = WriteCommand(pic1, ICW1) /\ pic2' = pic2
    BY <1>2, <2>1 DEF Out, Command
  <2>3. QED BY <1>2, <1>3, <2>2, AfterICW1 DEF IInv, Programmed
<1>4. ASSUME main = 3 PROVE Goal
  <2>1. Startup[main] = Command(2, ICW1)
    BY <1>4, StartupIs
  <2>2. pic2' = WriteCommand(pic2, ICW1) /\ pic1' = pic1
    BY <1>2, <2>1 DEF Out, Command
  <2>3. QED BY <1>2, <1>4, <2>2, AfterICW1 DEF IInv, Programmed
<1>5. ASSUME main \in {4, 6, 8, 10, 12} PROVE Goal
  <2>1. PICK v \in Vectors : /\ Startup[main] = Data(1, v)
                             /\ main = 4 => v = 32
                             /\ main = 12 => v = 252
    BY <1>5, StartupIs DEF Vectors
  <2>2. pic1' = WriteData(pic1, v) /\ pic2' = pic2
    BY <1>2, <2>1 DEF Out, Data
  <2>3. QED BY <1>2, <1>5, <2>1, <2>2, AfterData, Masks DEF IInv, Programmed
<1>6. ASSUME main \in {5, 7, 9, 11, 13} PROVE Goal
  <2>1. PICK v \in Vectors : /\ Startup[main] = Data(2, v)
                             /\ main = 5 => v = 40
                             /\ main = 13 => v = 128
    BY <1>6, StartupIs DEF Vectors
  <2>2. pic2' = WriteData(pic2, v) /\ pic1' = pic1
    BY <1>2, <2>1 DEF Out, Data
  <2>3. QED BY <1>2, <1>6, <2>1, <2>2, AfterData, Masks DEF IInv, Programmed
<1>7. Goal
  <2>1. main \in {2, 3} \cup {4, 6, 8, 10, 12} \cup {5, 7, 9, 11, 13}
    BY <1>2
  <2> HIDE DEF Goal
  <2>2. QED BY <2>1, <1>3, <1>4, <1>5, <1>6
<1>8. handler = "none" /\ ~ inta /\ ~ flag /\ todo = <<>> /\ pic1.isr = {} /\ pic2.isr = {}
  BY <1>2 DEF IInv, OffUntilReady, InService
<1>9. TypeOK'
  BY <1>1, <1>2, <1>7 DEF IInv, TypeOK
<1>10. OffUntilReady'
  BY <1>2, <1>8 DEF IInv, OffUntilReady
<1>11. InService' /\ ByteIsThere'
  BY <1>2, <1>7, <1>8 DEF IInv, InService, ByteIsThere
<1>12. QED BY <1>7, <1>9, <1>10, <1>11 DEF IInv

(* The processor accepts a request and gets the vector. *)
LEMMA AcceptIInv == ASSUME IInv, Accept PROVE IInv'
<1>1. /\ flag /\ handler = "none" /\ inta' = TRUE
      /\ UNCHANGED <<main, flag, pic1, pic2, gates, handler, todo, obf, ScreenTimer>>
  BY DEF Accept, InMain, devices
<1>2. TypeOK' /\ Programmed'
  BY <1>1 DEF IInv, TypeOK, Programmed
<1>3. OffUntilReady'
  BY <1>1 DEF IInv, OffUntilReady
<1>4. InService' /\ ByteIsThere'
  BY <1>1 DEF IInv, InService, ByteIsThere
<1>5. QED BY <1>2, <1>3, <1>4 DEF IInv

(* The vector delivered: the timer's, the keyboard's, or, when the timer's *)
(* line fell in between, the spurious one, with nothing in service.        *)
LEMMA Delivered ==
    ASSUME IInv, Deliver
    PROVE  /\ main > 15 /\ inta' = FALSE /\ flag' = FALSE
           /\ UNCHANGED <<main, gates, pic2, obf, ScreenTimer>>
           /\ todo' = StepsOf(handler')
           /\ pic1' \in ControllerTypes /\ pic1'.irr \subseteq pic1.irr
           /\ pic1'.expect = pic1.expect /\ pic1'.base = pic1.base
           /\ pic1'.imr = pic1.imr
           /\ \/ handler' = "PITHandler" /\ pic1'.isr = {0}
              \/ handler' = "PS2KeyboardHandler" /\ pic1'.isr = {1} /\ 1 \in pic1.irr
              \/ handler' = "GenericHandler" /\ pic1'.isr = {}
<1>1. /\ main \in 1 .. 17 /\ main > 15 /\ pic1 \in ControllerTypes
  BY StartupIs DEF Deliver, IInv, TypeOK, OffUntilReady
<1>2. /\ pic1.expect = 0 /\ pic1.imr = 2 .. 7 /\ pic1.base = 32 /\ pic1.isr = {}
      /\ gates = [v \in Vectors |-> GateOf(v)]
  BY <1>1 DEF Deliver, IInv, Programmed, OffUntilReady, InService
<1>3. Cascade \in {{}, {2}}
  BY DEF Cascade
<1> DEFINE line == AckLine(pic1, Cascade)
<1>4. /\ Requests(pic1, Cascade) = pic1.irr \cap {0, 1}
      /\ line = IF 0 \in pic1.irr THEN 0 ELSE IF 1 \in pic1.irr THEN 1 ELSE 7
  BY <1>1, <1>2, <1>3, Presented
<1> HIDE DEF line
<1>5. /\ line # 2
      /\ pic1' = Acknowledge(pic1, Cascade) /\ pic2' = pic2
      /\ handler' = gates[32 + line] /\ todo' = StepsOf(handler')
      /\ inta' = FALSE /\ flag' = FALSE
      /\ UNCHANGED <<main, gates, obf, ScreenTimer>>
  BY <1>2, <1>4 DEF Deliver, Enter, devices, line
<1>6. line \in {0, 1} => /\ line \in pic1.irr
                        /\ pic1' = [pic1 EXCEPT !.irr = pic1.irr \ {line}, !.isr = {line}]
  BY <1>2, <1>4, <1>5 DEF Acknowledge, line
<1>7. line = 7 => pic1' = pic1
  BY <1>4, <1>5 DEF Acknowledge
<1>8. /\ gates[32] = "PITHandler" /\ gates[33] = "PS2KeyboardHandler"
      /\ gates[39] = "GenericHandler"
  BY <1>2, Gates DEF Vectors
<1>9. line \in {0, 1, 7}
  BY <1>4
<1>10. CASE line \in {0, 1}
  <2>1. /\ pic1' \in ControllerTypes /\ pic1'.irr \subseteq pic1.irr
        /\ pic1'.expect = pic1.expect /\ pic1'.base = pic1.base
        /\ pic1'.imr = pic1.imr /\ pic1'.isr = {line}
    <3>1. line \in Lines
      BY <1>10 DEF Lines
    <3>2. pic1' = [pic1 EXCEPT !.irr = pic1.irr \ {line}, !.isr = {line}]
      BY <1>6, <1>10
    <3>3. {line} \subseteq Lines /\ pic1.irr \ {line} \subseteq Lines
      BY <1>1, <3>1 DEF ControllerTypes
    <3>4. pic1' \in ControllerTypes
      BY <1>1, <3>2, <3>3 DEF ControllerTypes
    <3>5. /\ pic1'.irr = pic1.irr \ {line} /\ pic1'.isr = {line}
          /\ pic1'.expect = pic1.expect /\ pic1'.base = pic1.base /\ pic1'.imr = pic1.imr
      BY <1>1, <3>2 DEF ControllerTypes
    <3>6. QED BY <3>4, <3>5
  <2>2. CASE line = 0
    BY <1>1, <1>5, <1>8, <2>1, <2>2
  <2>3. CASE line = 1
    BY <1>1, <1>5, <1>6, <1>8, <2>1, <2>3
  <2>4. QED BY <1>10, <2>2, <2>3
<1>11. CASE line = 7
  BY <1>1, <1>2, <1>5, <1>7, <1>8, <1>11
<1>12. QED BY <1>9, <1>10, <1>11

(* Hence the delivery keeps the invariant. *)
LEMMA DeliverIInv == ASSUME IInv, Deliver PROVE IInv'
<1>1. handler = "none" /\ main \in Int
  BY DEF Deliver, IInv, TypeOK, OffUntilReady
<1>2. /\ main > 15 /\ inta' = FALSE /\ flag' = FALSE
      /\ UNCHANGED <<main, gates, pic2, obf, ScreenTimer>>
      /\ todo' = StepsOf(handler')
      /\ pic1' \in ControllerTypes /\ pic1'.irr \subseteq pic1.irr
      /\ pic1'.expect = pic1.expect /\ pic1'.base = pic1.base
      /\ pic1'.imr = pic1.imr
      /\ handler' = "PITHandler" => pic1'.isr = {0}
      /\ handler' = "PS2KeyboardHandler" => pic1'.isr = {1} /\ 1 \in pic1.irr
      /\ handler' = "GenericHandler" => pic1'.isr = {}
  BY Delivered
<1>3. handler' \in {"PITHandler", "PS2KeyboardHandler", "GenericHandler"}
  BY Delivered
<1>4. TypeOK'
  <2>1. Len(StepsOf(handler')) <= 2
    BY <1>3 DEF StepsOf
  <2>2. QED BY <1>2, <1>3, <2>1 DEF IInv, TypeOK, Handlers
<1>5. Programmed'
  BY <1>2 DEF IInv, Programmed
<1>6. OffUntilReady'
  BY <1>1, <1>2 DEF IInv, OffUntilReady
<1>7. InService'
  <2>1. StepsOf("PITHandler") # <<>> /\ StepsOf("PS2KeyboardHandler") # <<>>
    BY DEF StepsOf
  <2>2. StepsOf("GenericHandler") = <<>>
    BY DEF StepsOf
  <2>3. QED BY <1>2, <1>3, <2>1, <2>2 DEF IInv, InService
<1>8. ByteIsThere'
  BY <1>2 DEF IInv, ByteIsThere
<1>9. QED BY <1>4, <1>5, <1>6, <1>7, <1>8 DEF IInv

(* The steps of a handler: one line in service until its end of interrupt. *)
LEMMA HandlerIInv == ASSUME IInv, HandlerRuns PROVE IInv'
<1> USE DEF IInv
<1>1. /\ pic1 \in ControllerTypes /\ pic2 \in ControllerTypes /\ main \in Int
      /\ handler \in Handlers /\ ScreenTimer \in 0 .. SwapPeriod - 1
  BY DEF TypeOK
<1>2. ASSUME NEW names, HandlerStep(names)
      PROVE  /\ handler \in {"PITHandler", "PS2KeyboardHandler"}
             /\ UNCHANGED <<main, flag, gates, handler, inta>> /\ ~ inta
             /\ todo \in {StepsOf(handler), <<"eoi1">>}
             /\ Head(todo) \in names /\ todo' = Tail(todo)
             /\ pic1.isr = {IF handler = "PITHandler" THEN 0 ELSE 1}
  BY <1>2 DEF HandlerStep, InService, OffUntilReady
<1>3. /\ StepsOf("PITHandler") = <<"tick", "eoi1">>
      /\ StepsOf("PS2KeyboardHandler") = <<"read", "eoi1">>
  BY DEF StepsOf
<1>4. /\ Head(<<"tick", "eoi1">>) = "tick" /\ Tail(<<"tick", "eoi1">>) = <<"eoi1">>
      /\ Head(<<"read", "eoi1">>) = "read" /\ Tail(<<"read", "eoi1">>) = <<"eoi1">>
      /\ Head(<<"eoi1">>) = "eoi1" /\ Tail(<<"eoi1">>) = <<>>
      /\ <<"eoi1">> # <<>> /\ <<"eoi1">> # <<"tick", "eoi1">>
      /\ <<"eoi1">> # <<"read", "eoi1">>
      /\ <<>> # <<"tick", "eoi1">> /\ <<>> # <<"read", "eoi1">>
      /\ Len(<<"eoi1">>) = 1 /\ Len(<<>>) = 0
  OBVIOUS
<1>5. ASSUME Tick PROVE IInv'
  <2>1. /\ HandlerStep({"tick"}) /\ UNCHANGED <<pic1, pic2, obf>>
        /\ ScreenTimer' = IF ScreenTimer + 1 = SwapPeriod THEN 0 ELSE ScreenTimer + 1
    BY <1>5 DEF Tick
  <2>2. /\ handler = "PITHandler" /\ todo' = <<"eoi1">>
        /\ UNCHANGED <<main, flag, gates, handler, inta>>
    <3>1. /\ handler \in {"PITHandler", "PS2KeyboardHandler"}
          /\ UNCHANGED <<main, flag, gates, handler, inta>>
          /\ todo \in {StepsOf(handler), <<"eoi1">>}
          /\ Head(todo) = "tick" /\ todo' = Tail(todo)
      BY <1>2, <2>1
    <3>2. todo = <<"tick", "eoi1">> /\ handler = "PITHandler"
      BY <1>3, <1>4, <3>1
    <3>3. QED BY <1>4, <3>1, <3>2
  <2>3. ScreenTimer' \in 0 .. SwapPeriod - 1
    BY <1>1, <2>1, DevicesAssumption
  <2>4. TypeOK'
    BY <1>4, <2>1, <2>2, <2>3 DEF TypeOK
  <2>5. Programmed' /\ OffUntilReady'
    BY <2>1, <2>2 DEF Programmed, OffUntilReady
  <2>6. InService'
    BY <1>2, <1>4, <2>1, <2>2 DEF InService
  <2>7. ByteIsThere'
    BY <2>1, <2>2 DEF ByteIsThere
  <2>8. QED BY <2>4, <2>5, <2>6, <2>7
<1>6. ASSUME Read PROVE IInv'
  <2>1. /\ HandlerStep({"read"}) /\ obf' = FALSE /\ pic1' = Fall(pic1, 1)
        /\ UNCHANGED <<pic2, ScreenTimer>>
    BY <1>6 DEF Read
  <2>2. /\ handler = "PS2KeyboardHandler" /\ todo' = <<"eoi1">>
        /\ UNCHANGED <<main, flag, gates, handler, inta>>
    <3>1. /\ handler \in {"PITHandler", "PS2KeyboardHandler"}
          /\ UNCHANGED <<main, flag, gates, handler, inta>>
          /\ todo \in {StepsOf(handler), <<"eoi1">>}
          /\ Head(todo) = "read" /\ todo' = Tail(todo)
      BY <1>2, <2>1
    <3>2. todo = <<"read", "eoi1">> /\ handler = "PS2KeyboardHandler"
      BY <1>3, <1>4, <3>1
    <3>3. QED BY <1>4, <3>1, <3>2
  <2>3. /\ pic1' \in ControllerTypes /\ pic1'.irr = pic1.irr \ {1}
        /\ pic1'.expect = pic1.expect /\ pic1'.base = pic1.base
        /\ pic1'.imr = pic1.imr /\ pic1'.isr = pic1.isr
    BY <1>1, <2>1, AfterLine DEF Lines, ControllerTypes
  <2>4. TypeOK'
    BY <1>4, <2>1, <2>2, <2>3 DEF TypeOK
  <2>5. Programmed' /\ OffUntilReady'
    BY <2>1, <2>2, <2>3 DEF Programmed, OffUntilReady
  <2>6. InService'
    BY <1>2, <1>4, <2>1, <2>2, <2>3 DEF InService
  <2>7. ByteIsThere'
    BY <1>3, <1>4, <2>2, <2>3 DEF ByteIsThere
  <2>8. QED BY <2>4, <2>5, <2>6, <2>7
<1>7. ASSUME SendEOI PROVE IInv'
  <2>1. /\ HandlerStep({"eoi1", "eoi2"}) /\ UNCHANGED <<obf, ScreenTimer>>
        /\ pic1' = IF Head(todo) = "eoi1" THEN WriteCommand(pic1, EOI) ELSE pic1
        /\ pic2' = IF Head(todo) = "eoi2" THEN WriteCommand(pic2, EOI) ELSE pic2
    BY <1>7 DEF SendEOI
  <2>2. /\ Head(todo) = "eoi1" /\ todo' = <<>>
        /\ handler \in {"PITHandler", "PS2KeyboardHandler"}
        /\ UNCHANGED <<main, flag, gates, handler, inta>>
    <3>1. /\ handler \in {"PITHandler", "PS2KeyboardHandler"}
          /\ UNCHANGED <<main, flag, gates, handler, inta>>
          /\ todo \in {StepsOf(handler), <<"eoi1">>}
          /\ Head(todo) \in {"eoi1", "eoi2"} /\ todo' = Tail(todo)
      BY <1>2, <2>1
    <3>2. todo = <<"eoi1">>
      BY <1>3, <1>4, <3>1
    <3>3. QED BY <1>4, <3>1, <3>2
  <2>3. pic1' = WriteCommand(pic1, EOI) /\ pic2' = pic2
    BY <2>1, <2>2
  <2>4. pic1' = [pic1 EXCEPT !.isr = {}]
    <3>1. PICK x \in Lines : pic1.isr = {x}
      BY <1>2, <2>1 DEF Lines
    <3>2. QED BY <1>1, <2>3, <3>1, AfterEOI
  <2>5. /\ pic1' \in ControllerTypes /\ pic1'.irr = pic1.irr
        /\ pic1'.expect = pic1.expect /\ pic1'.base = pic1.base
        /\ pic1'.imr = pic1.imr /\ pic1'.isr = {}
    BY <1>1, <2>4 DEF ControllerTypes
  <2>6. TypeOK'
    BY <1>4, <2>1, <2>2, <2>3, <2>5 DEF TypeOK
  <2>7. Programmed' /\ OffUntilReady'
    BY <2>2, <2>3, <2>5 DEF Programmed, OffUntilReady
  <2>8. InService'
    BY <2>2, <2>3, <2>5 DEF InService
  <2>9. ByteIsThere'
    BY <1>3, <1>4, <2>1, <2>2, <2>5 DEF ByteIsThere
  <2>10. QED BY <2>6, <2>7, <2>8, <2>9
<1>8. ASSUME Return PROVE IInv'
  <2>1. /\ handler # "none" /\ todo = <<>> /\ handler' = "none" /\ flag' = TRUE
        /\ UNCHANGED <<main, pic1, pic2, gates, todo, inta, obf, ScreenTimer>>
    BY <1>8 DEF Return, devices
  <2>2. TypeOK'
    BY <2>1 DEF TypeOK, Handlers
  <2>3. Programmed' /\ OffUntilReady'
    BY <2>1 DEF Programmed, OffUntilReady
  <2>4. InService' /\ ByteIsThere'
    BY <2>1 DEF InService, ByteIsThere
  <2>5. QED BY <2>2, <2>3, <2>4
<1>9. QED BY <1>5, <1>6, <1>7, <1>8 DEF HandlerRuns

(* The devices raise and drop their lines at any moment. *)
LEMMA DevicesIInv ==
    ASSUME IInv,
           \/ TimerRises \/ TimerFalls \/ KeyArrives
           \/ \E d \in Devices : DeviceAsks(d)
    PROVE  IInv'
<1> USE DEF IInv
<1>1. /\ pic1 \in ControllerTypes /\ pic2 \in ControllerTypes
      /\ 0 \in Lines /\ 1 \in Lines
  BY DEF TypeOK, Lines
<1>2. ASSUME Elsewhere,
             pic1' \in ControllerTypes, pic2' \in ControllerTypes,
             pic1' = [pic1 EXCEPT !.irr = pic1'.irr],
             pic2' = [pic2 EXCEPT !.irr = pic2'.irr],
             obf => obf', 1 \in pic1'.irr => obf' \/ 1 \in pic1.irr
      PROVE  IInv'
  <2>1. UNCHANGED <<main, flag, gates, handler, todo, inta, ScreenTimer>>
    BY <1>2 DEF Elsewhere
  <2>2. /\ pic1'.expect = pic1.expect /\ pic1'.base = pic1.base
        /\ pic1'.imr = pic1.imr /\ pic1'.isr = pic1.isr
        /\ pic2'.expect = pic2.expect /\ pic2'.base = pic2.base
        /\ pic2'.imr = pic2.imr /\ pic2'.isr = pic2.isr
    BY <1>1, <1>2 DEF ControllerTypes
  <2>3. TypeOK'
    BY <1>2, <2>1 DEF TypeOK
  <2>4. Programmed' /\ OffUntilReady'
    BY <2>1, <2>2 DEF Programmed, OffUntilReady
  <2>5. InService'
    BY <2>1, <2>2 DEF InService
  <2>6. ByteIsThere'
    BY <1>2, <2>1 DEF ByteIsThere
  <2>7. QED BY <2>3, <2>4, <2>5, <2>6
<1>3. pic1 = [pic1 EXCEPT !.irr = pic1.irr] /\ pic2 = [pic2 EXCEPT !.irr = pic2.irr]
  BY <1>1 DEF ControllerTypes
<1>4. ASSUME NEW p \in ControllerTypes, NEW x \in Lines, NEW q,
             q \in {Rise(p, x), Fall(p, x)}
      PROVE  /\ q \in ControllerTypes /\ q = [p EXCEPT !.irr = q.irr]
             /\ q.irr \subseteq p.irr \cup {x}
  BY <1>4, AfterLine DEF ControllerTypes
<1>5. ASSUME TimerRises \/ TimerFalls PROVE IInv'
  <2>1. /\ pic1' \in {Rise(pic1, 0), Fall(pic1, 0)} /\ pic2' = pic2 /\ obf' = obf
        /\ Elsewhere
    BY <1>5 DEF TimerRises, TimerFalls
  <2>2. /\ pic1' \in ControllerTypes /\ pic1' = [pic1 EXCEPT !.irr = pic1'.irr]
        /\ pic1'.irr \subseteq pic1.irr \cup {0}
    BY <1>1, <1>4, <2>1
  <2>3. 1 \in pic1'.irr => 1 \in pic1.irr
    BY <2>2
  <2>4. QED BY <1>1, <1>2, <1>3, <2>1, <2>2, <2>3
<1>6. ASSUME KeyArrives PROVE IInv'
  <2>1. /\ pic1' = Rise(pic1, 1) /\ pic2' = pic2 /\ obf' = TRUE /\ Elsewhere
    BY <1>6 DEF KeyArrives
  <2>2. pic1' \in ControllerTypes /\ pic1' = [pic1 EXCEPT !.irr = pic1'.irr]
    BY <1>1, <1>4, <2>1
  <2>3. QED BY <1>1, <1>2, <1>3, <2>1, <2>2
<1>7. ASSUME NEW d \in Devices, DeviceAsks(d) PROVE IInv'
  <2>1. /\ pic2' = Rise(pic2, d) /\ pic1' = pic1 /\ obf' = obf /\ Elsewhere
        /\ d \in Lines
    BY <1>7, DevicesAssumption DEF DeviceAsks
  <2>2. pic2' \in ControllerTypes /\ pic2' = [pic2 EXCEPT !.irr = pic2'.irr]
    BY <1>1, <1>4, <2>1
  <2>3. QED BY <1>1, <1>2, <1>3, <2>1, <2>2
<1>8. QED BY <1>5, <1>6, <1>7

(* Every step of the machine keeps the invariant. *)
LEMMA NextIInv == IInv /\ [Next]_vars => IInv'
<1> SUFFICES ASSUME IInv, [Next]_vars PROVE IInv'
  OBVIOUS
<1>1. CASE StartupStep
  BY <1>1, SwitchesIInv, OutIInv DEF StartupStep
<1>2. CASE UNCHANGED vars
  <2>1. UNCHANGED <<main, flag, pic1, pic2, gates, handler, todo, inta, obf, ScreenTimer>>
    BY <1>2 DEF vars, devices
  <2>2. TypeOK' /\ Programmed'
    BY <2>1 DEF IInv, TypeOK, Programmed
  <2>3. OffUntilReady' /\ InService' /\ ByteIsThere'
    BY <2>1 DEF IInv, OffUntilReady, InService, ByteIsThere
  <2>4. QED BY <2>2, <2>3 DEF IInv
<1>3. QED
  BY <1>1, <1>2, AcceptIInv, DeliverIInv, HandlerIInv, DevicesIInv DEF Next

-----------------------------------------------------------------------------
(* The theorems. *)

(* The types, and that a handler of interrupts.c never runs with           *)
(* interrupts on.                                                          *)
THEOREM TypeCorrect == Spec => []TypeOK
<1>1. IInv => TypeOK
  BY DEF IInv
<1>2. QED BY <1>1, InitIInv, NextIInv, PTL DEF Spec

(* Whatever the timer, the keyboard and the devices do, the main line      *)
(* never runs with a line left in service (the ends of interrupt of        *)
(* PITHandler and PS2KeyboardHandler, and the spurious vector).            *)
THEOREM EveryInterruptEnds == Spec => []NothingLeftInService
<1>1. IInv => NothingLeftInService
  BY DEF IInv, InService, NothingLeftInService, InMain
<1>2. QED BY <1>1, InitIInv, NextIInv, PTL DEF Spec

(* PS2KeyboardHandler reads port 0x60 only when a byte is there. *)
THEOREM FreshReads == Spec => []EveryReadIsFresh
<1>1. IInv => EveryReadIsFresh
  <2> SUFFICES ASSUME IInv, todo # <<>>, Head(todo) = "read" PROVE obf
    BY DEF EveryReadIsFresh
  <2>1. /\ handler \in {"PITHandler", "PS2KeyboardHandler"}
        /\ todo \in {StepsOf(handler), <<"eoi1">>}
    BY DEF IInv, InService
  <2>2. StepsOf("PITHandler") = <<"tick", "eoi1">>
    BY DEF StepsOf
  <2>3. Head(<<"tick", "eoi1">>) = "tick" /\ Head(<<"eoi1">>) = "eoi1"
    OBVIOUS
  <2>4. handler = "PS2KeyboardHandler" /\ todo = StepsOf(handler)
    BY <2>1, <2>2, <2>3
  <2>5. QED BY <2>4 DEF IInv, ByteIsThere
<1>2. QED BY <1>1, InitIInv, NextIInv, PTL DEF Spec

(* No interrupt finds a wrong or an empty gate: KiStartupProcessor-        *)
(* MachineDependent remaps, masks and fills the IDT before the first sti.  *)
THEOREM RightGates == Spec => NoWrongGate
<1> DEFINE A == inta /\ ~ inta' =>
                  handler' \in {"PITHandler", "PS2KeyboardHandler",
                                "GenericHandlerPIC2", "GenericHandler"}
<1>1. IInv /\ [Next]_vars => [A]_vars
  <2> SUFFICES ASSUME IInv, Next, inta, ~ inta' PROVE A
    BY DEF vars
  <2>1. Deliver
    BY DEF Next, StartupStep, KiRestoreInterrupts, x86SetupIDTEntries, OutCommand,
           OutData, OutPort, Step, InMain, Accept, HandlerRuns, Tick, Read, SendEOI,
           Return, HandlerStep, TimerRises, TimerFalls, KeyArrives, DeviceAsks, Elsewhere
  <2>2. QED BY <2>1, Delivered
<1>2. QED BY <1>1, InitIInv, NextIInv, PTL DEF Spec, NoWrongGate
=============================================================================
