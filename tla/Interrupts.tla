----------------------------- MODULE Interrupts -----------------------------
(***************************************************************************)
(* Interrupts from power-on to a running kernel: KiStartupProcessor-       *)
(* MachineDependent programs the two interrupt controllers and the IDT     *)
(* while the timer, the keyboard controller and the devices on the second  *)
(* interrupt controller raise their lines at any moment; the processor     *)
(* then runs the handlers of interrupts.c with interrupts off.             *)
(***************************************************************************)
EXTENDS Pic8259, Sequences

CONSTANTS
    SwapPeriod,     \* timer ticks between two VgaSwapBuffers (16)
    Devices         \* lines of the second controller that have a device

ASSUME DevicesAssumption == SwapPeriod \in Nat \ {0} /\ Devices \subseteq Lines

VARIABLES
    main,         \* the next step of Startup; Len(Startup) + 1 when it is over
    flag,         \* the processor's interrupt flag
    pic1, pic2,   \* the controllers
    gates,        \* the IDT: vector |-> handler, "none" for a zero descriptor
    handler,      \* the handler that runs, or "none"
    todo,         \* the steps it has left
    inta,         \* the processor has accepted a request, the vector is to come
    timer,        \* the timer's line is high
    obf,          \* the keyboard controller holds a byte: its line is high
    asking,       \* devices of the second controller whose line is high
    ScreenTimer   \* as in interrupts.c

devices == <<timer, obf, asking>>
vars == <<main, flag, pic1, pic2, gates, handler, todo, inta, devices, ScreenTimer>>

Vectors == 0 .. 255
Handlers == {"none", "DivideByZero", "GenericHandler", "GenericHandlerPIC2",
             "DoubleFaultHandler", "PageFaultHandler", "PITHandler",
             "PS2KeyboardHandler"}

-----------------------------------------------------------------------------
(* The start-up: KiStartupProcessorMachineDependent and x86InitializeIDT,  *)
(* the steps that matter to interrupts.                                    *)

Op(name) == [op |-> name, pic |-> 0, value |-> 0]
Command(pic, value) == [op |-> "command", pic |-> pic, value |-> value]
Data(pic, value) == [op |-> "data", pic |-> pic, value |-> value]

Words(command, mask1, mask2) ==
    << Command(1, command), Command(2, command),
       Data(1, 32), Data(2, 40),             \* the remap
       Data(1, 4), Data(2, 2),               \* the cascade
       Data(1, 1), Data(2, 1),               \* the environment
       Data(1, 1), Data(2, 1),               \* taken as masks
       Data(1, mask1), Data(2, mask2) >>

MutStartupEarly ==
    <<Op("cli"), Op("gates"), Op("sti")>> \o Words(ICW1, 252, 128) \o <<Op("sti")>>
Startup ==
    <<Op("cli")>> \o Words(ICW1, 252, 128) \o <<Op("gates"), Op("sti"), Op("sti")>>

(* x86SetupIDTEntries: what the gate of a vector is after all its loops.   *)
MutGateOf(v) == IF v \in 33 .. 39 THEN "PS2KeyboardHandler" ELSE
                IF v = 32 THEN "PITHandler" ELSE "GenericHandler"
GateOf(v) ==
    IF v = 0           THEN "DivideByZero" ELSE
    IF v = 8           THEN "DoubleFaultHandler" ELSE
    IF v = 14          THEN "PageFaultHandler" ELSE
    IF v = 32          THEN "PITHandler" ELSE
    IF v \in {33, 44}  THEN "PS2KeyboardHandler" ELSE
    IF v \in 40 .. 47  THEN "GenericHandlerPIC2" ELSE
    IF v \in 1 .. 254  THEN "GenericHandler" ELSE "none"

(* The firmware hands over with interrupts off; its keyboard and timer     *)
(* requests are served.                                                    *)
Init ==
    /\ main = 1
    /\ flag = FALSE
    /\ pic1 = FirmwarePic(8) /\ pic2 = FirmwarePic(112)
    /\ gates = [v \in Vectors |-> "none"]
    /\ handler = "none" /\ todo = <<>> /\ inta = FALSE
    /\ timer = FALSE /\ obf = FALSE /\ asking = {}
    /\ ScreenTimer = 0

(* The processor executes the main line: no handler, no vector on its way. *)
InMain == handler = "none" /\ ~ inta

Step(name) ==
    /\ InMain
    /\ main <= Len(Startup)
    /\ Startup[main].op = name
    /\ main' = main + 1
    /\ UNCHANGED <<handler, todo, inta, devices, ScreenTimer>>

KiRestoreInterrupts(value) ==
    /\ Step(IF value THEN "sti" ELSE "cli")
    /\ flag' = value
    /\ UNCHANGED <<pic1, pic2, gates>>

x86SetupIDTEntries ==
    /\ Step("gates")
    /\ gates' = [v \in Vectors |-> GateOf(v)]
    /\ UNCHANGED <<flag, pic1, pic2>>

(* x86outb to a port of controller n, whose state is p. *)
Out(n, p) ==
    IF Startup[main].pic # n THEN p
    ELSE IF Startup[main].op = "command" THEN WriteCommand(p, Startup[main].value)
                                         ELSE WriteData(p, Startup[main].value)

OutPort(name) ==
    /\ Step(name)
    /\ pic1' = Out(1, pic1)
    /\ pic2' = Out(2, pic2)
    /\ UNCHANGED <<flag, gates>>

OutCommand == OutPort("command")
OutData == OutPort("data")

StartupStep == \/ \E value \in BOOLEAN : KiRestoreInterrupts(value)
               \/ x86SetupIDTEntries
               \/ OutCommand
               \/ OutData

-----------------------------------------------------------------------------
(* The processor takes an interrupt. *)

(* The second controller is wired to line 2 of the first. *)
Cascade == IF Requests(pic2, {}) # {} THEN {2} ELSE {}

Accept ==
    /\ InMain
    /\ flag
    /\ Requests(pic1, Cascade) # {}
    /\ inta' = TRUE
    /\ UNCHANGED <<main, flag, pic1, pic2, gates, handler, todo, devices, ScreenTimer>>

MutStepsOf(h) ==
    IF h = "PITHandler"         THEN <<"tick">> ELSE
    IF h = "PS2KeyboardHandler" THEN <<"read", "eoi1">> ELSE
    IF h = "GenericHandlerPIC2" THEN <<"eoi2", "eoi1">> ELSE <<>>
(* What each handler does to the hardware; what it prints is left out. *)
StepsOf(h) ==
    IF h = "PITHandler"         THEN <<"tick", "eoi1">> ELSE
    IF h = "PS2KeyboardHandler" THEN <<"read", "eoi1">> ELSE
    IF h = "GenericHandlerPIC2" THEN <<"eoi2", "eoi1">> ELSE <<>>

Enter(v) == /\ handler' = gates[v]
            /\ todo' = StepsOf(gates[v])

(* The controllers give the vector; an interrupt gate clears the flag. *)
Deliver ==
    /\ inta
    /\ inta' = FALSE
    /\ flag' = FALSE
    /\ pic1' = Acknowledge(pic1, Cascade)
    /\ pic2' = IF AckLine(pic1, Cascade) = 2 THEN Acknowledge(pic2, {}) ELSE pic2
    /\ Enter(IF AckLine(pic1, Cascade) = 2 THEN pic2.base + AckLine(pic2, {})
                                           ELSE pic1.base + AckLine(pic1, Cascade))
    /\ UNCHANGED <<main, gates, devices, ScreenTimer>>

-----------------------------------------------------------------------------
(* The handlers. *)

HandlerStep(names) ==
    /\ handler # "none"
    /\ todo # <<>> /\ Head(todo) \in names
    /\ todo' = Tail(todo)
    /\ UNCHANGED <<main, flag, gates, handler, inta, timer, asking>>

MutTick == /\ HandlerStep({"tick"})
           /\ ScreenTimer' = IF ScreenTimer = SwapPeriod THEN 0 ELSE ScreenTimer + 1
           /\ UNCHANGED <<pic1, pic2, obf>>
(* VgaSwapBuffers copies the frame buffer onto itself. *)
Tick == /\ HandlerStep({"tick"})
        /\ ScreenTimer' = IF ScreenTimer + 1 = SwapPeriod THEN 0 ELSE ScreenTimer + 1
        /\ UNCHANGED <<pic1, pic2, obf>>

(* x86inb(0x60) empties the keyboard controller, whose line falls. *)
Read == /\ HandlerStep({"read"})
        /\ obf' = FALSE
        /\ pic1' = Fall(pic1, 1)
        /\ UNCHANGED <<pic2, ScreenTimer>>

(* x86PICSendEOIPIC1, or one of the two writes of x86PICSendEOIPIC2. *)
SendEOI == /\ HandlerStep({"eoi1", "eoi2"})
           /\ pic1' = IF Head(todo) = "eoi1" THEN WriteCommand(pic1, EOI) ELSE pic1
           /\ pic2' = IF Head(todo) = "eoi2" THEN WriteCommand(pic2, EOI) ELSE pic2
           /\ UNCHANGED <<obf, ScreenTimer>>

(* The end of an INTERRUPT function restores the flag. *)
Return == /\ handler # "none"
          /\ todo = <<>>
          /\ handler' = "none"
          /\ flag' = TRUE
          /\ UNCHANGED <<main, pic1, pic2, gates, todo, inta, devices, ScreenTimer>>

HandlerRuns == Tick \/ Read \/ SendEOI \/ Return

-----------------------------------------------------------------------------
(* The devices. *)

Elsewhere == UNCHANGED <<main, flag, gates, handler, todo, inta, ScreenTimer>>

TimerRises == /\ ~ timer
              /\ timer' = TRUE
              /\ pic1' = Rise(pic1, 0)
              /\ UNCHANGED <<pic2, obf, asking>> /\ Elsewhere

(* The timer's line follows its square wave whether or not it was served. *)
TimerFalls == /\ timer
              /\ timer' = FALSE
              /\ pic1' = Fall(pic1, 0)
              /\ UNCHANGED <<pic2, obf, asking>> /\ Elsewhere

(* A key is pressed or released.  Keys, and the devices of the second      *)
(* controller, are quiet until the controllers are told to initialize: a   *)
(* line already high then makes no edge, and nothing in the code empties   *)
(* the keyboard controller.                                                *)
KeyArrives == /\ ~ obf
              /\ main > 3
              /\ obf' = TRUE
              /\ pic1' = Rise(pic1, 1)
              /\ UNCHANGED <<pic2, timer, asking>> /\ Elsewhere

DeviceAsks(d) == /\ d \notin asking
                 /\ main > 3
                 /\ asking' = asking \cup {d}
                 /\ pic2' = Rise(pic2, d)
                 /\ UNCHANGED <<pic1, timer, obf>> /\ Elsewhere

Next == \/ StartupStep
        \/ Accept \/ Deliver
        \/ HandlerRuns
        \/ TimerRises \/ TimerFalls \/ KeyArrives
        \/ \E d \in Devices : DeviceAsks(d)

(* The processor goes on, through handlers and, however often the timer    *)
(* interrupts, through the main line.  The timer, at 278 ticks a second,   *)
(* leaves room: again and again the main line runs with no tick pending,   *)
(* and a request below the timer's that keeps having its turn is taken.    *)
BelowTimer == AckLine(pic1, Cascade) # 0
TimerLeavesRoom == []<>(InMain /\ 0 \notin pic1.irr)
Fairness == /\ WF_vars(Deliver)
            /\ WF_vars(HandlerRuns)
            /\ SF_vars(StartupStep)
            /\ SF_vars(Accept /\ BelowTimer)
            /\ SF_vars(Deliver /\ BelowTimer)
            /\ TimerLeavesRoom

Spec == Init /\ [][Next]_vars /\ Fairness

-----------------------------------------------------------------------------
(* Properties *)

Started == main > Len(Startup)
ControllerTypes == [expect : {0, 2, 3, 4}, base : Vectors,
                    imr : SUBSET Lines, irr : SUBSET Lines, isr : SUBSET Lines]

(* Types; in particular a handler runs only with interrupts off. *)
TypeOK ==
    /\ main \in 1 .. Len(Startup) + 1
    /\ flag \in BOOLEAN
    /\ pic1 \in ControllerTypes /\ pic2 \in ControllerTypes
    /\ \A v \in Vectors : gates[v] \in Handlers
    /\ handler \in Handlers
    /\ handler # "none" => ~ flag
    /\ Len(todo) <= 2
    /\ ScreenTimer \in 0 .. SwapPeriod - 1

(* Whenever the main line runs, every interrupt taken has been ended: no   *)
(* line stays in service and blocks the lines below it, spurious and       *)
(* unexpected interrupts included.                                         *)
NothingLeftInService == InMain => pic1.isr = {} /\ pic2.isr = {}

(* No interrupt finds an exception's handler or an empty gate: the         *)
(* controllers are remapped and the IDT is filled before interrupts are on. *)
NoWrongGate ==
    [][inta /\ ~ inta' =>
         handler' \in {"PITHandler", "PS2KeyboardHandler", "GenericHandlerPIC2",
                       "GenericHandler"}]_vars

(* The keyboard handler never reads port 0x60 without a new byte there: no *)
(* key is typed twice.                                                     *)
EveryReadIsFresh == todo # <<>> /\ Head(todo) = "read" => obf

(* Every byte of the keyboard is read, whatever the timer does. *)
KeysAreRead == obf ~> ~ obf
=============================================================================
