# Feral: a verification project

Feral is a small x86_64 kernel written in C (`src/`). It is entered from multiboot2
(`src/kern/entry/mb2entry.c`) or by its own UEFI loader (`src/bootloader`), sets up a
physical memory manager, page tables, a text console, the interrupt controllers, a
PS/2 keyboard and a serial port, shows a debugger prompt on that port, and then idles
while the keyboard echoes what is typed. This directory holds TLA+ models of its
parts, the TLC runs that check them on small instances, and TLAPS proofs of the main
results for every value of the constants.

Contents: [inventory](#inventory), [modules](#modules-and-their-correspondence-to-the-code),
[runs](#runs), [bounds](#bounds-and-why-they-are-enough), [fairness](#fairness),
[proofs](#proofs), [findings and observations](#findings-and-observations),
[limits](#modelling-decisions-and-limits), [not modelled](#not-modelled), [plan](#plan).

## Inventory

| Component | State | Operations | Correct means |
|---|---|---|---|
| Physical memory manager (`kern/mm/mmsetup.c`) | `MmState`: bitmap, `MaxPAddr`, `pAllocInfo` | `KiInitializeMemMgr`, `MmLookupPhysFrame`, `MmAllocatePhysFrame`, `MmLookupFreePhysFrame` | the bitmap is a set of frames; reserved frames are never handed out; a search never invents a frame |
| Kernel heap (`kern/mm/heap.c`) | arena header, list of nodes, `NextToAllocate` | `MmCreateAllocatorState`, `MmKernelMalloc` | the list stays linked; what is built on a block does not destroy what is in use |
| Paging (`kern/arch/x86_64/mm/paging.c`) | page tables, TLB | map, unmap, validate, `MmKernelAllocPages` | the kernel's half stays mapped; what is in use is mapped; a failed allocation leaves nothing behind |
| VGA text console (`kern/arch/x86_64/vga/vga_driver.c`) | `CurVgaContext`, frame buffer, CRT controller registers | `VgaPutChar`, `VgaPrintln`, `VgaAutoPrint`, `VgaMoveCursor`, scrolling, backspace | the screen shows the text; nothing is stored off screen; the cursor follows |
| Interrupt controllers, IDT, handlers (`archstart.c`, `interrupts.c`) | the two 8259A, the IDT, the interrupt flag, `ScreenTimer` | start-up sequence, gates, handlers, end of interrupt | every interrupt finds its handler and is ended; none is lost for good |
| PS/2 keyboard (`interrupts.c`, `charmap.inl`) | `KeyboardContext` | `PS2KeyboardHandler`, `CheckStatusCode`, conversion | modifiers follow the keys |
| System start-up (`boot/init.asm`, `init64.asm`, `kern/kernel_main.c`, `archstart.c`) | mode of the processor, GDT, IDT, low or high address of all that is in use | `_start`, `_start64`, `KiSystemStartup`, `KiStartupProcessorMachineDependent` | nothing in use is lost when low memory goes; interrupts find a code segment; the prompt is reached |
| Multiboot entry (`kern/entry/mb2entry.c`) | parsed tags, memory map | `kern_init`, `HandleMemory` | the memory map handed on is the machine's |
| UEFI loader (`bootloader/boot.c`) | firmware memory map and its key, loaded segments, ranges | displays, ELF loading, `GetMemoryMap`, hand-over | the image is in its place, the map is whole, boot services are ended |
| Library (`kernel_binfuncs.c`, `kernel_memfuncs.c`, `kernel_printfuncs.c`, `kernel_stringfuncs.c`) | loop indexes | `KiItoa*`, `KiLog2*`, memory functions, `KiPrintFmt` | agree with their reference definitions, and return |
| Serial driver, kernel shell (`drivers/serial`) | UART registers, prompt | `InitSerialDevice`, `SerialSend`, `SerialRecv`, `SerialDoKShellPrompt` | the line is configured when the prompt is sent; the prompt returns |
| Security checks, stop errors (`sec/`) | none | `CheckSecurityClearance`, `KiStopError` | clearance is an order; a stop never returns |
| aarch64 port, driver kit | none modelled | stubs | - |

**Interactions.** `kern_init` prepares the console and the memory ranges and calls
`KiSystemStartup`, which starts the processor (controllers, IDT, `sti`) and the
memory manager. The memory manager places the heap right behind its bitmap. The
keyboard interrupt calls the console functions that the interrupted main line
may be in the middle of: `CurVgaContext` and the CRT controller's index
register are shared and no lock protects them. The handlers run with the flag off
(interrupt gates), so a handler is never interrupted itself.

The page tables are built by the assembly code, changed by `x86UnmapAddress` at the
end of start-up and by drivers later; new tables come from the heap. The loader and the
kernel share nothing but the environment block.

**What is hard.** The interleaving of handler and main line inside the console
driver; the order of the start-up writes against interrupts that may arrive at any
moment, spurious ones included; the arithmetic of the bitmap at the end of memory
and when memory is full; the modifier keys in any order; a pointer that outlives
what it points to; the move of code, stack and descriptor tables to high addresses
before low memory is unmapped, which the TLB hides for a while; two calls that must
not have an allocation between them; hardware registers that share a port.
`PROJECT.json` lists each of these hazards at its line with the
properties that watch it.

## Modules and their correspondence to the code

`PROJECT.json`, "map", gives the source lines of each definition. Names are
those of the source wherever TLA+ allows.

| Module | Models | Composes |
|---|---|---|
| `FrameSet` | abstract specification: a set of used frames | |
| `PhysFrames` | `mmsetup.c` and the byte of the heap's header that overlaps the bitmap | implements `FrameSet` |
| `PhysFramesProofs` | proofs about `PhysFrames` | |
| `Terminal` | abstract specification: rows of text and a current row | |
| `Vga` | the functions of `vga_driver.c`, and `InternalVgaBackspace`, on a context record | |
| `VgaConsole` | the console's life, one action per call, uninterrupted | `Vga`; implements `Terminal` |
| `ConsoleIrq` | the same driver, one action per access to shared state, with the keyboard handler in between | `Vga` |
| `Pic8259` | the 8259A (external: modelled from what the kernel writes to it) | |
| `Interrupts` | start-up, gates, delivery, handlers, devices | `Pic8259` |
| `VgaConsoleProofs`, `InterruptsProofs`, `ConsoleIrqProofs`, `MultibootProofs`, `StartupProofs`, `LoaderProofs` | proofs about the modules of these names | |
| `Keyboard`, `KeyboardProofs` | the modifier and conversion logic of the handler, and its proofs | |
| `Multiboot` | the tag loop of `kern_init`, `HandleMemory`, the range table of `KiStartupSystem` | hands its ranges to `PhysFrames` |
| `Heap` | `heap.c`: the list of nodes of the arena, as operators | |
| `Paging` | `paging.c`, the tables of `init64.asm`, the TLB | `Heap` |
| `Serial` | `serial.c`, `kshell.c`, the UART (external) | |
| `Startup` | both entry points, `KiSystemStartup`, `KiStartupProcessorMachineDependent`, and paging calls of drivers | `Paging`, `Serial` |
| `Loader` | `boot.c`, with the firmware's allocator and map (external) | |
| `KernelLib` | the library, the loader's helpers, `CheckSecurityClearance` | |
| `MC*` | constants for TLC | |

**PhysFrames.** A byte of the bitmap is the set of its 1 bits;
`BitmaskUsedFrames` has the bytes `0 .. BufferSize`, all that an accepted address
can select. The last byte is the first one *behind* the bitmap: `BufferSize`
rounds down and the bounds test is `>`. That byte is also the low byte of the
heap's header, so its content after boot is what the code puts there: cleared or
stale (`KiSetMemoryBytes` clears four bytes at a time), marked by the kernel loop,
then overwritten by `MmCreateAllocatorState`. `KiInitializeMemMgr` is one
action: both marking loops, the heap's creation between them, and `KiStopError`
(`phase = "stopped"`) when a loop's call fails. The three calls read the frame size
through `MmState.pAllocInfo`; `FrameSizesRead` is the set of values that read may
yield. The code passes the address of a local variable of a function that
returns, so anything may be read, zero included (`DivideByZero`); `read` is what the last
call read. `released` is a history variable: the frames whose bit a call selected and
cleared. `FrameSet` keeps the promise of the comments, that a search in a full memory
fails; what the code does there is `OffersPastMemory`, the one exception of the
refinement.

**Vga, VgaConsole.** The context record holds `CurVgaContext`'s position and flags,
the letters of the frame buffer and the three CRT registers the driver uses. The
operators follow the functions, with the calls they make: `internalVgaPushUp` moves
the cursor, which stores a NUL and sets `CurrentCol`. `VgaConsole` restricts the
boot messages printed by `VgaAutoPrint` to those `kern_init` prints (short, above
the bottom row). The refinement mapping takes a row's text to be its cells without
the NULs at its end.

**ConsoleIrq.** One step per load, store or port write of the main line (the labels
are listed at the top of the module). Increments are a load and a store. The
handler is one step, made of `Vga`'s operators. `expected` records what
the last call would do undisturbed.

**Interrupts.** `Startup` is the sequence of port writes, IDT set-up and flag
changes of `KiStartupProcessorMachineDependent` and `x86InitializeIDT`, including
the extra pair of data writes that land in the mask registers. Between acceptance
(`Accept`) and the vector (`Deliver`) a line may fall: the controller then
answers with its spurious line 7. Handlers run step by step.

**Keyboard.** `Press`, `Repeat` and `Release` produce the scan codes a keyboard
can produce; each is handled whole. `held` is the set of keys that are down, `oneUp` says
that one of two held shift keys has been released since.

**Multiboot.** Memory is modelled as words with a low and a high half, because the
boot loader may have left its information in the very words that `HandleMemory`
writes: the range table goes to `kern_end + 4096`, and the multiboot2
specification lets the information be anywhere outside the kernel. A 4-byte field
(`Usage`) changes only the low half of its word, and a tag's header is one word
(type low, size high), so what the loop reads after `HandleMemory` depends on
which word of a range hit it. A tag of the constant `Infos` carries the offset where it
begins, as the boot loader laid it out. `HandleTag`, `BeginHandleMemory`, `HandleEntry`
(one per round), `EndHandleMemory` and `EndTags` are the loop; `DivideError` is the division of
`HandleMemory` on a tag that is no longer one, before the kernel has gates. `maps` counts the
calls of `HandleMemory`; `CopyRange` and
`KiInitializeMemMgr` the memory subsystem's start.

**Heap, Paging.** An entry of a table is what it points to. The heap's nodes are
modelled as they are, and `TheOneBlock`, part of `TypeOK`, checks the abstraction the
rest of `Paging` uses: `NextToAllocate` never moves and `InternalInitializeNode` puts
a node's area one byte behind its predecessor's, so every call returns the same odd
address. The kernel fills a new table through that address ("area") and stores the
page-aligned one above it ("page"), so the processor and later walks read the same
bytes at other slots. `Map` follows `x86MapAddress` level by level; `InUse` gives all
answers `x86ValidateVirtualAddress` can give, since it takes its last table from the
wrong level. An access the processor cannot make is status "fault"; a page fault
stops the kernel.

**Serial.** `InitSerialDevice` is a list of port writes, made one at a time; the UART
interprets a write by the state of its divisor latch. The prompt sends its
characters, then polls.

**Startup.** `ptr` records for each thing in use whether it is reached through a low
or a high address. One action per block of assembly code or per call of
`KiSystemStartup`. The TLB may evict translations of low memory at any time
(`Evict`), so nothing holds because the TLB happens to remember. What `kern_init` and
`KiInitializeMemMgr` do inside is in `Multiboot` and `PhysFrames`, the controllers are
in `Interrupts`. From `UnmapLowMemory` to the prompt, drivers may make paging calls;
the repository declares `KiLoadAllDrivers` and does not call it, so these calls stand for
its intended clients. They may name any address: unmapping one below the kernel's own
entry of the top table ends in the state "lost".

**Loader.** One action per part of `uefi_main` between two firmware calls that can
change the memory map, and per round of the loop over program headers. The firmware
gives out any page that suits; every file or display call may fail. `ignored` collects
failures the loader does not act on, so that a property can say what it depends on.
`Index` has fewer values (`IndexRange`) than e_phoff, as in the code, and wraps. `PHdrSize`
is the in-out size of the reads: at the end of the file it becomes 0 and nothing is read
afterwards. The descriptors lie `DescriptorSize` apart, which the firmware chooses, and are
read `SizeOf` apart (`IsRead`, `FallsBetween`). `BlankScreen` is the empty loop over the rows of a screen that
may not have been set up.

**KernelLib.** The loops over memory and over a format are actions, one per round,
with the width of their counters; conversions are operators compared with the usual
meaning of their result. Characters are codes. Memory calls may get NULL, formats may end
inside a directive (`Tails`), and what is printed behind a format's terminator is any of
the bytes there (`PrintBeyond`).

## Runs

| Run | Result | What it asks |
|---|---|---|
| `frames` | pass | with three frame sizes read: `ImplementsFrameSet`: for seven memory maps, every call that reads the true one is a call on a set, but for a search in a full memory. `KernelStaysReserved`: no bit of the kernel's frames is cleared or found clear unless a call selected it. |
| `console` | pass | `ImplementsTerminal`, `CursorFollows`: wrapping, scrolling, erasing and the hardware cursor. |
| `console_irq` | pass | with letters and Enter typed at any access: `WritesStayOnScreen`, `PositionRecovers`, `QuietCallsAreAtomic`, `CallsReturn`. |
| `console_irq_erase` | violation | `WritesStayOnScreen` with the backspace key. |
| `interrupts` | pass | `NoWrongGate`, `NothingLeftInService`, `EveryReadIsFresh`, `KeysAreRead` through start-up and after. |
| `keyboard` | pass | `NoShiftLeftOver`, `CapitalsAreRight` for every order of presses, repeats and releases, two shift keys held included. |
| `multiboot` | pass | `RangesRecorded`, `HandedOver`: with the information below the tables or anywhere from `kernel_end` on, the machine's ranges reach the memory manager even though their source is overwritten on the way; `EveryTagHandled`, `StartsUp`: with the information apart from the first table, every tag is handled and the kernel starts. |
| `startup` | pass | from either entry point to the prompt, with paging calls and evictions in between: `InUseIsMapped`, `KernelHalfStaysMapped`, `InterruptsFindTheirWay`, `PromptReachesTheLine`, `GetsToThePrompt`, `PromptReturns`. |
| `alloc_pages` | violation | `AllOrNothing`: a request for one page stores a new table in the top table, gives the heap's one block to the next two levels, finds the entry of one as an entry of the other, fails, and leaves the top table changed. |
| `loader` | pass | `ImageIsLoaded`, `MapIsWhole`, `AlwaysEnds` with failing files, files that go on behind their headers, and too little memory below 2 MiB. |
| `exit_boot_services` | violation | `BootServicesEnded`: the kernel is entered with the boot services active. |
| `library` | pass | `MemoryCallsExact`, `NumbersReadBack`, `HelpersAreExact`, `FormatsExpand`, `CallsReturn`. |

Each property of a passing run has a mutant in `PROJECT.json`: a plausible mistake
in the modelled code (a `>` for `>=`, a missing end of interrupt, a missing
caps-lock case, ...) that makes TLC report that property.

Deadlock is checked in every run. A stopped kernel is the action `Hang` or `Halt`; the
other models never stop.

## Bounds and why they are enough

- *Frames*: frames of 2 bytes, so a bitmap byte covers 16 bytes. The maps cover:
  no memory, memory smaller than the kernel, the smallest memory that boots (8
  frames, small enough to be used up), memory in which the heap does not fit,
  a memory that ends inside a bitmap byte, one that ends with a byte's last bit,
  and several ranges. The locations include an aligned one in most frames
  of the smallest memory, unaligned ones, the last address and one out of range. The
  frame sizes read are the true one, twice that and zero. The theorems remove these bounds.
- *Console*: a 3 x 3 screen; strings that are empty, fit, fill a row exactly, wrap
  once and wrap twice. A data port holds two bits, so that a position needs both
  halves of the cursor register.
- *Console under interrupts*: 2 x 2, an empty line and a line that wraps twice.
  With two rows a wrap reaches the bottom, and a scroll during a scroll happens.
- *Interrupts*: the timer, the keyboard and the lines 8 (clock) and 12 (mouse) of
  the second controller; `ScreenTimer` counts to 2 instead of 16.
- *Keyboard*: both shift keys, caps lock, one key of each class the conversion
  distinguishes.
- *Multiboot*: memory maps of zero to four entries of all three usages, first, in the
  middle and last among tags with sizes that are and are not multiples of 8; the
  information at every offset from 0 to 16, past both alignment classes of the
  3-word ranges and past the end of the first table; two maps whose addresses look like
  the type of a memory map. Half a word holds 1000 values
  and addresses are below that (memory under 4 GiB).
- *Start-up*: tables of eight entries instead of 512; the pages given to the paging
  calls have level indexes that are equal and different, below and behind the slot
  (`Shift`) where "area" begins, in a free slot of the top table and in the kernel's;
  one used and one unused frame; a prompt of three characters, two typed.
- *Loader*: nine pages, six below the limit; one map with room for every buffer and
  two in which the firmware runs out; ten images: complete, ending behind
  their headers, linked for another offset or to where the buffers are, with a loadable
  slot behind the headers, with more headers than the loop reads, with headers where
  `Index`, of five values, cannot count to, and with one of three wrong headers;
  a harmless and a harmful header left on the stack; descriptors of 5 units, or of 6
  against a structure of 5, as 48 against 40 bytes.
- *Library*: numbers of eight bits, all of them; memory of 36 cells with every
  amount up to 15 and an index of four bits, so that it wraps, and NULL; page counts up to
  two pages of pages; formats of up to three of thirteen parts, with three ways to end.

## Fairness

- `Multiboot`, `Loader`, `KernelLib`: weak fairness of the sequential program.
- `Startup`: weak fairness of the kernel's one thread. Nothing is assumed of the other end
  of the line, of evictions or of drivers, except that a driver's calls end.
- `ConsoleIrq`: weak fairness of the main line. The processor executes it between
  interrupts and the handler is finite.
- `Interrupts`: weak fairness of delivery and of handlers, because the processor does
  not stop; strong fairness of the start-up, because each return to the main line
  executes an instruction before the next interrupt. The keyboard has a lower
  priority than the timer, so reading a key needs more: `TimerLeavesRoom` says that the
  main line runs again and again with no tick pending, and a request below the timer
  that keeps having its turn is taken. The timer is programmed with the low 16 bits of its
  divisor, 4288, which is 278 ticks a second; the handler does at most one copy of
  the screen.

## Proofs

TLAPS proves these for every value of the constants, from the named assumptions of
the modules. Each module of proofs has an inductive invariant, which TLC checked on the
instance of the component's run before it was proved, one lemma per action, and the
theorems at its end.

**PhysFramesProofs** assumes `LayoutAssumption` (positive frame size, an aligned
kernel below the boot information, a heap of at least eight frames: 8 MiB in
the code) and `MapAssumption` (addresses are naturals, a map is finite).

- `TypeCorrect`: `Spec => []TypeOK`. The bitmap has exactly the bytes that an
  address up to `MaxPAddr` selects, for every frame size that is read.
- `KernelReserved`: `Spec => []KernelStaysReserved`, whatever frame size each call
  reads. `KernelStaysReserved` is inductive together with `TypeOK` and
  `NoCallBeforeStart`. The step from boot uses that the marking loop's
  stride meets every frame from an aligned start, that the byte zeroed by the heap's
  creation describes frames beyond the kernel when the heap fits, and that the
  second loop only adds bits. A call changes the one bit it selects
  (`SetFrameUsed`, from `BitOfFrame`: address arithmetic by bytes and bits is the same as
  division by the frame size read).
- `Refinement`: `Spec => ImplementsFrameSet`. Each call that reads the true frame size maps to
  the call of `FrameSet`, whatever the calls before it read; the search returns the lowest
  clear bit, which is the lowest free frame, or an address past memory if there is none.

A call that reads another frame size selects a bit its caller did not mean: what it can do
wrong with it is among the observations. `DivFacts`, `DivUnique`, `DivDiv` and `DivMonotone`
are the integer division facts everything rests on.

**KeyboardProofs** proves `TypeCorrect` for every set of keys, and `NoShiftLeft` and
`Capitals` for every set of keys without the charmap's empty entry (no key sends it).
Neither property is inductive: `ModifiersFollowCodes` adds that `CapsLock` is the number of
its presses, odd or even, and that `ShiftModifier` is the exclusive or of that and of a shift
key being held with none of two released since.

**InterruptsProofs** assumes `DevicesAssumption` (devices are lines of the controllers,
a positive period) and proves `TypeCorrect`, `EveryInterruptEnds`
(`NothingLeftInService`), `FreshReads` (`EveryReadIsFresh`) and the action property
`RightGates` (`NoWrongGate`). The invariant says how far the start-up has programmed each
controller (`Programmed`: which initialization word it expects, its vectors, its masks),
that interrupts are off until masks and gates are final (`OffUntilReady`), that a line
is in service exactly as long as the handler that runs has its end of interrupt
to come (`InService`), and that a request of line 1 means a byte is there (`ByteIsThere`).
The second controller never has a line in service, because its lines are masked at the
first one; that is why the handlers' single end of interrupt is enough.

**StartupProofs** assumes `PagingAssumption`, `SerialAssumption` and `AddressAssumption`
(the addresses and frames given to the paging calls are numbers), for tables of
every size. `TypeCorrect`, `LowMemoryStays`
(`InUseIsMapped`), `KernelHalfStays`, `InterruptsAreSafe` (`InterruptsFindTheirWay`) and
`PromptIsConfigured` (`PromptReachesTheLine`) follow from one invariant in four parts:
`MemoryInv` (the shape of the tables: no entry leads back to p4, those of p4 lead to
tables; the entries of p4, p3 and p2 through which the kernel runs are there; the heap's
one block), `PointerInv` (what still has a low address at each block, and
that low memory is mapped until nothing has), `CpuInv` (the segments loaded when
interrupts come on) and `SerialInv` (after each write of `InitSerialDevice`, which
registers are final). The paging lemmas show that `Map` stores only into tables it
made and into empty entries, which the kernel's are not, and that `Unmapped` either empties
the kernel's slot of p4 or leaves the kernel's entries alone. So `KernelHalfStays` says that
only an unmap can end in the state "lost".

**ConsoleIrqProofs** proves `TypeCorrect`, `StaysOnScreen` (`WritesStayOnScreen`) and
`PositionIsRecovered` (`PositionRecovers`) for every screen size, every set of strings and
every set of keys without backspace. With the backspace key the second is false: the run
`console_irq_erase` shows it. The invariant is about what an interrupt can make stale:
`CopyInv` bounds the main line's copies and the value between the load and the
store of an increment, `RowInv` and `ColInv` say at which labels the shared position may
be off the screen and by how much (two rows, one column), `ControlInv` where calls return to.
A handler step is proved to bring every such position back (`ClampOK`, `WrapOK`, `PushUpOK`).
`QuietCallsAreExact` (`QuietCallsAreAtomic`), under the same condition on the keys, needs a
second invariant, `QuietInv`: as long as no interrupt has come during the call, the rest of the call, continued
from the label the main line is at, ends in `expected`. `Outcome` writes that rest down
for each label, with the copies the main line holds: `RowOutcome` for the checks of column
and row, `CallOutcome` for scrolling, the port writes and the store of a cell, `LoopOutcome`
for the loop over the string; `CursorOutcome` says what the cursor registers hold meanwhile. Each access is then shown to leave the outcome
unchanged, one lemma per access; `PrintedFirst` does this for the loop: the letters after
the first, printed from where the first one leaves the console, are the whole string.
It starts from any state that races of earlier calls may have left. TLC checked
`QuietInv` on the instance of the run `console_irq`.

**VgaConsoleProofs** assumes the screen's size (`ScreenAssumption` of `Vga`) and
`TextAssumption` (strings are sequences of letters; NUL, tab and line feed are no letters) and
proves, for every screen, alphabet and set of strings, `TypeCorrect`,
`CursorIsThere` (`CursorFollows`) and the refinement `ShowsTheText` (`ImplementsTerminal`). None
is inductive. The invariant `Orderly` adds what the text on the
screen looks like (`Shape`): the cells of the current row before the position hold something, those
from the position on and all rows below are NUL; and, once the cursor is on, that the row
is never left full. `Shape` is why the NUL which the moving cursor stores
never erases a letter, why `Trimmed` of the current row is exactly the part before the
position, and why scrolling appends an empty row. `LoopRun` and `LoopRuns` follow the loop
of `VgaStringEntry`, which works on a copy of the position and updates the shared
one only in part, round by round next to the terminal's `WriteString`; `WriteStringIs` is
their sum. `PrintlnIs`, `AutoPrintIs`, `RegisterIs` and `BackspaceIs` do the same for the calls, and
`StepOK` maps every step to one of the terminal or to a stutter.
Both modules prove what happens for strings of every length. The loops are
recursive functions of the number of letters read (`Rounds`, `Texts`), and the induction is
first-order: the set of numbers for which a claim fails has no least element
(`LeastNumber`, `CountUp`), so no theorem with an operator parameter is needed.

**LoaderProofs** assumes `LoaderAssumption` (finitely many pages, the limit above the
first two, maps are functions of the pages, headers are well typed, descriptors at least as
large as the structure) and proves `TypeCorrect`,
`WholeMap` (`MapIsWhole`) and `ImageLoaded` (`ImageIsLoaded`). For `WholeMap`, `RunsCover` and
`RunsApart` show that the descriptors of a map are a partition of the pages, `CountRuns`
that the number of descriptors is the number of pages where a run begins, and
`OneMoreBuffer` that one allocation adds at most two: the loader's two spare descriptors are
exactly enough. `EveryOneIsRead` and `NoneFallsBetween` show that with descriptors of the
structure's size each of them is read once, `SecondFallsBetween` that with a larger one the
second range comes from between the first two. `ImageLoaded` holds for every file. Its
invariant `SegmentInv` says of each slot below `Index` that its segment is in its place unless
a later slot the loop comes to names the same page with other content; the state that a
file leaves behind its end (`PHdrSize`, the last header) is part of it, since the loop then
loads the last segment again. So a page holds the last slot that names it (`IsLast`), which
is one of the program headers only if nothing behind them looks like a segment for it.

**MultibootProofs** assumes `InfoAssumption` (tags lie one behind the other, one memory map at
most, ends of ranges below 2^64, memory holds the information and both tables) and
proves `TypeCorrect`, `MapIsRecorded` (`RangesRecorded`), `TagsHandled` (`EveryTagHandled`) and
`MapIsHandedOver` (`HandedOver`) for every information and every place of it. The invariant
has one part for the walk over intact tags (`LoopInv`), which holds until
the first call of `HandleMemory` and, if the table is apart, to the end; and one for the
tables (`TableInv`): during the first call the ranges below `Index` are recorded, the
entries from `Index` on unread. `EntryBeyond` is the reason why it is inductive on
information that the table overwrites: entry `i` begins behind range `i - 1`. `RangesRecorded`
and `HandedOver` are about the first call: an overwritten tag may look like another
memory map (the run has such an information), and nothing holds then but the types.

**Only model-checked**

- Liveness (`CallsReturn` of `ConsoleIrq` and of `KernelLib`, `KeysAreRead`, `StartsUp`,
  `GetsToThePrompt`, `PromptReturns`, `AlwaysEnds`): out of the prover's reach.
- `KernelLib` (`NumbersReadBack`, `HelpersAreExact`, `MemoryCallsExact`, `FormatsExpand`):
  it uses `Bitwise`, and its properties compare recursive definitions, the memory functions'
  loops and the format interpreter, with their references.

## Findings and observations

The three violation runs are the findings of `PROJECT.json`: they state what a comment
says and TLC shows what the code does. Other disagreements are stated in the passing
properties as exactly what the code does instead, with the comment they differ from:

- when every frame is used, the search goes past the bitmap's end and succeeds with an
  address past memory (`mmsetup.c:219`), where the comment promises 0 and a failure
  (`mmsetup.c:210`): `OffersPastMemory`, the exception of `ImplementsFrameSet`. In the
  smallest memory of the run, of 17 bytes, with its last four frames taken, it answers 18;
- frames below 1 MiB are offered (`mmsetup.c:219` against "Don't use below 1MB memory. Ever.",
  `kernel_main.c:187`): the table of ranges that reserves them is never read for the bitmap,
  and by `ImplementsFrameSet` the first search offers address 0;
- `MmState.pAllocInfo` keeps the address of a local variable of `KiStartupSystem`, and the
  frame size is read from dead stack memory afterwards (`mmsetup.c:77`).
  `KernelStaysReserved` holds for every size read, because a call reaches only the bit it
  selects; but after frame 0 is taken, a search that reads 4 for 2 offers address 4, a
  frame of the kernel, against "may be allocated freely" (`mmsetup.c:206`);
- `x86UnmapAddress` clears the entry of the top table whatever page is named
  (`paging.c:293`): for an address that is not mapped, below the kernel's own entry, it
  succeeds and unmaps the kernel, where the comment promises a failure (`paging.c:272`).
  `KernelHalfStaysMapped` says that this is the only way;
- the loop over program headers counts to e_phoff (`boot.c:282`), so that a slot behind
  the headers which looks like a segment for a page of the kernel replaces it, against
  "load the kernel there" (`boot.c:319`): `ImageIsLoaded`;
- the descriptors of the memory map are counted by the firmware's size (`boot.c:595`) and
  indexed by the structure's (`boot.c:619`): with 48 bytes against 40 the ranges do not
  say "where free memory is and isn't" (`kernel_main.c:150`): `MapIsWhole`;
- `KiLog2Int` stores both results in `ResultOne` (`kernel_binfuncs.c:51`): every positive number
  gets 63, zero and negative ones 0, while its comment promises the logarithm of the
  absolute value (`kernel_binfuncs.c:33`): it gives it for 0 and -1, see `HelpersAreExact`;
- `BytesToEfiPages` tests the page number instead of the remainder (`boot.c:93`): between
  16 MiB + 1 and 16 MiB + 4095 bytes, and at later multiples, the count is one short of "the
  amount, in bytes, to have allocated" (`boot.c:206`): `HelpersAreExact`.

Also seen while modelling. In memory management:

- the loop that marks the heap runs to `HeapSize` instead of its end, so the end of the
  heap is free after boot (`mmsetup.c:127`);
- an address equal to `MaxPAddr` is accepted although it is past the end (`mmsetup.c:163`);
- in memories above 256 GiB, whose bitmap exceeds the heap's size, the heap's loop
  marks nothing and the bitmap's last frame can stay unmarked (`mmsetup.c:114`);
- `MmKernelAllocPages` maps the first page again in every round, so that a call for two
  pages finds the second time what it mapped the first time (`paging.c:456`);
- a range removed by `x86UnmapAddress` is not flushed from the TLB although
  `FlushTLB`'s comment asks for it (`paging.c:62`);
- the comment "There's a buffer overrun somewhere" (`mb2entry.c:62`): boot information
  on both sides of `kernel_end` is overwritten before it is read (`mb2entry.c:179`). With
  the information close behind `kernel_end` the ranges are right, but the memory map's own header can be overwritten before its
  size is read again, and the loop then stays on it or ends early.

In the console, the interrupts and the keyboard:

- a tab in a string is written at the context's position while the loop's copy stays
  behind, so the next letter overwrites it (`vga_driver.c:320`);
- a disturbed call can leave the hardware cursor elsewhere until the next call
  (`mb2entry.c:398` wants it to follow always); `QuietCallsAreAtomic` shows that the
  next undisturbed call repairs it;
- the first controller's mask leaves the timer and the keyboard only, which masks the
  cascade: no interrupt of the second controller is ever delivered
  (`archstart.c:159`). In `Interrupts` its devices therefore ask in vain;
- the gate of vector 255 stays empty (`interrupts.c:305`);
- both shift keys share one flag: with both held, the release of one ends the shift
  (`interrupts.c:188`);
- the charmap's empty entry compares equal to every name, so code 0 would act as a
  shift key (`charmap.inl:9`).

In the loader:

- `EfiAllocAddr` returns TRUE for success, which the caller compares with
  `EFI_SUCCESS`, 0 (`boot.c:307`): loading stops when the allocation works and goes on when
  it does not. `Loader` models it so; `ImageIsLoaded` is about the second case;
- segments pass through a buffer at address 0; segments linked between the low addresses
  and the loader's `FERAL_VIRT_OFFSET`, which is not the linker's offset
  (`boot.c:61`), are written to addresses that do not exist;
- a buffer for which no page below 2 MiB is left gets an address that nobody reserved
  (`boot.c:223`), and several buffers may share it;
- `Index` has 32 bits and e_phoff 64: a file whose program headers begin at 4 GiB or
  behind keeps the loop going for good (`boot.c:282`, the second half of `AlwaysEnds`);
- the size of the screen that is blanked is read also when no display was set up
  (`boot.c:671`).

In the library, the serial port and the rest:

- the digit 35 is printed as '@' (radix 36 and above, `kernel_binfuncs.c:119`);
- the memory functions round up to four bytes, and a copy or comparison of an amount
  from 2^32 - 3 on never ends (`kernel_memfuncs.c:43`);
- `%01u` (`kernel_main.c:78`) takes no argument and prints '0's and a "u"; a "u" also follows
  `%lu`; a format that ends in `%` and a digit is read past its terminator
  (`kernel_printfuncs.c:218`);
- `SerialSetInterrupts` writes the FIFO register, which switches the FIFO off
  (`serial.c:54`).

## Modelling decisions and limits

- `ConsoleIrq` takes accesses in program order, one load or store at a time; a compiler
  may merge or reorder accesses to the context, which is not volatile. Two places are coarser:
  the loads of column and row that make up the arguments of one call, and the copy and the
  clearing of a scroll. An interrupt between them is an interrupt before or after with regard
  to what is checked: the handler leaves a position on the screen, and stores of the
  scroll are on it.
- A key pressed before the controllers are initialized keeps the keyboard's
  line high and no edge follows; the model starts with an empty keyboard controller
  and keys arrive from then on.
- Scan codes behind the end of `PS2Charmap` read unrelated memory and are left out. `[` and
  `]` print `{` and `}` unshifted, as the code does.
- `KiCompareMemory` compares whole groups of four bytes. For the names in
  `CheckStatusCode` the bytes behind the name are equal too, because the compiler merges
  the literals of the table and of the comparison, which are in one translation unit.
- `Multiboot` takes `kern_end` to be a multiple of 8, like the information.
- The printed strings hold no tab and no line feed (`TextAssumption` of `VgaConsole` and
  `ConsoleIrq`): the literals have none, and that of the boot loader's name and command line is
  assumed. Those branches of the loop are in `Vga` but not exercised.
- The registers that `InternalPrintRegister` prints hold letters; NUL bytes that pad a
  processor's brand name would be stored as empty cells and are left out.
- `VgaSwapBuffers` copies the frame buffer onto itself (`SwappedBuffer` is the frame
  buffer); it appears in the timer handler of `Interrupts` as work without effect.
- `Startup` leaves out which frame a page is mapped to and the flags of an entry; the
  assumption on `Slots` keeps "page" and "area" entries apart that would overlap.
- `Loader` gives each buffer one page, and groups memory types by what
  `GetEfiMemoryMapToFreeOrNot` distinguishes. A file ends between two slots and before 4 GiB,
  where the offset `e_phentsize * Index` would wrap. What is read across two descriptors
  is one value, `Garbage`, that stands for no run of pages.
- A frame size read through the dead pointer is below 2^61, so that `8 * FrameSize` does
  not wrap (`PhysFrames`).
- The overlap of source and destination in `KiCopyMemory` is modelled; `MemoryCallsExact`
  excludes it only for the bytes wanted.
- Colours, logging and message texts are left out; `KiDebugPrint` is a macro that
  sends a text like the prompt.

## Not modelled

- `kern/entry/efientry.c` is not built: it calls functions that do not exist.
- `charmap_default.inl` (glyphs) and the EFI headers (`efiapi.h`, `efiprotocols.h`) are data
  and declarations; the calls the loader makes are in `Loader`.
- The aarch64 port, the driver kit and the `FERALSTRING` functions are stubs without
  bodies or callers.
- `InternalMmWorstCaseMalloc` is unreachable: no node is ever marked as the last one.
- Processor exceptions: double and page faults stop the kernel, the other handlers print and
  return to the instruction that faulted (`interrupts.c:78`).

## Plan

The parts that keep state are modelled, and the safety invariants, action properties and
refinements of all of them but the library's are proved. What is left: the memory functions
and `KiItoa` of `KernelLib`, with their loops as recursive functions, in a module without
`Bitwise`; a model of the processor's exceptions, once their handlers do more than print or
stop.
