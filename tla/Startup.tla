------------------------------ MODULE Startup -------------------------------
(***************************************************************************)
(* From the first instruction to the debugger prompt: the multiboot entry  *)
(* (init.asm), the entry for an EFI loader (init64.asm), KiSystemStartup   *)
(* (kernel_main.c) and KiStartupProcessorMachineDependent (archstart.c),   *)
(* over the page tables of Paging and the UART of Serial.  What kern_init  *)
(* does with the boot information is in Multiboot, the frame bitmap in     *)
(* PhysFrames, the controllers in Interrupts.                              *)
(*                                                                         *)
(* The kernel runs at two addresses: "low", where it was loaded, and       *)
(* "high", behind KERN_VIRT_OFFSET.  ptr holds, for everything the         *)
(* processor or the kernel reaches through a pointer, which of the two     *)
(* the pointer holds.                                                      *)
(***************************************************************************)
EXTENDS Paging, Serial

CONSTANTS
    VAddrs,      \* pages given to the paging calls
    FrameArgs    \* frames given to the paging calls

ASSUME AddressAssumption == VAddrs \subseteq Nat /\ FrameArgs \subseteq Nat

VARIABLES
    pc,          \* the next block of code
    cpu,         \* what the processor can do and how it is set up
    ptr          \* low or high address of what is in use

vars == <<mem, tlb, map, uart, todo, shell, pc, cpu, ptr>>
devices == <<uart, todo, shell>>
paging == <<mem, tlb, map>>

Things == {"code", "stack", "gdt", "idt", "boot", "screen", "functions",
           "bitmap", "heap"}

(* A segment descriptor as the processor reads it. *)
Segment(exec, ring) == [present |-> TRUE, long |-> TRUE, exec |-> exec, ring |-> ring]
NullSegment == [present |-> FALSE, long |-> FALSE, exec |-> FALSE, ring |-> 0]

Init ==
    /\ InitPaging
    /\ InitSerial
    /\ \E entry \in {"_start", "_start64"}, magic, cpuid, long \in BOOLEAN :
         /\ entry = "_start64" => magic /\ cpuid /\ long
         /\ pc = entry
         /\ cpu = [magic |-> magic, cpuid |-> cpuid, long |-> long,
                   paging |-> entry = "_start64", interrupts |-> FALSE, segments |-> <<>>]
    /\ ptr = [x \in Things |-> IF x \in {"code", "stack"} THEN "low" ELSE "none"]

Go(next) == pc' = next
Point(things, where) == ptr' = [x \in Things |-> IF x \in things THEN where ELSE ptr[x]]

-----------------------------------------------------------------------------
(* init.asm *)

(* _start: boot_panic, or boot_panic_invalid_arch on an old processor. *)
Checks ==
    /\ pc = "_start"
    /\ Go(IF ~ (cpu.magic /\ cpu.cpuid) THEN "boot_panic"
          ELSE IF ~ cpu.long THEN "boot_panic_invalid_arch"
          ELSE "create_page_tables")
    /\ Point(IF cpu.magic THEN {"boot"} ELSE {}, "low")
    /\ UNCHANGED <<paging, devices, cpu>>

CreatePageTables ==
    /\ pc = "create_page_tables"
    /\ create_page_tables
    /\ Go("enable_paging")
    /\ UNCHANGED <<tlb, map, devices, cpu, ptr>>

(* CR3, PAE, long mode, then the paging bit.  From here on translations    *)
(* of low memory are cached.                                               *)
EnablePaging ==
    /\ pc = "enable_paging"
    /\ cpu' = [cpu EXCEPT !.paging = TRUE]
    /\ tlb' = TRUE
    /\ Go("create_gdt")
    /\ UNCHANGED <<mem, map, devices, ptr>>

gdt_64 == <<NullSegment, Segment(TRUE, 0)>>

(* create_gdt and begin_trampoline: retf into kern_start at its low        *)
(* address.                                                                *)
CreateGdt ==
    /\ pc = "create_gdt"
    /\ cpu' = [cpu EXCEPT !.segments = gdt_64]
    /\ Point({"gdt"}, "low")
    /\ Go("kern_start")
    /\ UNCHANGED <<paging, devices>>

(* The boot information is fetched, the stack moves up, CR3 is reloaded,   *)
(* and kern_init is entered at its high address.                           *)
KernStart ==
    /\ pc = "kern_start"
    /\ Point({"stack", "code"}, "high")
    /\ FlushTLB
    /\ Go("kern_init")
    /\ UNCHANGED <<mem, map, devices, cpu>>

-----------------------------------------------------------------------------
(* init64.asm: the firmware has paging on with low memory mapped. *)

gdt_64_efi == <<NullSegment,
                [Segment(TRUE, 0) EXCEPT !.long = FALSE], Segment(TRUE, 0)>>

(* The tables are filled, the GDT is loaded, and CR3 is replaced. *)
Start64 ==
    /\ pc = "_start64"
    /\ create_page_tables
    /\ cpu' = [cpu EXCEPT !.segments = gdt_64_efi]
    /\ ptr' = [ptr EXCEPT !["boot"] = "low", !["gdt"] = "low", !["code"] = "high"]
    /\ tlb' = FALSE
    /\ Go("kern_start64")
    /\ UNCHANGED <<map, devices>>

(* The GDT is loaded again, from the same low address. *)
KernStart64 ==
    /\ pc = "kern_start64"
    /\ ptr' = [ptr EXCEPT !["stack"] = "high", !["gdt"] = "low"]
    /\ FlushTLB
    /\ Go("kern_init64")
    /\ UNCHANGED <<mem, map, devices, cpu>>

-----------------------------------------------------------------------------
(* KiSystemStartup *)

(* kern_init (see Multiboot).  The frame buffer is reached behind          *)
(* KERN_VIRT_OFFSET.                                                       *)
KernInit ==
    /\ pc = "kern_init"
    /\ Point({"screen"}, "high")
    /\ Go("functions")
    /\ UNCHANGED <<paging, devices, cpu>>

(* BackingFunctions: KiPrint and the others do nothing before this. *)
KiUpdateFirmwareFunctions ==
    /\ pc = "functions"
    /\ Point({"functions"}, "high")
    /\ Go("memory")
    /\ UNCHANGED <<paging, devices, cpu>>

(* KiInitializeMemMgr (see PhysFrames) clears bitmap and heap at their low *)
(* addresses, keeps high ones, and makes the list of nodes; it may stop    *)
(* the kernel.  The boot information is not used again.                    *)
KiStartupMemory ==
    /\ pc = "memory"
    /\ tlb' = TRUE
    /\ \/ /\ Go("arch")
          /\ mem' = [mem EXCEPT !["nodes"] = MmCreateAllocatorState]
          /\ ptr' = [ptr EXCEPT !["bitmap"] = "high", !["heap"] = "high",
                                !["boot"] = "none"]
       \/ Go("stopped") /\ UNCHANGED <<mem, ptr>>
    /\ UNCHANGED <<map, devices, cpu>>

KiStartupArch ==
    /\ pc = "arch"
    /\ BeginInitSerialDevice
    /\ Go("serial")
    /\ UNCHANGED <<paging, cpu, ptr>>

SerialInitStep ==
    /\ pc = "serial"
    /\ PortWrite
    /\ UNCHANGED <<paging, pc, cpu, ptr>>

(* The status of InitSerialDevice is ignored. *)
MutSerialInitEnd ==
    /\ pc = "serial"
    /\ EndInitSerialDevice
    /\ Go(IF uart.lsr = "absent" THEN "arch" ELSE "processor")
    /\ UNCHANGED <<paging, cpu, ptr>>
SerialInitEnd ==
    /\ pc = "serial"
    /\ EndInitSerialDevice
    /\ Go("processor")
    /\ UNCHANGED <<paging, cpu, ptr>>

(* KiStartupProcessor, for processor 0: interrupts are off to begin with. *)
KiStartupProcessor ==
    /\ pc = "processor"
    /\ cpu' = [cpu EXCEPT !.interrupts = FALSE]
    /\ Go("gdt")
    /\ UNCHANGED <<paging, devices, ptr>>

MutGDTEntries == <<NullSegment, Segment(FALSE, 0), Segment(TRUE, 0),
                   Segment(FALSE, 3), Segment(TRUE, 3)>>
GDTEntries == <<NullSegment, Segment(TRUE, 0), Segment(FALSE, 0),
                Segment(TRUE, 3), Segment(FALSE, 3)>>

MutInitializeGDT ==
    /\ pc = "gdt"
    /\ cpu' = [cpu EXCEPT !.segments = GDTEntries]
    /\ Go("idt")
    /\ UNCHANGED <<paging, devices, ptr>>
x86InitializeGDT ==
    /\ pc = "gdt"
    /\ cpu' = [cpu EXCEPT !.segments = GDTEntries]
    /\ Point({"gdt"}, "high")
    /\ Go("idt")
    /\ UNCHANGED <<paging, devices>>

(* The controllers (see Interrupts), the gates, lidt, and sti. *)
x86InitializeIDT ==
    /\ pc = "idt"
    /\ Point({"idt"}, "high")
    /\ cpu' = [cpu EXCEPT !.interrupts = TRUE]
    /\ Go("unmap")
    /\ UNCHANGED <<paging, devices>>

(* Low memory goes; CR3 is not reloaded. *)
UnmapLowMemory ==
    /\ pc = "unmap"
    /\ x86UnmapAddress(0)
    /\ cpu' = [cpu EXCEPT !.interrupts = TRUE]
    /\ Go("drivers")
    /\ UNCHANGED <<devices, ptr>>

(* The calls of the paging interface, open to drivers from here on.        *)
(* KiLoadAllDrivers is declared and not called, so that the tree has no    *)
(* caller yet.  PageFaultHandler stops the kernel; a kernel whose own      *)
(* entry of p4 is gone is lost, the handler being unmapped with it.        *)
PagingCall ==
    /\ pc = "drivers"
    /\ \/ \E v \in VAddrs : x86MapAddress(v) \/ x86UnmapAddress(v)
       \/ \E v \in VAddrs \cup {0}, f \in FrameArgs, Pages \in 1 .. 2 :
            MmKernelAllocPages(Pages, f, v)
    /\ pc' = IF map'.status \in {"fault", "wild"} THEN "stopped"
             ELSE IF mem'["p4"][N - 1] = None THEN "lost" ELSE pc
    /\ UNCHANGED <<devices, cpu, ptr>>

(* A cached translation may be dropped at any time. *)
Evict ==
    /\ tlb
    /\ FlushTLB
    /\ UNCHANGED <<mem, map, devices, pc, cpu, ptr>>

EnterShell ==
    /\ pc = "drivers"
    /\ BeginPrompt
    /\ Go("shell")
    /\ UNCHANGED <<paging, cpu, ptr>>

MutShellStep ==
    /\ pc = "shell"
    /\ SerialSend \/ SentAll \/ ReadRound
    /\ pc' = IF shell'.at # "send" THEN "idle" ELSE pc
    /\ UNCHANGED <<paging, cpu, ptr>>
ShellStep ==
    /\ pc = "shell"
    /\ SerialSend \/ SentAll \/ ReadRound
    /\ pc' = IF shell'.at = "off" THEN "idle" ELSE pc
    /\ UNCHANGED <<paging, cpu, ptr>>

Line ==
    /\ Transmitted \/ \E c \in {"newline", "other"} : Typed(c)
    /\ UNCHANGED <<paging, pc, cpu, ptr>>

Ends == {"boot_panic", "boot_panic_invalid_arch", "kern_init64", "stopped", "lost", "idle"}

(* hlt, KiStopError and the empty loop at the end of KiSystemStartup. *)
Halt == pc \in Ends /\ UNCHANGED vars

(* The one thread of the kernel. *)
Main == \/ Checks \/ CreatePageTables \/ EnablePaging \/ CreateGdt \/ KernStart
        \/ Start64 \/ KernStart64
        \/ KernInit \/ KiUpdateFirmwareFunctions \/ KiStartupMemory \/ KiStartupArch
        \/ SerialInitStep \/ SerialInitEnd
        \/ KiStartupProcessor \/ x86InitializeGDT \/ x86InitializeIDT \/ UnmapLowMemory
        \/ EnterShell \/ ShellStep

Next == Main \/ PagingCall \/ Evict \/ Line \/ Halt

(* The processor keeps executing; a driver makes finitely many calls. *)
Spec == Init /\ [][Next]_vars /\ WF_vars(Main)

-----------------------------------------------------------------------------
(* Properties *)

Entry == {None} \cup {Table(t) : t \in Tables} \cup {Large(i) : i \in Slot}
           \cup {Frame4K}

(* Every variable has its type; in particular no call stores an entry that *)
(* is not a table, a large page or a frame, and the heap has one block.    *)
TypeOK ==
    /\ \A t \in Tables : mem[t] \in [Slot -> Entry]
    /\ TheOneBlock
    /\ tlb \in BOOLEAN
    /\ uart.lsr \in LineStatus /\ shell.Index \in 0 .. 1023
    /\ ptr \in [Things -> {"none", "low", "high"}]
    /\ shell.at # "off" => pc = "shell"

(* Blocks that address low memory themselves. *)
UseLow == {"create_gdt", "kern_start", "kern_start64", "kern_init", "memory"}

(* With paging on, what is in use is mapped by the tables, not only by     *)
(* what the TLB still holds: low memory is there as long as the code, the  *)
(* stack, the descriptor tables or the block itself need it, and all of    *)
(* them have moved up when KiStartupProcessorMachineDependent removes it   *)
(* ("Unmap low memory, since GDT was last leftover").                      *)
InUseIsMapped ==
    cpu.paging /\ (pc \in UseLow \/ \E x \in Things : ptr[x] = "low") =>
        LowMapped(mem)

(* From then on the kernel's half is mapped too: the entries through which *)
(* the kernel runs survive the removal of low memory and every call that   *)
(* maps or allocates, although the two halves share p3 and p2 and a new    *)
(* table is cleared before it is used.  Only x86UnmapAddress can take them *)
(* away: it clears a whole entry of p4, and answers STATUS_SUCCESS, also   *)
(* if "the virtual address was not already in use" (paging.c:272).         *)
KernelHalfStaysMapped ==
    cpu.paging /\ pc # "_start64" =>
        KernelHalfMapped \/ (pc = "lost" /\ map.op = "unmap")

(* From the first sti on an interrupt finds its way: the selector 0x08 of  *)
(* every gate is a present 64-bit code segment of ring 0 in the loaded     *)
(* GDT, and GDT, IDT, stack and screen are reached through high addresses  *)
(* or through low memory that is still there.                              *)
InterruptsFindTheirWay ==
    cpu.interrupts /\ pc # "lost" =>
        /\ cpu.segments[2] = Segment(TRUE, 0)
        /\ \A x \in {"gdt", "idt", "stack", "screen"} :
             ptr[x] = "high" \/ (ptr[x] = "low" /\ LowMapped(mem))

(* A machine with a multiboot loader and long mode gets to the prompt,     *)
(* serial port or not, unless the kernel is stopped or a driver unmaps it. *)
GetsToThePrompt ==
    pc = "create_page_tables" ~> pc \in {"shell", "stopped", "lost"}

(* When the line is at rest with a newline received, the prompt returns,   *)
(* although SerialRecv never asks whether a character is there.            *)
PromptReturns ==
    (pc = "shell" /\ uart.rbr = "newline" /\ uart.typed = TypedBound) ~> (pc = "idle")
=============================================================================
