------------------------------ MODULE FrameSet ------------------------------
(***************************************************************************)
(* What the physical frame allocator of kern/mm/mmsetup.c promises its     *)
(* callers: a set of used frames, one call to take or give back the frame  *)
(* holding an address, one to ask about it and one to find the lowest free *)
(* frame.  There is no bitmap here; PhysFrames is shown to implement this. *)
(***************************************************************************)
EXTENDS Integers, FiniteSetsExt

CONSTANTS FrameSize,    \* bytes per frame
          Locations     \* the addresses callers ask about

VARIABLES phase,        \* "boot", "running" or "stopped"
          MaxPAddr,     \* highest end address of a memory range
          used,         \* the frames in use
          ret           \* the last call and its answer

vars == <<phase, MaxPAddr, used, ret>>

Frame(Location) == Location \div FrameSize
Frames == 0 .. Frame(MaxPAddr)

Answer(op, Location, status, value) ==
    [op |-> op, Location |-> Location, status |-> status, value |-> value]

Init == /\ phase = "boot"
        /\ MaxPAddr = 0
        /\ used = {}
        /\ ret = Answer("none", 0, "SUCCESS", FALSE)

(* Start-up learns the size of memory and chooses the frames that are      *)
(* taken from the beginning, or stops the machine.                         *)
Start == /\ phase = "boot"
         /\ phase' \in {"running", "stopped"}
         /\ MaxPAddr' \in Nat
         /\ used' \in SUBSET (0 .. Frame(MaxPAddr'))
         /\ UNCHANGED ret

Lookup(Location) ==
    /\ phase = "running"
    /\ ret' = IF Location > MaxPAddr
              THEN Answer("lookup", Location, "INVALID_MEMORY_LOCATION", FALSE)
              ELSE Answer("lookup", Location, "SUCCESS", Frame(Location) \in used)
    /\ UNCHANGED <<phase, MaxPAddr, used>>

Allocate(Location) ==
    /\ phase = "running"
    /\ \/ /\ Location > MaxPAddr
          /\ ret' = Answer("allocate", Location, "INVALID_MEMORY_LOCATION", TRUE)
          /\ UNCHANGED used
       \/ /\ Location <= MaxPAddr
          /\ Frame(Location) \in used
          /\ ret' = Answer("allocate", Location, "MEMORY_ACCESS_VIOLATION", TRUE)
          /\ UNCHANGED used
       \/ /\ Location <= MaxPAddr
          /\ Frame(Location) \notin used
          /\ ret' = Answer("allocate", Location, "SUCCESS", TRUE)
          /\ used' = used \cup {Frame(Location)}
    /\ UNCHANGED <<phase, MaxPAddr>>

Free(Location) ==
    /\ phase = "running"
    /\ \/ /\ Location > MaxPAddr
          /\ ret' = Answer("allocate", Location, "INVALID_MEMORY_LOCATION", FALSE)
          /\ UNCHANGED used
       \/ /\ Location <= MaxPAddr
          /\ Frame(Location) \notin used
          /\ ret' = Answer("allocate", Location, "MEMORY_ACCESS_VIOLATION", FALSE)
          /\ UNCHANGED used
       \/ /\ Location <= MaxPAddr
          /\ Frame(Location) \in used
          /\ ret' = Answer("allocate", Location, "SUCCESS", FALSE)
          /\ used' = used \ {Frame(Location)}
    /\ UNCHANGED <<phase, MaxPAddr>>

(* The lowest free frame; once every frame is in use, address 0 and a      *)
(* failure.                                                                *)
LookupFree ==
    /\ phase = "running"
    /\ \/ \E f \in Frames \ used :
            /\ \A g \in Frames \ used : f <= g
            /\ ret' = Answer("lookupfree", f * FrameSize, "SUCCESS", FALSE)
       \/ /\ Frames \subseteq used
          /\ ret' = Answer("lookupfree", 0, "MEMORY_PAGE_FAILURE", FALSE)
    /\ UNCHANGED <<phase, MaxPAddr, used>>

(* A stopped machine never does anything again. *)
Hang == phase = "stopped" /\ UNCHANGED vars

Next == \/ Start
        \/ \E Location \in Locations : \/ Lookup(Location)
                                       \/ Allocate(Location)
                                       \/ Free(Location)
        \/ LookupFree
        \/ Hang

Spec == Init /\ [][Next]_vars
=============================================================================
