-------------------------------- MODULE Heap --------------------------------
(***************************************************************************)
(* The kernel heap (heap.c, heap.h): the list of nodes of the one arena    *)
(* the kernel makes, and MmKernelMalloc.  A list is a function from the    *)
(* two nodes that are ever written, "root" and the one behind it, "next";  *)
(* addresses of blocks are counted in bytes from the area of the root.     *)
(*                                                                         *)
(* No node is ever marked as the last one, so that the slow search         *)
(* InternalMmWorstCaseMalloc is never made, and no block is given back.    *)
(***************************************************************************)
EXTENDS Naturals

ALLOC_BLOCK_SIZE == 128

(* NextToAllocate of the arena is set once and stays. *)
Arena == [Root |-> "root", NextToAllocate |-> "next"]
NULLPTR == "null"

(* A node as KiSetMemoryBytes leaves it. *)
Cleared == [Used |-> FALSE, Area |-> 0, NodeIndex |-> 0, Previous |-> NULLPTR,
            Next |-> NULLPTR, ChunkIncrement |-> 0]
NoHeap == [n \in {"root", "next"} |-> Cleared]

(* The area of a node is one byte behind that of the node before it. *)
InternalInitializeNode(nodes, Current, Previous, Next, Index) ==
    LET behind == IF Previous = NULLPTR THEN nodes
                  ELSE [nodes EXCEPT ![Previous].Next = Current,
                                     ![Current].Area = nodes[Previous].Area + 1]
        before == IF Next = NULLPTR THEN behind
                  ELSE [behind EXCEPT ![Next].Previous = Current]
    IN  [before EXCEPT ![Current] = [@ EXCEPT !.Used = FALSE, !.Previous = Previous,
                                              !.Next = Next, !.NodeIndex = Index]]

(* One arena; the area of its root, set by hand, is offset 0. *)
MmCreateAllocatorState ==
    [InternalInitializeNode(NoHeap, Arena.Root, NULLPTR, NULLPTR, 0)
        EXCEPT ![Arena.NextToAllocate].Previous = Arena.Root]

(* The loop that marks nodes as used stops behind the first, which has no  *)
(* next one, and the initialization of that node takes the mark back.      *)
MmKernelMalloc(nodes, Size) ==
    LET at == Arena.NextToAllocate
        BlockIncrement == (Size % ALLOC_BLOCK_SIZE) + 1
        used == nodes[at].Used \/ BlockIncrement > 1
        marked == [nodes EXCEPT ![at] = [@ EXCEPT !.Used = used,
                                                  !.ChunkIncrement = BlockIncrement]]
    IN  InternalInitializeNode(marked, at, nodes[at].Previous, nodes[at].Next,
                               nodes[nodes[at].Previous].NodeIndex + 1)

(* The block the call that made these nodes has returned. *)
Block(nodes) == nodes[Arena.NextToAllocate].Area
=============================================================================
