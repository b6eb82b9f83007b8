-------------------------- MODULE PhysFramesProofs --------------------------
(* Proofs about PhysFrames, for every layout, memory map and address.      *)
EXTENDS PhysFrames, TLAPS

(* What division and remainder are, for a natural number and a positive    *)
(* divisor.                                                                *)
LEMMA DivFacts ==
    ASSUME NEW n \in Nat, NEW d \in Nat \ {0}
    PROVE  /\ n \div d \in Nat
           /\ n % d \in 0 .. d - 1
           /\ n = d * (n \div d) + (n % d)
  OBVIOUS

(* A quotient and a remainder below the divisor are the only ones.         *)
LEMMA DivUnique ==
    ASSUME NEW n \in Nat, NEW d \in Nat \ {0}, NEW q \in Nat, NEW r \in 0 .. d - 1,
           n = d * q + r
    PROVE  n \div d = q /\ n % d = r
<1> DEFINE p == n \div d
           s == n % d
<1>1. p \in Nat /\ s \in 0 .. d - 1 /\ n = d * p + s
  BY DivFacts
<1> HIDE DEF p, s
<1>2. p = q
  <2>1. CASE p < q
    <3>1. q - p \in Nat /\ q - p >= 1
      BY <1>1, <2>1
    <3>2. d * (q - p) >= d
      BY <3>1
    <3>3. d * q = d * p + d * (q - p)
      BY <1>1
    <3>4. QED BY <1>1, <3>2, <3>3
  <2>2. CASE p > q
    <3>1. p - q \in Nat /\ p - q >= 1
      BY <1>1, <2>2
    <3>2. d * (p - q) >= d
      BY <3>1
    <3>3. d * p = d * q + d * (p - q)
      BY <1>1
    <3>4. QED BY <1>1, <3>2, <3>3
  <2>3. QED BY <2>1, <2>2, <1>1
<1>3. s = r
  BY <1>1, <1>2
<1>4. QED BY <1>2, <1>3 DEF p, s

(* Dividing by FrameSize and then by 8 is dividing by 8 * FrameSize: the   *)
(* byte of an address is the byte of its frame.                            *)
LEMMA DivDiv ==
    ASSUME NEW n \in Nat, NEW d \in Nat \ {0}
    PROVE  n \div (8 * d) = (n \div d) \div 8
<1> DEFINE q == n \div d
           r == n % d
           a == q \div 8
           b == q % 8
<1>1. q \in Nat /\ r \in 0 .. d - 1 /\ n = d * q + r
  BY DivFacts
<1>2. a \in Nat /\ b \in 0 .. 7 /\ q = 8 * a + b
  BY <1>1
<1> HIDE DEF q, r, a, b
<1>3. n = (8 * d) * a + (d * b + r)
  BY <1>1, <1>2
<1>4. d * b + r \in 0 .. 8 * d - 1
  <2>1. d * b <= d * 7
    BY <1>2
  <2>2. d * b \in Nat
    BY <1>2
  <2>3. QED BY <2>1, <2>2, <1>1
<1>5. 8 * d \in Nat \ {0}
  OBVIOUS
<1>6. n \div (8 * d) = a
  BY <1>2, <1>3, <1>4, <1>5, DivUnique
<1>7. QED BY <1>6 DEF a, q

(* A lower address does not have a higher frame.                           *)
LEMMA DivMonotone ==
    ASSUME NEW m \in Nat, NEW n \in Nat, NEW d \in Nat \ {0}, m <= n
    PROVE  m \div d <= n \div d
<1> DEFINE p == m \div d
           q == n \div d
           r == m % d
           s == n % d
<1>1. /\ p \in Nat /\ r \in 0 .. d - 1 /\ m = d * p + r
      /\ q \in Nat /\ s \in 0 .. d - 1 /\ n = d * q + s
  BY DivFacts
<1> HIDE DEF p, q, r, s
<1>2. SUFFICES ASSUME p > q PROVE FALSE
  BY <1>1 DEF p, q
<1>3. p - q \in Nat /\ p - q >= 1
  BY <1>1, <1>2
<1>4. d * (p - q) >= d
  BY <1>3
<1>5. d * p = d * q + d * (p - q)
  BY <1>1
<1>6. QED BY <1>1, <1>4, <1>5

(* The byte and the bit that an address selects are those of a frame       *)
(* number, whatever frame size is read.                                    *)
LEMMA SelectFacts ==
    ASSUME NEW loc \in Nat, NEW fs \in Nat \ {0}
    PROVE  /\ loc \div fs \in Nat
           /\ BaseAddr(loc, fs) = (loc \div fs) \div 8
           /\ BitNum(loc, fs) = (loc \div fs) % 8
           /\ BaseAddr(loc, fs) \in Nat
           /\ BitNum(loc, fs) \in Bits
<1>1. loc \div fs \in Nat
  BY DivFacts
<1>2. BaseAddr(loc, fs) = (loc \div fs) \div 8
  BY DivDiv DEF BaseAddr
<1>3. BitNum(loc, fs) = (loc \div fs) % 8
  BY DEF BitNum
<1> DEFINE number == loc \div fs
<1>4. number \div 8 \in Nat /\ number % 8 \in Bits
  <2>1. number \in Nat
    BY <1>1
  <2> HIDE DEF number
  <2>2. QED BY <2>1 DEF Bits
<1>5. QED BY <1>1, <1>2, <1>3, <1>4

(* With the frame size of KiStartupSystem that number is the frame of the  *)
(* address.                                                                *)
LEMMA FrameFacts ==
    ASSUME NEW loc \in Nat
    PROVE  /\ Frame(loc) \in Nat
           /\ BaseAddr(loc, FrameSize) = Frame(loc) \div 8
           /\ BitNum(loc, FrameSize) = Frame(loc) % 8
           /\ BaseAddr(loc, FrameSize) \in Nat
           /\ BitNum(loc, FrameSize) \in Bits
  BY SelectFacts, LayoutAssumption DEF Frame

(* The address that MmLookupFreePhysFrame computes from a bit number lies  *)
(* in the frame of that number, for the frame size it reads.               *)
LEMMA DivOfMultiple ==
    ASSUME NEW n \in Nat, NEW fs \in Nat \ {0}
    PROVE  fs * n \in Nat /\ (fs * n) \div fs = n
<1>1. fs * n \in Nat /\ 0 \in 0 .. fs - 1 /\ fs * n = fs * n + 0
  OBVIOUS
<1>2. QED BY <1>1, DivUnique

LEMMA FrameOfMultiple ==
    ASSUME NEW n \in Nat
    PROVE  FrameSize * n \in Nat /\ Frame(FrameSize * n) = n
  BY DivOfMultiple, LayoutAssumption DEF Frame

(* The bytes 0 .. BufferSize are exactly those a frame of memory selects. *)
LEMMA FrameBound ==
    ASSUME NEW max \in Nat
    PROVE  /\ BufferSizeOf(max) \in Nat
           /\ BufferSizeOf(max) = Frame(max) \div 8
           /\ Frame(max) \in Nat
           /\ Frame(max) <= 8 * BufferSizeOf(max) + 7
<1>1. BufferSizeOf(max) = BaseAddr(max, FrameSize)
  BY DEF BufferSizeOf, BaseAddr
<1>2. QED BY <1>1, FrameFacts

(* The highest end that KiInitializeMemMgr finds is an address.            *)
LEMMA MaximumIsNat ==
    ASSUME NEW map \in MemoryMaps
    PROVE  MaximumPAddr(map) \in Nat
  BY MapAssumption DEF MaximumPAddr, Max

-----------------------------------------------------------------------------

(* The state before KiInitializeMemMgr has its types.                      *)
LEMMA InitTypeOK == Init => TypeOK
<1> SUFFICES ASSUME Init PROVE TypeOK
  OBVIOUS
<1>1. BufferSize = 0 /\ Frame(0) = 0
  <2>1. Frame(FrameSize * 0) = 0
    BY FrameOfMultiple
  <2>2. Frame(0) = 0
    BY <2>1, LayoutAssumption
  <2>3. QED BY <2>2, FrameBound DEF BufferSize, Init
<1>2. BitmaskUsedFrames \in [0 .. BufferSize -> SUBSET Bits]
  BY <1>1 DEF Init
<1>3. QED BY <1>2, LayoutAssumption DEF Init, TypeOK, Answer, Answers

(* KiInitializeMemMgr leaves a bitmap with exactly the bytes that can be   *)
(* selected.                                                               *)
LEMMA StartTypeOK ==
    ASSUME TypeOK, NEW map \in MemoryMaps, KiInitializeMemMgr(map)
    PROVE  TypeOK'
<1> DEFINE max == MaximumPAddr(map)
<1>1. PICK cleared \in ClearedBitmaps(max) :
         LET kernel  == Marked(cleared, max, KernelIndexes(max))
             marked  == MarkUsed(cleared, kernel)
             created == CreateAllocatorState(marked, max)
             heap    == Marked(created, max, HeapIndexes(max))
         IN  \/ BitmaskUsedFrames' = marked
             \/ BitmaskUsedFrames' = MarkUsed(created, heap)
  BY DEF KiInitializeMemMgr
<1>2. max \in Nat /\ BufferSizeOf(max) \in Nat
  BY MaximumIsNat, FrameBound
<1>3. MaxPAddr' = max /\ phase' \in {"running", "stopped"}
  BY DEF KiInitializeMemMgr
<1>4. BufferSize' = BufferSizeOf(max)
  BY <1>3 DEF BufferSize
<1> DEFINE Bitmaps == [0 .. BufferSizeOf(max) -> SUBSET Bits]
<1>5. cleared \in Bitmaps
  BY <1>2 DEF ClearedBitmaps
<1>6. ASSUME NEW bm \in Bitmaps, NEW indexes \in SUBSET Nat
      PROVE  MarkUsed(bm, indexes) \in Bitmaps
  BY FrameFacts DEF MarkUsed
<1>7. ASSUME NEW bm, NEW indexes \in SUBSET Nat
      PROVE  Marked(bm, max, indexes) \in SUBSET Nat
  BY DEF Marked
<1>8. KernelIndexes(max) \in SUBSET Nat /\ HeapIndexes(max) \in SUBSET Nat
  BY <1>2, LayoutAssumption DEF KernelIndexes, HeapIndexes, LoopIndexes, HeapAddrOf
<1>9. ASSUME NEW bm \in Bitmaps
      PROVE  CreateAllocatorState(bm, max) \in Bitmaps
  BY <1>2 DEF CreateAllocatorState
<1>10. BitmaskUsedFrames' \in Bitmaps
  BY <1>1, <1>5, <1>6, <1>7, <1>8, <1>9
<1>11. released' = {} /\ ret' = ret /\ read' = read
  BY DEF KiInitializeMemMgr
<1>12. QED BY <1>2, <1>3, <1>4, <1>10, <1>11 DEF TypeOK

(* An address up to the highest one has a frame of memory.                 *)
LEMMA FrameInFrames ==
    ASSUME NEW max \in Nat, NEW loc \in Nat, loc <= max
    PROVE  Frame(loc) \in 0 .. Frame(max)
  BY LayoutAssumption, DivMonotone, FrameFacts DEF Frame

(* A call that divides by zero keeps the types.                            *)
LEMMA DivideTypeOK ==
    ASSUME TypeOK, NEW Location \in Nat, DivideByZero(Location)
    PROVE  TypeOK'
<1>1. BufferSize' = BufferSize
  BY DEF DivideByZero, BufferSize
<1>2. QED BY <1>1 DEF DivideByZero, TypeOK

(* MmAllocatePhysFrame keeps the types.                                    *)
LEMMA AllocateTypeOK ==
    ASSUME TypeOK, NEW Location \in Nat, NEW Status \in BOOLEAN,
           MmAllocatePhysFrame(Location, Status)
    PROVE  TypeOK'
<1>1. MaxPAddr' = MaxPAddr /\ BufferSize' = BufferSize
  BY DEF MmAllocatePhysFrame, Refuse, DivideByZero, BufferSize
<1>2. CASE Refuse("allocate", Location, Status)
  BY <1>1, <1>2, LayoutAssumption DEF Refuse, TypeOK, Answer, Answers
<1>3. CASE DivideByZero(Location)
  BY <1>3, DivideTypeOK
<1>4. CASE \E fs \in FrameSizesRead \ {0} :
           \E byte \in ContainingByte(BaseAddr(Location, fs)) :
            /\ Location <= MaxPAddr
            /\ SetFrame(Location, Status, Location \div fs,
                        BaseAddr(Location, fs), BitNum(Location, fs), byte)
            /\ read' = fs
            /\ UNCHANGED <<phase, MaxPAddr>>
  <2>1. PICK fs \in FrameSizesRead \ {0} :
          \E byte \in ContainingByte(BaseAddr(Location, fs)) :
            /\ SetFrame(Location, Status, Location \div fs,
                        BaseAddr(Location, fs), BitNum(Location, fs), byte)
            /\ read' = fs
            /\ UNCHANGED <<phase, MaxPAddr>>
    BY <1>4
  <2> DEFINE b   == BaseAddr(Location, fs)
             bit == BitNum(Location, fs)
             number == Location \div fs
  <2>2. PICK byte \in ContainingByte(b) : SetFrame(Location, Status, number, b, bit, byte)
    BY <2>1
  <2>3. byte \in SUBSET Bits
    BY DEF ContainingByte, TypeOK
  <2>4. fs \in Nat \ {0}
    BY LayoutAssumption
  <2>5. number \in Nat /\ bit \in Bits
    BY <2>4, SelectFacts
  <2> HIDE DEF b, bit, number
  <2>6. BitmaskUsedFrames' \in [0 .. BufferSize -> SUBSET Bits]
    <3>1. \/ \E new \in SUBSET Bits : StoreByte(b, new)
          \/ UNCHANGED BitmaskUsedFrames
      BY <2>2, <2>3, <2>5 DEF SetFrame
    <3>2. QED BY <3>1 DEF StoreByte, TypeOK
  <2>7. released' \subseteq Nat
    BY <2>2, <2>5 DEF SetFrame, TypeOK
  <2>8. \E status \in {"SUCCESS", "MEMORY_ACCESS_VIOLATION"} :
           ret' = Answer("allocate", Location, status, Status)
    BY <2>2 DEF SetFrame
  <2>9. QED BY <1>1, <2>1, <2>4, <2>6, <2>7, <2>8 DEF TypeOK, Answer, Answers
<1>5. QED BY <1>2, <1>3, <1>4 DEF MmAllocatePhysFrame

(* MmLookupFreePhysFrame keeps the types.                                  *)
LEMMA LookupFreeTypeOK ==
    ASSUME TypeOK, MmLookupFreePhysFrame
    PROVE  TypeOK'
<1>1. PICK fs \in FrameSizesRead :
      /\ read' = fs
      /\ \/ \E n \in 0 .. 8 * BufferSize + 7 : FoundFree(n, fs)
         \/ \E PageBlock \in BufferSize + 1 .. MaxPAddr - 1, Bit \in Bits :
               ret' = Answer("lookupfree", fs * (8 * PageBlock + Bit), "SUCCESS", FALSE)
         \/ ret' = Answer("lookupfree", 0, "MEMORY_PAGE_FAILURE", FALSE)
  BY DEF MmLookupFreePhysFrame
<1>2. BufferSize \in Nat /\ fs \in Nat
  BY FrameBound, LayoutAssumption DEF TypeOK, BufferSize
<1>3. \/ \E loc \in Nat : ret' = Answer("lookupfree", loc, "SUCCESS", FALSE)
      \/ ret' = Answer("lookupfree", 0, "MEMORY_PAGE_FAILURE", FALSE)
  <2>1. ASSUME NEW n \in 0 .. 8 * BufferSize + 7
        PROVE  fs * n \in Nat
    BY <1>2
  <2>2. ASSUME NEW PageBlock \in BufferSize + 1 .. MaxPAddr - 1, NEW Bit \in Bits
        PROVE  fs * (8 * PageBlock + Bit) \in Nat
    BY <1>2 DEF Bits, TypeOK
  <2>3. QED BY <1>1, <2>1, <2>2 DEF FoundFree
<1>4. UNCHANGED <<phase, MaxPAddr, BitmaskUsedFrames, released>>
  BY DEF MmLookupFreePhysFrame
<1>5. ret' \in Answers
  <2>1. ASSUME NEW loc \in Nat
        PROVE  /\ Answer("lookupfree", loc, "SUCCESS", FALSE) \in Answers
               /\ Answer("lookupfree", 0, "MEMORY_PAGE_FAILURE", FALSE) \in Answers
    BY DEF Answer, Answers
  <2>2. QED BY <1>3, <2>1
<1>6. BufferSize' = BufferSize
  BY <1>4 DEF BufferSize
<1>7. QED BY <1>1, <1>2, <1>4, <1>5, <1>6 DEF TypeOK

(* MmLookupPhysFrame keeps the types.                                      *)
LEMMA LookupTypeOK ==
    ASSUME TypeOK, NEW Location \in Nat, MmLookupPhysFrame(Location)
    PROVE  TypeOK'
<1>1. CASE DivideByZero(Location)
  BY <1>1, DivideTypeOK
<1>2. CASE ~ DivideByZero(Location)
  <2>1. UNCHANGED <<phase, MaxPAddr, BitmaskUsedFrames, released>>
    BY <1>2 DEF MmLookupPhysFrame, Refuse
  <2>2. ret' \in Answers /\ read' \in Nat
    <3>1. CASE Refuse("lookup", Location, FALSE)
      BY <3>1, LayoutAssumption DEF Refuse, Answer, Answers
    <3>2. CASE ~ Refuse("lookup", Location, FALSE)
      <4>1. PICK fs \in FrameSizesRead \ {0} :
              \E byte \in ContainingByte(BaseAddr(Location, fs)) :
                /\ ret' = Answer("lookup", Location, "SUCCESS", BitNum(Location, fs) \in byte)
                /\ read' = fs
        BY <1>2, <3>2, Zenon DEF MmLookupPhysFrame
      <4>2. PICK byte \in ContainingByte(BaseAddr(Location, fs)) :
                /\ ret' = Answer("lookup", Location, "SUCCESS", BitNum(Location, fs) \in byte)
                /\ read' = fs
        BY <4>1, Zenon
      <4> DEFINE value == BitNum(Location, fs) \in byte
      <4>3. value \in BOOLEAN
        OBVIOUS
      <4>4. ret' = Answer("lookup", Location, "SUCCESS", value)
        BY <4>2, Zenon
      <4>5. read' \in Nat
        BY <4>2, LayoutAssumption
      <4> HIDE DEF value
      <4>6. QED BY <4>3, <4>4, <4>5 DEF Answer, Answers
    <3>3. QED BY <3>1, <3>2
  <2>3. BufferSize' = BufferSize
    BY <2>1 DEF BufferSize
  <2>4. QED BY <2>1, <2>2, <2>3 DEF TypeOK
<1>3. QED BY <1>1, <1>2

(* Every step keeps the types.                                             *)
LEMMA NextTypeOK == TypeOK /\ [Next]_vars => TypeOK'
<1> SUFFICES ASSUME TypeOK, [Next]_vars PROVE TypeOK'
  OBVIOUS
<1>1. ASSUME NEW map \in MemoryMaps, KiInitializeMemMgr(map) PROVE TypeOK'
  BY <1>1, StartTypeOK
<1>2. ASSUME NEW Location \in Locations, MmLookupPhysFrame(Location) PROVE TypeOK'
  BY <1>2, LookupTypeOK, MapAssumption
<1>3. ASSUME NEW Location \in Locations, NEW Status \in BOOLEAN,
             MmAllocatePhysFrame(Location, Status)
      PROVE  TypeOK'
  BY <1>3, AllocateTypeOK, MapAssumption
<1>4. CASE MmLookupFreePhysFrame
  BY <1>4, LookupFreeTypeOK
<1>5. CASE Hang \/ UNCHANGED vars
  BY <1>5 DEF Hang, vars, TypeOK, BufferSize
<1>6. QED BY <1>1, <1>2, <1>3, <1>4, <1>5 DEF Next

(* Type correctness, for every memory map and every layout: the bitmap of  *)
(* mmsetup.c always has the bytes that a call can select.                  *)
THEOREM TypeCorrect == Spec => []TypeOK
  BY InitTypeOK, NextTypeOK, PTL DEF Spec

-----------------------------------------------------------------------------

(* Which bytes and bits the frames of memory have. *)
LEMMA BitOfFrame ==
    ASSUME TypeOK, NEW f \in Frames
    PROVE  /\ f \in Nat
           /\ f \div 8 \in 0 .. BufferSize
           /\ f % 8 \in Bits
           /\ f = 8 * (f \div 8) + (f % 8)
<1>1. Frame(MaxPAddr) \in Nat /\ BufferSize = Frame(MaxPAddr) \div 8
  BY FrameBound DEF TypeOK, BufferSize
<1>2. f \in Nat /\ f <= Frame(MaxPAddr)
  BY <1>1 DEF Frames
<1>3. f \div 8 <= Frame(MaxPAddr) \div 8
  BY <1>1, <1>2
<1>4. QED BY <1>1, <1>2, <1>3 DEF Bits

(* A successful call changes the use of the frame it selects and no other. *)
LEMMA SetFrameUsed ==
    ASSUME TypeOK, NEW fs \in Nat \ {0}, NEW Location \in Nat, NEW Status \in BOOLEAN,
           NEW byte \in ContainingByte(BaseAddr(Location, fs)),
           SetFrame(Location, Status, Location \div fs,
                    BaseAddr(Location, fs), BitNum(Location, fs), byte),
           UNCHANGED MaxPAddr,
           NEW number, number = Location \div fs
    PROVE  \/ /\ number \in Frames => (Status <=> number \in Used)
              /\ Used' = Used /\ released' = released
              /\ ret' = Answer("allocate", Location, "MEMORY_ACCESS_VIOLATION", Status)
           \/ /\ ~ Status /\ (number \in Frames => number \in Used)
              /\ Used' = Used \ {number}
              /\ released' = released \cup {number}
              /\ ret' = Answer("allocate", Location, "SUCCESS", Status)
           \/ /\ Status /\ number \notin Used
              /\ Used' = Used \cup ({number} \cap Frames)
              /\ released' = released \ {number}
              /\ ret' = Answer("allocate", Location, "SUCCESS", Status)
<1> DEFINE b   == BaseAddr(Location, fs)
           bit == BitNum(Location, fs)
<1>1. Frames' = Frames
  BY DEF Frames
<1>2. number \in Nat /\ b = number \div 8 /\ bit = number % 8 /\ bit \in Bits
  BY SelectFacts
<1>3. SetFrame(Location, Status, number, b, bit, byte)
  OBVIOUS
<1>4. byte \in SUBSET Bits /\ (b \in 0 .. BufferSize => byte = BitmaskUsedFrames[b])
  BY DEF ContainingByte, TypeOK
<1> HIDE DEF b, bit
<1>5. ASSUME number \in Frames
      PROVE  b \in 0 .. BufferSize /\ (bit \in byte <=> number \in Used)
  BY <1>2, <1>4, <1>5, BitOfFrame DEF Used
<1>6. ASSUME NEW f \in Frames, f # number
      PROVE  f \div 8 = b => f % 8 # bit
  <2>1. number = 8 * (number \div 8) + (number % 8)
    BY <1>2
  <2>2. QED BY <1>2, <1>6, <2>1, BitOfFrame
<1>7. ASSUME NEW new \in SUBSET Bits, StoreByte(b, new), new \ {bit} = byte \ {bit}
      PROVE  Used' = {f \in Frames : IF f = number THEN bit \in new ELSE f \in Used}
  <2>1. CASE b \in 0 .. BufferSize
    <3>1. ASSUME NEW f \in Frames
          PROVE  /\ f \div 8 \in 0 .. BufferSize
                 /\ BitmaskUsedFrames'[f \div 8] =
                      IF f \div 8 = b THEN new ELSE BitmaskUsedFrames[f \div 8]
      BY <1>7, <2>1, BitOfFrame DEF StoreByte, TypeOK
    <3>2. ASSUME NEW f \in Frames
          PROVE  f % 8 \in BitmaskUsedFrames'[f \div 8]
                   <=> IF f = number THEN bit \in new ELSE f \in Used
      <4>1. CASE f = number
        BY <1>2, <3>1, <4>1
      <4>2. CASE f # number
        BY <1>4, <1>6, <1>7, <2>1, <3>1, <4>2 DEF Used
      <4>3. QED BY <4>1, <4>2
    <3>3. QED BY <1>1, <3>2 DEF Used
  <2>2. CASE b \notin 0 .. BufferSize
    <3>1. BitmaskUsedFrames' = BitmaskUsedFrames
      BY <1>7, <2>2 DEF StoreByte
    <3>2. number \notin Frames
      BY <1>5, <2>2
    <3>3. QED BY <1>1, <3>1, <3>2 DEF Used
  <2>3. QED BY <2>1, <2>2
<1>8. CASE /\ ~ Status /\ bit \in byte
           /\ StoreByte(b, byte \ {bit})
           /\ released' = released \cup {number}
           /\ ret' = Answer("allocate", Location, "SUCCESS", Status)
  <2>1. Used' = {f \in Frames : IF f = number THEN bit \in (byte \ {bit}) ELSE f \in Used}
    BY <1>4, <1>7, <1>8
  <2>2. Used' = Used \ {number}
    BY <2>1 DEF Used
  <2>3. QED BY <1>5, <1>8, <2>2
<1>9. CASE /\ Status /\ bit \notin byte
           /\ StoreByte(b, byte \cup {bit})
           /\ released' = released \ {number}
           /\ ret' = Answer("allocate", Location, "SUCCESS", Status)
  <2>1. Used' = {f \in Frames : IF f = number THEN bit \in (byte \cup {bit}) ELSE f \in Used}
    BY <1>2, <1>4, <1>7, <1>9
  <2>2. Used' = Used \cup ({number} \cap Frames)
    BY <2>1 DEF Used
  <2>3. number \notin Used
    BY <1>5, <1>9 DEF Used
  <2>4. QED BY <1>9, <2>2, <2>3
<1>10. CASE /\ Status <=> bit \in byte
            /\ ret' = Answer("allocate", Location, "MEMORY_ACCESS_VIOLATION", Status)
            /\ UNCHANGED <<BitmaskUsedFrames, released>>
  <2>1. Used' = Used
    BY <1>1, <1>10 DEF Used
  <2>2. QED BY <1>5, <1>10, <2>1
<1>11. QED BY <1>3, <1>8, <1>9, <1>10 DEF SetFrame

-----------------------------------------------------------------------------
(* The clear bits are the free frames and the bits of the last byte that   *)
(* stand for no frame.                                                     *)
LEMMA ClearBitsFacts ==
    ASSUME TypeOK
    PROVE  /\ \A f \in Frames : f \in ClearBits <=> f \notin Used
           /\ ClearBits \subseteq Nat
           /\ BufferSize \in Nat
           /\ Frame(MaxPAddr) \in Nat
           /\ Frame(MaxPAddr) <= 8 * BufferSize + 7
<1>1. /\ BufferSize \in Nat
      /\ Frame(MaxPAddr) \in Nat
      /\ Frame(MaxPAddr) <= 8 * BufferSize + 7
  BY FrameBound DEF TypeOK, BufferSize
<1>2. \A f \in Frames : f \in 0 .. 8 * BufferSize + 7
  BY <1>1 DEF Frames
<1>3. QED BY <1>1, <1>2 DEF ClearBits, Used

(* MmLookupFreePhysFrame offers the lowest free frame, or an address       *)
(* outside memory when there is none, as far as the frame size it read is  *)
(* concerned.                                                              *)
LEMMA LookupFreeAnswer ==
    ASSUME TypeOK, MmLookupFreePhysFrame
    PROVE  /\ read' \in FrameSizesRead
           /\ \/ \E f \in Frames \ Used :
                   /\ \A g \in Frames \ Used : f <= g
                   /\ ret' = Answer("lookupfree", read' * f, "SUCCESS", FALSE)
              \/ /\ Frames \subseteq Used
                 /\ \/ \E n \in Nat \ Frames :
                         ret' = Answer("lookupfree", read' * n, "SUCCESS", FALSE)
                    \/ ret' = Answer("lookupfree", 0, "MEMORY_PAGE_FAILURE", FALSE)
<1>0. read' \in FrameSizesRead
  BY DEF MmLookupFreePhysFrame
<1>1. CASE \E n \in 0 .. 8 * BufferSize + 7 : FoundFree(n, read')
  <2>1. PICK n \in 0 .. 8 * BufferSize + 7 : FoundFree(n, read')
    BY <1>1
  <2>2. /\ n \in ClearBits /\ n \in Nat
        /\ \A m \in ClearBits : m >= n
        /\ ret' = Answer("lookupfree", read' * n, "SUCCESS", FALSE)
    BY <2>1, ClearBitsFacts DEF FoundFree
  <2>3. \A g \in Frames \ Used : n <= g
    BY <2>2, ClearBitsFacts
  <2>4. CASE n \in Frames
    BY <1>0, <2>2, <2>3, <2>4, ClearBitsFacts
  <2>5. CASE n \notin Frames
    <3>1. Frame(MaxPAddr) < n
      BY <2>2, <2>5, ClearBitsFacts DEF Frames
    <3>2. Frames \subseteq Used
      BY <2>2, <2>3, <3>1, ClearBitsFacts DEF Frames
    <3>3. QED BY <1>0, <2>2, <2>5, <3>2
  <2>6. QED BY <2>4, <2>5
<1>2. CASE /\ ClearBits = {}
           /\ \/ \E PageBlock \in BufferSize + 1 .. MaxPAddr - 1, Bit \in Bits :
                   ret' = Answer("lookupfree", read' * (8 * PageBlock + Bit),
                                 "SUCCESS", FALSE)
              \/ ret' = Answer("lookupfree", 0, "MEMORY_PAGE_FAILURE", FALSE)
  <2>1. Frames \subseteq Used
    BY <1>2, ClearBitsFacts
  <2>2. ASSUME NEW PageBlock \in BufferSize + 1 .. MaxPAddr - 1, NEW Bit \in Bits
        PROVE  8 * PageBlock + Bit \in Nat \ Frames
    BY ClearBitsFacts DEF Frames, Bits, TypeOK
  <2>3. QED BY <1>0, <1>2, <2>1, <2>2
<1>3. QED BY <1>1, <1>2 DEF MmLookupFreePhysFrame

-----------------------------------------------------------------------------
(* An address of the range, whole frames from its start, is reached by the *)
(* marking loop.                                                           *)
LEMMA InLoop ==
    ASSUME NEW from \in Nat, NEW to \in Nat, NEW x \in from .. to - 1, (x - from) % FrameSize = 0
    PROVE  x \in LoopIndexes(from, to)
  BY Zenon DEF LoopIndexes

(* Start-up marks the kernel's frames, and the store of the Arena over the *)
(* byte behind the bitmap does not reach them when the heap fits.          *)
LEMMA StartReserves ==
    ASSUME TypeOK, NEW map \in MemoryMaps, KiInitializeMemMgr(map),
           phase' = "running", HeapFits'
    PROVE  KernelFrames' \subseteq Used'
<1> DEFINE max == MaximumPAddr(map)
           size == BufferSizeOf(max)
<1>1. PICK cleared \in ClearedBitmaps(max) :
         LET kernel  == Marked(cleared, max, KernelIndexes(max))
             marked  == MarkUsed(cleared, kernel)
             created == CreateAllocatorState(marked, max)
             heap    == Marked(created, max, HeapIndexes(max))
         IN  /\ MaxPAddr' = max
             /\ kernel = KernelIndexes(max)
             /\ BitmaskUsedFrames' = MarkUsed(created, heap)
  BY DEF KiInitializeMemMgr
<1> DEFINE marked  == MarkUsed(cleared, KernelIndexes(max))
           created == CreateAllocatorState(marked, max)
           heap    == Marked(created, max, HeapIndexes(max))
<1>2. MaxPAddr' = max /\ BitmaskUsedFrames' = MarkUsed(created, heap)
  BY <1>1
<1>3. max \in Nat /\ size \in Nat /\ size = Frame(max) \div 8 /\ Frame(max) \in Nat
  BY MaximumIsNat, FrameBound
<1>4. BufferSize' = size /\ Frames' = 0 .. Frame(max)
  BY <1>2 DEF BufferSize, Frames
<1>5. DOMAIN cleared = 0 .. size
  BY DEF ClearedBitmaps
<1> SUFFICES ASSUME NEW f \in KernelFrames' PROVE f \in Used'
  OBVIOUS
<1>6. PICK a \in kernel_start .. SafePMMArea + size - 1 : f = Frame(a)
  BY <1>4 DEF KernelFrames
<1>7. f \in 0 .. Frame(max) /\ f \in Nat /\ a \in Nat
  BY <1>3, <1>4, LayoutAssumption DEF KernelFrames
<1> DEFINE index == FrameSize * f
<1>8. index \in Nat /\ Frame(index) = f
  BY <1>7, FrameOfMultiple
<1> HIDE DEF index
<1>9. index \in KernelIndexes(max)
  <2>1. FrameSize \in Nat \ {0}
    BY LayoutAssumption
  <2>2. a % FrameSize \in 0 .. FrameSize - 1 /\ a = index + (a % FrameSize)
    BY <1>6, <1>7, <2>1, DivFacts DEF Frame, index
  <2>3. index <= a
    BY <1>7, <1>8, <2>1, <2>2
  <2> DEFINE k == kernel_start \div FrameSize
  <2>4. k \in Nat /\ kernel_start = FrameSize * k
    BY LayoutAssumption, DivFacts
  <2>5. k <= f
    BY <1>6, <1>7, <2>1, LayoutAssumption, DivMonotone DEF Frame
  <2> HIDE DEF k
  <2>6. f - k \in Nat /\ index - kernel_start = FrameSize * (f - k)
    BY <1>7, <2>1, <2>4, <2>5 DEF index
  <2>7. index - kernel_start \in Nat
    BY <2>1, <2>6
  <2>8. (index - kernel_start) % FrameSize = 0
    <3>1. index - kernel_start = FrameSize * (f - k) + 0 /\ 0 \in 0 .. FrameSize - 1
      BY <2>1, <2>6, <2>7
    <3>2. QED BY <2>1, <2>6, <2>7, <3>1, DivUnique
  <2>9. index \in kernel_start .. SafePMMArea + size - 1
    BY <1>3, <1>6, <1>7, <1>8, <2>3, <2>7, LayoutAssumption
  <2>10. index \in LoopIndexes(kernel_start, SafePMMArea + size)
    <3> DEFINE to == SafePMMArea + size
    <3>1. kernel_start \in Nat /\ to \in Nat
      BY <1>3, LayoutAssumption
    <3>2. index \in kernel_start .. to - 1
      BY <1>3, <1>8, <2>9, LayoutAssumption
    <3> HIDE DEF to
    <3>3. index \in LoopIndexes(kernel_start, to)
      BY <2>8, <3>1, <3>2, InLoop
    <3>4. QED BY <3>3 DEF to
  <2>11. QED BY <2>10 DEF KernelIndexes
<1>10. /\ BaseAddr(index, FrameSize) = f \div 8
       /\ BitNum(index, FrameSize) = f % 8
  BY <1>8, FrameFacts
<1>11. f \div 8 \in 0 .. size
  BY <1>3, <1>7
<1>12. f % 8 \in marked[f \div 8]
  BY <1>5, <1>9, <1>10, <1>11 DEF MarkUsed
<1>13. f \div 8 # size
  <2>1. FrameSize \in Nat \ {0} /\ 8 * FrameSize \in Nat \ {0}
    BY LayoutAssumption
  <2>2. SafePMMArea + size + FrameSize + HeapSize <= max
    BY <1>2, <1>3 DEF HeapFits, HeapAddrOf
  <2>3. a + 8 * FrameSize <= max
    BY <1>3, <1>6, <1>7, <2>1, <2>2, LayoutAssumption
  <2>4. (a + 8 * FrameSize) \div (8 * FrameSize) <= size
    BY <1>3, <1>7, <2>1, <2>3, DivMonotone DEF BufferSizeOf
  <2> DEFINE q == a \div (8 * FrameSize)
             r == a % (8 * FrameSize)
  <2>5. q \in Nat /\ r \in 0 .. 8 * FrameSize - 1 /\ a = (8 * FrameSize) * q + r
    BY <1>7, <2>1, DivFacts
  <2>6. q = f \div 8
    BY <1>6, <1>7, <2>1, DivDiv DEF Frame
  <2> HIDE DEF q, r
  <2>7. a + 8 * FrameSize = (8 * FrameSize) * (q + 1) + r
    BY <2>1, <2>5
  <2>8. (a + 8 * FrameSize) \div (8 * FrameSize) = q + 1
    BY <1>7, <2>1, <2>5, <2>7, DivUnique
  <2>9. QED BY <1>3, <2>4, <2>5, <2>6, <2>8
<1>14. DOMAIN created = 0 .. size /\ f % 8 \in created[f \div 8]
  BY <1>5, <1>11, <1>12, <1>13 DEF CreateAllocatorState, MarkUsed
<1>15. f % 8 \in BitmaskUsedFrames'[f \div 8]
  BY <1>2, <1>11, <1>14 DEF MarkUsed
<1>16. QED BY <1>4, <1>7, <1>15 DEF Used

(* No call on another frame touches the kernel's frames, and no kernel     *)
(* frame that is in use is offered as free.                                *)
LEMMA NextReserved ==
    ASSUME TypeOK, TypeOK', KernelStaysReserved, NoCallBeforeStart, [Next]_vars
    PROVE  KernelStaysReserved'
<1> SUFFICES ASSUME phase' = "running", HeapFits'
             PROVE  KernelStaysReserved'
  BY DEF KernelStaysReserved
<1>1. ASSUME NEW map \in MemoryMaps, KiInitializeMemMgr(map)
      PROVE  KernelStaysReserved'
  <2>1. KernelFrames' \subseteq Used'
    BY <1>1, StartReserves
  <2>2. ret'.op = "none"
    BY <1>1 DEF KiInitializeMemMgr, NoCallBeforeStart
  <2>3. QED BY <2>1, <2>2 DEF KernelStaysReserved
<1>2. ASSUME UNCHANGED <<phase, MaxPAddr>>
      PROVE  /\ phase = "running" /\ HeapFits
             /\ KernelFrames' = KernelFrames
             /\ Frames' = Frames
             /\ KernelFrames \ released \subseteq Used
  BY <1>2 DEF KernelStaysReserved, HeapFits, HeapAddrOf, BufferSizeOf,
              KernelFrames, Frames, BufferSize
<1>3. ASSUME NEW Location \in Nat, MmLookupPhysFrame(Location)
      PROVE  KernelStaysReserved'
  <2>1. UNCHANGED <<phase, MaxPAddr, BitmaskUsedFrames, released>> /\ ret'.op = "lookup"
    BY <1>3 DEF MmLookupPhysFrame, Refuse, DivideByZero, Answer
  <2>2. Used' = Used
    BY <1>2, <2>1 DEF Used
  <2>3. QED BY <1>2, <2>1, <2>2 DEF KernelStaysReserved
<1>4. ASSUME NEW Location \in Nat, NEW Status \in BOOLEAN,
             MmAllocatePhysFrame(Location, Status)
      PROVE  KernelStaysReserved'
  <2>1. CASE Refuse("allocate", Location, Status)
    <3>1. UNCHANGED <<phase, MaxPAddr, BitmaskUsedFrames, released>> /\ ret'.op = "allocate"
      BY <2>1 DEF Refuse, Answer
    <3>2. Used' = Used
      BY <1>2, <3>1 DEF Used
    <3>3. QED BY <1>2, <3>1, <3>2 DEF KernelStaysReserved
  <2>2. CASE ~ Refuse("allocate", Location, Status)
    <3>1. PICK fs \in FrameSizesRead \ {0} :
             \E byte \in ContainingByte(BaseAddr(Location, fs)) :
               /\ SetFrame(Location, Status, Location \div fs,
                           BaseAddr(Location, fs), BitNum(Location, fs), byte)
               /\ UNCHANGED <<phase, MaxPAddr>>
      BY <1>4, <2>2 DEF MmAllocatePhysFrame, DivideByZero
    <3>2. fs \in Nat \ {0}
      BY LayoutAssumption
    <3> DEFINE number == Location \div fs
    <3>3. /\ ret'.op = "allocate"
          /\ \/ Used' = Used /\ released' = released
             \/ Used' = Used \ {number} /\ released' = released \cup {number}
             \/ /\ Used' = Used \cup ({number} \cap Frames)
                /\ released' = released \ {number}
      BY <3>1, <3>2, SetFrameUsed DEF Answer
    <3> HIDE DEF number
    <3>4. KernelFrames \subseteq Frames
      BY DEF KernelFrames
    <3>5. KernelFrames \ released' \subseteq Used'
      BY <1>2, <3>1, <3>3, <3>4
    <3>6. QED BY <1>2, <3>1, <3>3, <3>5 DEF KernelStaysReserved
  <2>3. QED BY <2>1, <2>2
<1>5. ASSUME MmLookupFreePhysFrame
      PROVE  KernelStaysReserved'
  <2>1. UNCHANGED <<phase, MaxPAddr, BitmaskUsedFrames, released>>
    BY <1>5 DEF MmLookupFreePhysFrame
  <2>2. Used' = Used
    BY <1>2, <2>1 DEF Used
  <2>3. KernelFrames \subseteq Frames
    BY DEF KernelFrames
  <2>4. ASSUME NEW n \in Nat, n \notin Frames \cap Used, read' # 0,
               ret' = Answer("lookupfree", read' * n, "SUCCESS", FALSE)
        PROVE  ret'.Location \div read' \notin KernelFrames \ released
    <3>1. ret'.Location = read' * n
      BY <2>4 DEF Answer
    <3>2. read' \in Nat \ {0}
      BY <2>4 DEF TypeOK
    <3>3. (read' * n) \div read' = n
      BY <3>2, DivOfMultiple
    <3>4. QED BY <1>2, <2>1, <2>3, <2>4, <3>1, <3>3
  <2>5. ret'.status = "SUCCESS" /\ read' # 0
          => ret'.Location \div read' \notin KernelFrames \ released
    <3>1. Frames \subseteq Nat
      BY ClearBitsFacts DEF Frames
    <3>2. \/ \E n \in Nat : /\ n \notin Frames \cap Used
                            /\ ret' = Answer("lookupfree", read' * n, "SUCCESS", FALSE)
          \/ ret' = Answer("lookupfree", 0, "MEMORY_PAGE_FAILURE", FALSE)
      BY <1>5, <3>1, LookupFreeAnswer
    <3>3. QED BY <2>4, <3>2 DEF Answer
  <2>6. QED BY <1>2, <2>1, <2>2, <2>5 DEF KernelStaysReserved
<1>6. CASE Hang \/ UNCHANGED vars
  <2>1. UNCHANGED vars
    BY <1>6 DEF Hang
  <2>2. Used' = Used
    BY <1>2, <2>1 DEF Used, vars
  <2>3. QED BY <1>2, <2>1, <2>2 DEF KernelStaysReserved, vars
<1>7. QED BY <1>1, <1>3, <1>4, <1>5, <1>6, MapAssumption DEF Next, KernelStaysReserved

(* The frame calls do nothing before KiInitializeMemMgr.                   *)
LEMMA NextNoCall ==
    ASSUME NoCallBeforeStart, [Next]_vars
    PROVE  NoCallBeforeStart'
  BY DEF NoCallBeforeStart, Next, vars, KiInitializeMemMgr, MmLookupPhysFrame,
         MmAllocatePhysFrame, MmLookupFreePhysFrame, Refuse, DivideByZero, Hang

(* The frames that KiInitializeMemMgr took for the kernel stay in use, and *)
(* the search does not find them, unless a call that selected that very    *)
(* frame gave it back: whatever the calls read as the frame size.          *)
THEOREM KernelReserved == Spec => []KernelStaysReserved
<1>1. Init => KernelStaysReserved /\ NoCallBeforeStart
  BY DEF Init, KernelStaysReserved, NoCallBeforeStart, Answer
<1>2. /\ TypeOK /\ TypeOK' /\ KernelStaysReserved /\ NoCallBeforeStart /\ [Next]_vars
      => KernelStaysReserved' /\ NoCallBeforeStart'
  BY NextReserved, NextNoCall
<1>3. QED BY <1>1, <1>2, TypeCorrect, PTL DEF Spec

-----------------------------------------------------------------------------
(* Before start-up the bitmap is the empty set of used frames.             *)
LEMMA InitRefines == Init => FS!Init
<1> SUFFICES ASSUME Init PROVE FS!Init
  OBVIOUS
<1>1. TypeOK
  BY InitTypeOK
<1>2. Used = {}
  <2>1. BitmaskUsedFrames = [b \in {0} |-> {}] /\ MaxPAddr = 0
    BY DEF Init
  <2>2. BufferSize = 0
    <3>1. BitmaskUsedFrames \in [0 .. BufferSize -> SUBSET Bits]
      BY <1>1 DEF TypeOK
    <3>2. BufferSize \in Nat
      BY <1>1, ClearBitsFacts
    <3>3. DOMAIN BitmaskUsedFrames = {0} /\ DOMAIN BitmaskUsedFrames = 0 .. BufferSize
      BY <2>1, <3>1
    <3>4. BufferSize \in {0}
      BY <3>2, <3>3
    <3>5. QED BY <3>4
  <2>3. ASSUME NEW f \in Frames PROVE f \div 8 = 0
    BY <1>1, <2>2, BitOfFrame
  <2>4. QED BY <2>1, <2>3 DEF Used
<1>3. QED BY <1>2 DEF Init, FS!Init, Answer, FS!Answer

(* Every step that reads the true frame size is the step on the set of     *)
(* used frames with the same answer, or the search that offers an address  *)
(* past memory.                                                            *)
LEMMA NextRefines ==
    ASSUME TypeOK, TypeOK', [Next]_vars
    PROVE  [read' = FrameSize => FS!Next \/ OffersPastMemory]_(FS!vars)
<1> SUFFICES ASSUME read' = FrameSize, FS!vars' # FS!vars
             PROVE  FS!Next \/ OffersPastMemory
  OBVIOUS
<1> USE DEF FS!Answer, Answer
<1>0. FrameSize \in Nat \ {0}
  BY LayoutAssumption
<1>1. /\ FS!Frames = Frames
      /\ \A loc : FS!Frame(loc) = Frame(loc)
  BY DEF FS!Frames, Frames, FS!Frame, Frame
<1>2. ASSUME NEW map \in MemoryMaps, KiInitializeMemMgr(map)
      PROVE  FS!Next
  <2>1. phase = "boot" /\ phase' \in {"running", "stopped"} /\ UNCHANGED ret
    BY <1>2 DEF KiInitializeMemMgr
  <2>2. MaxPAddr' \in Nat
    BY DEF TypeOK
  <2>3. Used' \in SUBSET (0 .. Frame(MaxPAddr'))
    BY DEF Used, Frames
  <2>4. QED BY <1>1, <2>1, <2>2, <2>3 DEF FS!Next, FS!Start
<1>3. ASSUME NEW Location \in Locations, MmLookupPhysFrame(Location)
      PROVE  FS!Next
  <2>1. Location \in Nat
    BY MapAssumption
  <2>2. phase = "running" /\ UNCHANGED <<phase, MaxPAddr, BitmaskUsedFrames, released>>
    BY <1>0, <1>3 DEF MmLookupPhysFrame, Refuse, DivideByZero
  <2>3. Used' = Used
    BY <2>2 DEF Used, Frames
  <2>4. CASE Location > MaxPAddr
    <3>1. ret' = FS!Answer("lookup", Location, "INVALID_MEMORY_LOCATION", FALSE)
      <4>1. ~ (Location <= MaxPAddr)
        BY <2>1, <2>4 DEF TypeOK
      <4>2. QED BY <1>3, <4>1 DEF MmLookupPhysFrame, Refuse, DivideByZero
    <3>2. FS!Lookup(Location)
      BY <2>2, <2>3, <2>4, <3>1 DEF FS!Lookup
    <3>3. QED BY <3>2 DEF FS!Next
  <2>5. CASE ~ (Location > MaxPAddr)
    <3> DEFINE b == BaseAddr(Location, FrameSize)
               bit == BitNum(Location, FrameSize)
    <3>1. Location <= MaxPAddr
      BY <2>1, <2>5 DEF TypeOK
    <3>2. Frame(Location) \in Frames
      BY <2>1, <3>1, FrameInFrames DEF Frames, TypeOK
    <3>3. b = Frame(Location) \div 8 /\ bit = Frame(Location) % 8
      BY <2>1, FrameFacts
    <3>4. b \in 0 .. BufferSize
      BY <3>2, <3>3, BitOfFrame
    <3>5. ContainingByte(b) = {BitmaskUsedFrames[b]}
      BY <3>4 DEF ContainingByte
    <3> DEFINE value == bit \in BitmaskUsedFrames[b]
    <3>6. ret' = Answer("lookup", Location, "SUCCESS", value)
      <4>1. \E byte \in ContainingByte(b) :
              ret' = Answer("lookup", Location, "SUCCESS", bit \in byte)
        <5>1. ~ DivideByZero(Location)
          BY <1>0 DEF DivideByZero
        <5>2. QED BY <1>3, <2>5, <5>1, Zenon DEF MmLookupPhysFrame, Refuse
      <4>2. QED BY <3>5, <4>1, Zenon
    <3>7. value = (Frame(Location) \in Used)
      BY <3>2, <3>3 DEF Used
    <3>8. ret' = FS!Answer("lookup", Location, "SUCCESS", FS!Frame(Location) \in Used)
      BY <1>1, <3>6, <3>7, Zenon
    <3>9. FS!Lookup(Location)
      BY <2>2, <2>3, <2>5, <3>8, Zenon DEF FS!Lookup
    <3>10. QED BY <3>9 DEF FS!Next
  <2>6. QED BY <2>4, <2>5
<1>4. ASSUME NEW Location \in Locations, NEW Status \in BOOLEAN,
             MmAllocatePhysFrame(Location, Status)
      PROVE  FS!Next
  <2>1. Location \in Nat
    BY MapAssumption
  <2>2. phase = "running" /\ UNCHANGED <<phase, MaxPAddr>>
    BY <1>0, <1>4 DEF MmAllocatePhysFrame, Refuse, DivideByZero
  <2>3. CASE Refuse("allocate", Location, Status)
    <3>1. Location > MaxPAddr /\ Used' = Used
          /\ ret' = Answer("allocate", Location, "INVALID_MEMORY_LOCATION", Status)
      BY <2>3 DEF Refuse, Used, Frames
    <3>2. Status \/ ~ Status
      OBVIOUS
    <3>3. FS!Allocate(Location) \/ FS!Free(Location)
      BY <2>2, <3>1, <3>2 DEF FS!Allocate, FS!Free
    <3>4. QED BY <3>3 DEF FS!Next
  <2>4. CASE ~ Refuse("allocate", Location, Status)
    <3> DEFINE loc == Frame(Location)
    <3>1. PICK byte \in ContainingByte(BaseAddr(Location, FrameSize)) :
            /\ Location <= MaxPAddr
            /\ SetFrame(Location, Status, Location \div FrameSize,
                  BaseAddr(Location, FrameSize), BitNum(Location, FrameSize), byte)
      BY <1>0, <1>4, <2>4 DEF MmAllocatePhysFrame, DivideByZero
    <3>2. loc \in Frames
      BY <2>1, <3>1, FrameInFrames DEF Frames, TypeOK
    <3>3. loc = Location \div FrameSize
      BY DEF Frame
    <3> HIDE DEF loc
    <3>4. \/ /\ Status <=> loc \in Used
             /\ Used' = Used
             /\ ret' = Answer("allocate", Location, "MEMORY_ACCESS_VIOLATION", Status)
          \/ /\ ~ Status /\ loc \in Used
             /\ Used' = Used \ {loc}
             /\ ret' = Answer("allocate", Location, "SUCCESS", Status)
          \/ /\ Status /\ loc \notin Used
             /\ Used' = Used \cup {loc}
             /\ ret' = Answer("allocate", Location, "SUCCESS", Status)
      <4>1. {loc} \cap Frames = {loc}
        BY <3>2
      <4>2. QED BY <1>0, <2>1, <2>2, <3>1, <3>2, <3>3, <4>1, SetFrameUsed
    <3>5. CASE Status
      <4>1. FS!Allocate(Location)
        BY <1>1, <2>2, <3>1, <3>4, <3>5 DEF FS!Allocate, loc
      <4>2. QED BY <4>1 DEF FS!Next
    <3>6. CASE ~ Status
      <4>1. FS!Free(Location)
        BY <1>1, <2>2, <3>1, <3>4, <3>6 DEF FS!Free, loc
      <4>2. QED BY <4>1 DEF FS!Next
    <3>7. QED BY <3>5, <3>6
  <2>5. QED BY <2>3, <2>4
<1>5. CASE MmLookupFreePhysFrame
  <2>1. phase = "running" /\ UNCHANGED <<phase, MaxPAddr, BitmaskUsedFrames, released>>
    BY <1>5 DEF MmLookupFreePhysFrame
  <2>2. Used' = Used
    BY <2>1 DEF Used, Frames
  <2>3. CASE \E f \in Frames \ Used :
               /\ \A g \in Frames \ Used : f <= g
               /\ ret' = Answer("lookupfree", FrameSize * f, "SUCCESS", FALSE)
    <3>1. PICK f \in Frames \ Used :
               /\ \A g \in Frames \ Used : f <= g
               /\ ret' = Answer("lookupfree", FrameSize * f, "SUCCESS", FALSE)
      BY <2>3
    <3>2. FrameSize * f = f * FrameSize
      BY LayoutAssumption, BitOfFrame
    <3>3. FS!LookupFree
      BY <1>1, <2>1, <2>2, <3>1, <3>2 DEF FS!LookupFree
    <3>4. QED BY <3>3 DEF FS!Next
  <2>4. CASE /\ Frames \subseteq Used
             /\ \E n \in Nat \ Frames :
                  ret' = Answer("lookupfree", FrameSize * n, "SUCCESS", FALSE)
    <3>1. PICK n \in Nat \ Frames :
             ret' = Answer("lookupfree", FrameSize * n, "SUCCESS", FALSE)
      BY <2>4
    <3>2. ret'.Location \in Nat /\ Frame(ret'.Location) = n
      BY <3>1, FrameOfMultiple
    <3>3. ret' = Answer("lookupfree", ret'.Location, "SUCCESS", FALSE)
      BY <3>1
    <3>4. QED BY <2>1, <2>2, <2>4, <3>2, <3>3 DEF OffersPastMemory
  <2>5. CASE /\ Frames \subseteq Used
             /\ ret' = Answer("lookupfree", 0, "MEMORY_PAGE_FAILURE", FALSE)
    <3>1. FS!LookupFree
      BY <1>1, <2>1, <2>2, <2>5 DEF FS!LookupFree
    <3>2. QED BY <3>1 DEF FS!Next
  <2>6. QED BY <1>5, <2>3, <2>4, <2>5, LookupFreeAnswer
<1>6. CASE Hang \/ UNCHANGED vars
  BY <1>6 DEF Hang, vars, FS!vars, Used, Frames
<1>7. QED BY <1>2, <1>3, <1>4, <1>5, <1>6 DEF Next

(* The bitmap of mmsetup.c implements the set of used frames of FrameSet   *)
(* in every call that reads the true frame size, but for the search of a   *)
(* memory with no free frame, which may offer an address past its end.     *)
THEOREM Refinement == Spec => ImplementsFrameSet
<1>1. TypeOK /\ TypeOK' /\ [Next]_vars
      => [read' = FrameSize => FS!Next \/ OffersPastMemory]_(FS!vars)
  BY NextRefines
<1>2. QED BY <1>1, InitRefines, TypeCorrect, PTL DEF Spec, ImplementsFrameSet
=============================================================================
