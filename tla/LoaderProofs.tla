---------------------------- MODULE LoaderProofs ----------------------------
(* Proofs about Loader for machines of every size, every memory map of the *)
(* firmware and every kernel file.                                         *)
EXTENDS Loader, FiniteSetTheorems, WellFoundedInduction, TLAPS

-----------------------------------------------------------------------------
(* The runs of pages of one type. *)

(* The least-number principle, for sets. *)
LEMMA LeastNumber ==
    ASSUME NEW S \in SUBSET Nat, S # {}
    PROVE  \E m \in S : \A k \in S : m <= k
<1>1. PICK m \in S : \A k \in S : ~ (<<k, m>> \in OpToRel(<, Nat))
  BY NatLessThanWellFounded, WFMin
<1>2. \A k \in S : ~ (k < m)
  BY <1>1 DEF OpToRel
<1>3. QED BY <1>2

(* A machine has pages, and they are numbers. *)
LEMMA Pages ==
    /\ MemPages \in Nat /\ LimitPage \in Nat /\ 2 <= LimitPage /\ LimitPage <= MemPages
    /\ PageSet = 0 .. MemPages - 1 /\ PageSet \subseteq Nat
    /\ 0 \in PageSet /\ MemPages - 1 \in PageSet /\ None \notin PageSet
    /\ \A p \in 0 .. LimitPage - 1 : p \in PageSet
BY LoaderAssumption DEF PageSet, None

(* A run of pages around a page has a first page. *)
LEMMA RunStart ==
    ASSUME NEW t, NEW p \in PageSet
    PROVE  \E a \in PageSet : /\ a <= p /\ \A q \in a .. p : t[q] = t[p]
                              /\ a = 0 \/ t[a - 1] # t[p]
<1> DEFINE S == {a \in PageSet : a <= p /\ \A q \in a .. p : t[q] = t[p]}
<1>1. S \in SUBSET Nat /\ p \in S
  BY Pages
<1>2. PICK a \in S : \A k \in S : a <= k
  <2> HIDE DEF S
  <2>1. QED BY <1>1, LeastNumber
<1>3. ASSUME a # 0, t[a - 1] = t[p] PROVE FALSE
  <2>1. a - 1 \in PageSet /\ a - 1 <= p
    BY <1>2, <1>3, Pages
  <2>2. ASSUME NEW q \in (a - 1) .. p PROVE t[q] = t[p]
    <3>1. q = a - 1 \/ q \in a .. p
      BY <1>2, Pages
    <3>2. QED BY <1>2, <1>3, <3>1
  <2>3. a - 1 \in S
    BY <2>1, <2>2
  <2>4. QED BY <1>1, <1>2, <2>3
<1>4. QED BY <1>2, <1>3

(* A run of pages around a page has a last page. *)
LEMMA RunEnd ==
    ASSUME NEW t, NEW p \in PageSet
    PROVE  \E b \in PageSet : /\ p <= b /\ \A q \in p .. b : t[q] = t[p]
                              /\ b = MemPages - 1 \/ t[b + 1] # t[p]
<1> DEFINE S == {c \in Nat : /\ c <= MemPages - 1 - p
                             /\ \A q \in p .. MemPages - 1 - c : t[q] = t[p]}
<1>1. S \in SUBSET Nat /\ MemPages - 1 - p \in S
  BY Pages
<1>2. PICK c \in S : \A k \in S : c <= k
  <2> HIDE DEF S
  <2>1. QED BY <1>1, LeastNumber
<1> DEFINE b == MemPages - 1 - c
<1>3. b \in PageSet /\ p <= b /\ \A q \in p .. b : t[q] = t[p]
  BY <1>2, Pages
<1>4. ASSUME b # MemPages - 1, t[b + 1] = t[p] PROVE FALSE
  <2>1. c - 1 \in Nat /\ c - 1 <= MemPages - 1 - p /\ MemPages - 1 - (c - 1) = b + 1
    BY <1>2, <1>4, Pages
  <2>2. ASSUME NEW q \in p .. (b + 1) PROVE t[q] = t[p]
    <3>1. q = b + 1 \/ q \in p .. b
      BY <1>3, Pages
    <3>2. QED BY <1>3, <1>4, <3>1
  <2>3. c - 1 \in S
    BY <2>1, <2>2
  <2>4. QED BY <1>1, <1>2, <2>3
<1>5. QED BY <1>3, <1>4

(* Every page is in a run. *)
LEMMA RunsCover ==
    ASSUME NEW t \in [PageSet -> Kinds], NEW p \in PageSet
    PROVE  \E d \in Descriptors(t) : d.first <= p /\ p <= d.last
<1>1. PICK a \in PageSet : /\ a <= p /\ \A q \in a .. p : t[q] = t[p]
                           /\ a = 0 \/ t[a - 1] # t[p]
  BY RunStart
<1>2. PICK b \in PageSet : /\ p <= b /\ \A q \in p .. b : t[q] = t[p]
                           /\ b = MemPages - 1 \/ t[b + 1] # t[p]
  BY RunEnd
<1> DEFINE d == [Type |-> t[p], first |-> a, last |-> b]
<1>3. a \in Nat /\ p \in Nat /\ b \in Nat /\ a <= b
  BY <1>1, <1>2, Pages
<1>4. \A q \in a .. b : t[q] = t[p]
  <2>1. \A q \in a .. b : q \in a .. p \/ q \in p .. b
    BY <1>3
  <2>2. QED BY <1>1, <1>2, <2>1
<1>5. d \in Descriptor /\ d.Type = t[p] /\ d.first = a /\ d.last = b
  BY DEF Descriptor
<1> HIDE DEF d
<1>6. d \in Descriptors(t)
  BY <1>1, <1>2, <1>3, <1>4, <1>5 DEF Descriptors
<1>7. QED BY <1>1, <1>2, <1>5, <1>6

(* Two runs do not meet. *)
LEMMA RunsApart ==
    ASSUME NEW t, NEW d \in Descriptors(t), NEW e \in Descriptors(t), d # e
    PROVE  d.last < e.first \/ e.last < d.first
<1>1. ASSUME NEW f \in Descriptors(t)
      PROVE  /\ f \in Descriptor /\ f.first \in PageSet /\ f.last \in PageSet
             /\ f.first \in Nat /\ f.last \in Nat /\ f.first <= f.last
             /\ \A q \in f.first .. f.last : t[q] = f.Type
             /\ f.first = 0 \/ t[f.first - 1] # f.Type
             /\ f.last = MemPages - 1 \/ t[f.last + 1] # f.Type
  BY <1>1, Pages DEF Descriptors, Descriptor
<1>2. ASSUME NEW f \in Descriptors(t), NEW g \in Descriptors(t),
             f.first < g.first, g.first <= f.last
      PROVE  FALSE
  <2>1. g.first \in f.first .. f.last /\ g.first - 1 \in f.first .. f.last /\ g.first # 0
    BY <1>1, <1>2
  <2>2. t[g.first] = f.Type /\ t[g.first - 1] = f.Type /\ t[g.first] = g.Type
    BY <1>1, <2>1
  <2>3. QED BY <1>1, <2>1, <2>2
<1>3. ASSUME NEW f \in Descriptors(t), NEW g \in Descriptors(t),
             f.first = g.first, f.last < g.last
      PROVE  FALSE
  <2>1. /\ f.last \in g.first .. g.last /\ f.last + 1 \in g.first .. g.last
        /\ f.last # MemPages - 1 /\ f.last \in f.first .. f.last
    BY <1>1, <1>3, Pages
  <2>2. t[f.last] = g.Type /\ t[f.last + 1] = g.Type /\ t[f.last] = f.Type
    BY <1>1, <2>1
  <2>3. QED BY <1>1, <2>1, <2>2
<1>4. ASSUME d.first = e.first PROVE FALSE
  <2>1. d.last = e.last
    BY <1>1, <1>3, <1>4
  <2>2. d.first \in d.first .. d.last /\ e.first \in e.first .. e.last
    BY <1>1
  <2>3. d.Type = t[d.first] /\ e.Type = t[e.first]
    BY <1>1, <2>2
  <2>4. QED BY <1>1, <1>4, <2>1, <2>3 DEF Descriptor
<1>5. QED BY <1>1, <1>2, <1>4

(* The pages at which runs start. *)
Starts(t) == {p \in PageSet : p = 0 \/ t[p - 1] # t[p]}

(* There are as many runs as starts. *)
LEMMA CountRuns ==
    ASSUME NEW t \in [PageSet -> Kinds]
    PROVE  /\ IsFiniteSet(Descriptors(t)) /\ IsFiniteSet(Starts(t))
           /\ Cardinality(Descriptors(t)) = Cardinality(Starts(t))
           /\ Cardinality(Descriptors(t)) \in Nat
<1> DEFINE f == [d \in Descriptors(t) |-> d.first]
<1>1. IsFiniteSet(Starts(t))
  <2>1. IsFiniteSet(PageSet)
    BY Pages, FS_Interval
  <2>2. Starts(t) \in SUBSET PageSet
    BY DEF Starts
  <2>3. QED BY <2>1, <2>2, FS_Subset
<1>2. ASSUME NEW d \in Descriptors(t) PROVE d.first \in Starts(t)
  <2>1. /\ d.first \in PageSet /\ d.last \in PageSet /\ d.first <= d.last
        /\ \A q \in d.first .. d.last : t[q] = d.Type
        /\ d.first = 0 \/ t[d.first - 1] # d.Type
    BY DEF Descriptors, Descriptor
  <2>2. d.first \in d.first .. d.last
    BY <2>1, Pages
  <2>3. QED BY <2>1, <2>2 DEF Starts
<1>3. ASSUME NEW d \in Descriptors(t), NEW e \in Descriptors(t), d.first = e.first
      PROVE  d = e
  <2>1. d.first \in Nat /\ d.last \in Nat /\ e.last \in Nat
        /\ d.first <= d.last /\ e.first <= e.last
    BY Pages DEF Descriptors, Descriptor
  <2>2. QED BY <1>3, <2>1, RunsApart
<1>4. ASSUME NEW p \in Starts(t) PROVE \E d \in Descriptors(t) : d.first = p
  <2>1. p \in PageSet /\ p \in Nat /\ (p = 0 \/ t[p - 1] # t[p])
    BY Pages DEF Starts
  <2>2. PICK d \in Descriptors(t) : d.first <= p /\ p <= d.last
    BY <2>1, RunsCover
  <2>3. /\ d.first \in Nat /\ d.last \in Nat
        /\ \A q \in d.first .. d.last : t[q] = d.Type
    BY Pages DEF Descriptors, Descriptor
  <2>4. ASSUME d.first # p PROVE FALSE
    <3>1. p # 0 /\ p - 1 \in d.first .. d.last /\ p \in d.first .. d.last
      BY <2>1, <2>2, <2>3, <2>4
    <3>2. QED BY <2>1, <2>3, <3>1
  <2>5. QED BY <2>4
<1>5. f \in Bijection(Descriptors(t), Starts(t))
  <2>1. f \in [Descriptors(t) -> Starts(t)]
    BY <1>2
  <2>2. \A d, e \in Descriptors(t) : f[d] = f[e] => d = e
    BY <1>3
  <2>3. \A p \in Starts(t) : \E d \in Descriptors(t) : f[d] = p
    BY <1>4
  <2>4. QED BY <2>1, <2>2, <2>3 DEF Bijection, Injection, Surjection, IsInjective
<1>6. IsFiniteSet(Descriptors(t))
  BY <1>1, <1>5, FS_Injection DEF Bijection
<1>7. Cardinality(Descriptors(t)) = Cardinality(Starts(t))
  BY <1>5, <1>6, FS_Bijection DEF ExistsBijection
<1>8. QED BY <1>1, <1>6, <1>7, FS_CardinalityType

(* Giving out one page splits one run into three at most. *)
LEMMA OneMoreBuffer ==
    ASSUME NEW t \in [PageSet -> Kinds], NEW p \in PageSet, NEW k \in Kinds,
           NEW u, u = [t EXCEPT ![p] = k]
    PROVE  /\ u \in [PageSet -> Kinds]
           /\ Cardinality(Descriptors(u)) <= Cardinality(Descriptors(t)) + Spare
<1>1. u \in [PageSet -> Kinds] /\ \A q \in PageSet : q # p => u[q] = t[q]
  OBVIOUS
<1> DEFINE S1 == Starts(t) \cup {p}
           S2 == S1 \cup {p + 1}
<1>2. Starts(u) \in SUBSET S2
  <2> SUFFICES ASSUME NEW q \in Starts(u), q # p, q # p + 1 PROVE q \in Starts(t)
    OBVIOUS
  <2>1. q \in PageSet /\ (q = 0 \/ u[q - 1] # u[q])
    BY DEF Starts
  <2>2. q = 0 \/ (q - 1 \in PageSet /\ q - 1 # p)
    BY <2>1, Pages
  <2>3. q = 0 \/ t[q - 1] # t[q]
    BY <1>1, <2>1, <2>2
  <2>4. QED BY <2>1, <2>3 DEF Starts
<1>3. IsFiniteSet(Starts(t)) /\ Cardinality(Starts(t)) \in Nat
  BY CountRuns
<1>4. IsFiniteSet(S1) /\ Cardinality(S1) \in Nat /\ Cardinality(S1) <= Cardinality(Starts(t)) + 1
  <2>1. /\ IsFiniteSet(S1)
        /\ Cardinality(S1) = IF p \in Starts(t) THEN Cardinality(Starts(t))
                             ELSE Cardinality(Starts(t)) + 1
    BY <1>3, FS_AddElement
  <2>2. QED BY <1>3, <2>1
<1> HIDE DEF S1
<1>5. IsFiniteSet(S2) /\ Cardinality(S2) \in Nat /\ Cardinality(S2) <= Cardinality(S1) + 1
  <2>1. /\ IsFiniteSet(S2)
        /\ Cardinality(S2) = IF p + 1 \in S1 THEN Cardinality(S1) ELSE Cardinality(S1) + 1
    BY <1>4, FS_AddElement
  <2>2. QED BY <1>4, <2>1
<1> HIDE DEF S2
<1>6. Cardinality(Starts(u)) <= Cardinality(S2)
  BY <1>2, <1>5, FS_Subset
<1>7. Cardinality(Starts(u)) \in Nat
  BY <1>1, CountRuns
<1>8. Cardinality(Starts(u)) <= Cardinality(Starts(t)) + 2
  BY <1>3, <1>4, <1>5, <1>6, <1>7
<1>9. QED BY <1>1, <1>8, CountRuns DEF Spare

-----------------------------------------------------------------------------
(* The inductive invariant.  The parts of uefi_main are ordered by what    *)
(* has been done when they are reached.                                    *)

AfterEnv == {"fill", "exit", "blank", "kernel"}
AfterRanges == {"env"} \cup AfterEnv
AfterMap == {"getmap", "ranges"} \cup AfterRanges
AfterLoop == {"mapsize", "mapbuffer"} \cup AfterMap
Loop == {"segments", "copy"}
Early == {"locate", "displays"}
Parts == Early \cup {"framebuffers", "protocols", "header"} \cup Loop \cup AfterLoop
           \cup {"returned", "reset", "fault"}
Places == (0 .. LimitPage - 1) \cup {None}
LocalFields == {"NumDisplays", "MapSize", "MapKey", "DescriptorSize", "map", "ranges", "Rows"}

(* The types, the loop counter and the number of allocations so far. *)
StateInv ==
    /\ pc \in Parts /\ types \in [PageSet -> Kinds] /\ buf \in [Buffers -> Places]
    /\ image \in Images /\ header \in Headers
    /\ DOMAIN content = PageSet /\ DOMAIN local = LocalFields
    /\ Index \in Nat /\ Index <= image.e_phoff /\ Index < IndexRange
    /\ PHdrSize \in {0, 1} /\ local.Rows \in 0 .. MaxRows
    /\ pc \in Early \cup {"framebuffers", "protocols", "header"} => Index = 0 /\ PHdrSize = 1
    /\ pc = "copy" => Index < image.e_phoff
    /\ pc \in AfterLoop => Index = image.e_phoff

KeyInv ==
    /\ key \in 1 .. 5
    /\ pc \in Early => key = 1
    /\ pc \notin AfterMap => key <= 2
    /\ pc \notin AfterRanges => key <= 3
    /\ pc \notin AfterEnv => key <= 4

(* Each buffer is allocated once, and in memory that was free. *)
BufferInv ==
    /\ IF pc \in AfterMap THEN buf["map"] \in PageSet ELSE buf["map"] = None
    /\ IF pc \in AfterRanges THEN buf["ranges"] \in PageSet ELSE buf["ranges"] = None
    /\ pc \notin AfterEnv => buf["env"] = None
    /\ "memory" \notin ignored =>
         /\ pc \in AfterMap => types[buf["map"]] = "runtime"
         /\ pc \in AfterRanges =>
              types[buf["ranges"]] = "runtime" /\ buf["ranges"] # buf["map"]
         /\ pc \in AfterEnv => buf["env"] \notin {buf["map"], buf["ranges"]}

(* The map still describes every page but those allocated after it. *)
Describes(t) ==
    /\ local.map = Descriptors(t)
    /\ \A p \in PageSet : types[p] = t[p] \/ p \in {buf["ranges"], buf["env"]}

(* The map fits, and the ranges are made from it. *)
MapInv ==
    /\ "map" \notin ignored
    /\ pc = "mapbuffer" => local.MapSize = Cardinality(Descriptors(types)) + Spare
    /\ pc = "getmap" =>
         local.MapSize \in Nat /\ Cardinality(Descriptors(types)) <= local.MapSize
    /\ pc \in AfterMap \ {"getmap"} =>
         /\ local.MapSize = Cardinality(local.map)
         /\ \E t \in [PageSet -> Kinds] : Describes(t)
    /\ pc \in {"mapbuffer"} \cup AfterMap => local.DescriptorSize \in DescriptorSizes
    /\ pc \in {"exit", "blank", "kernel"} /\ "memory" \notin ignored =>
         IF local.DescriptorSize = SizeOf THEN local.ranges = {RangeOf(d) : d \in local.map}
         ELSE local.MapSize > 1 => Garbage \in local.ranges

IInv == StateInv /\ KeyInv /\ BufferInv /\ MapInv

(* The machine when uefi_main is called. *)
LEMMA InitIInv == Init => IInv
<1> SUFFICES ASSUME Init PROVE IInv
  OBVIOUS
<1>1. /\ image \in Images /\ types \in [PageSet -> Kinds] /\ header \in Headers
      /\ image.e_phoff \in Nat /\ IndexRange \in Nat /\ 0 < IndexRange /\ MaxRows \in Nat
  BY LoaderAssumption DEF Init
<1>2. buf \in [Buffers -> Places] /\ \A b \in Buffers : buf[b] = None
  BY DEF Init, Places
<1>3. StateInv
  BY <1>1, <1>2 DEF Init, StateInv, Parts, Early, Loop, LocalFields, AfterLoop, AfterMap,
     AfterRanges, AfterEnv
<1>4. KeyInv /\ BufferInv /\ MapInv
  BY <1>2 DEF Init, KeyInv, BufferInv, MapInv, Buffers, AfterMap, AfterRanges, AfterEnv
<1>5. QED BY <1>3, <1>4 DEF IInv

-----------------------------------------------------------------------------
(* Every step keeps it. *)

(* What an allocation does: it takes a free page, or the page below the    *)
(* limit when there is none.                                               *)
Allocated(b, p) ==
    /\ buf' = [buf EXCEPT ![b] = p]
    /\ \/ /\ types[p] = "free" /\ types' = [types EXCEPT ![p] = "runtime"]
          /\ key' = key + 1 /\ ignored' = ignored
       \/ types' = types /\ key' = key /\ ignored' = ignored \cup {"memory"}

(* EfiAllocMaxAddr gives a page below the limit in either case. *)
LEMMA AllocOK ==
    ASSUME StateInv, NEW b \in Buffers, EfiAllocMaxAddr(b)
    PROVE  /\ \E p \in 0 .. LimitPage - 1 : Allocated(b, p)
           /\ types' \in [PageSet -> Kinds] /\ buf' \in [Buffers -> Places]
           /\ Cardinality(Descriptors(types')) <= Cardinality(Descriptors(types)) + Spare
<1>1. types \in [PageSet -> Kinds] /\ buf \in [Buffers -> Places] /\ "runtime" \in Kinds
  BY DEF StateInv, Kinds
<1>2. PICK p \in 0 .. LimitPage - 1 : Allocated(b, p)
  <2>1. CASE Suitable = {}
    <3>1. LimitPage - 1 \in 0 .. LimitPage - 1
      BY Pages
    <3>2. QED BY <2>1, <3>1 DEF EfiAllocMaxAddr, Ignore, Allocated
  <2>2. CASE Suitable # {}
    <3>1. PICK p \in Suitable : /\ buf' = [buf EXCEPT ![b] = p]
                                /\ types' = [types EXCEPT ![p] = "runtime"]
                                /\ key' = key + 1 /\ ignored' = ignored
      BY <2>2 DEF EfiAllocMaxAddr
    <3>2. p \in 0 .. LimitPage - 1 /\ types[p] = "free"
      BY Pages DEF Suitable
    <3>3. QED BY <3>1, <3>2 DEF Allocated
  <2>3. QED BY <2>1, <2>2
<1>3. p \in PageSet /\ p \in Places
  BY Pages DEF Places
<1>4. buf' \in [Buffers -> Places]
  BY <1>1, <1>2, <1>3 DEF Allocated
<1>5. CASE types' = types
  <2>1. Cardinality(Descriptors(types)) \in Nat
    BY <1>1, CountRuns
  <2>2. QED BY <1>1, <1>2, <1>4, <1>5, <2>1 DEF Spare
<1>6. CASE types' = [types EXCEPT ![p] = "runtime"]
  BY <1>1, <1>2, <1>3, <1>4, <1>6, OneMoreBuffer
<1>7. QED BY <1>2, <1>5, <1>6 DEF Allocated

(* Index counts up, and wraps. *)
LEMMA NextIndex ==
    ASSUME NEW n \in Nat, NEW i \in Nat, i < n
    PROVE  /\ i + 1 < n => (i + 1) % n = i + 1
           /\ (i + 1) % n \in {0, i + 1} /\ (i + 1) % n < n
<1>1. CASE i + 1 < n
  BY <1>1
<1>2. CASE i + 1 = n
  BY <1>2
<1>3. QED BY <1>1, <1>2

(* The types and the counter. *)
LEMMA StateNext == ASSUME IInv, Next PROVE StateInv'
<1>1. StateInv
  BY DEF IInv
<1>2. /\ image.e_phoff \in Nat /\ image.slots \in Seq(Headers)
      /\ IndexRange \in Nat /\ 0 < IndexRange /\ MaxRows \in Nat
  BY <1>1, LoaderAssumption DEF StateInv
<1> USE DEF StateInv, Go, firmware, file, Parts, Early, Loop, AfterLoop, AfterMap,
            AfterRanges, AfterEnv, LocalFields
<1>3. CASE LocateDisplays
  BY <1>1, <1>3 DEF LocateDisplays
<1>4. CASE AllocateDisplays
  BY <1>1, <1>4, AllocOK DEF AllocateDisplays, Buffers
<1>5. CASE SetupEfiFramebufferData
  BY <1>1, <1>5 DEF SetupEfiFramebufferData
<1>6. CASE OpenKernelFile
  BY <1>1, <1>6 DEF OpenKernelFile
<1>7. CASE ReadElfHeader
  BY <1>1, <1>7 DEF ReadElfHeader
<1>8. CASE LoadSegment
  <2>1. header' \in Headers
    <3>1. CASE header' = header
      BY <1>1, <3>1
    <3>2. CASE header' # header
      <4>1. Index < Len(image.slots) /\ header' = image.slots[Index + 1]
        BY <1>8, <3>2 DEF LoadSegment, HeaderRead
      <4>2. Index + 1 \in 1 .. Len(image.slots)
        BY <1>1, <1>2, <4>1
      <4>3. QED BY <1>2, <4>1, <4>2
    <3>3. QED BY <3>1, <3>2
  <2>2. PHdrSize' \in {0, 1}
    BY <1>1, <1>8 DEF LoadSegment, HeaderRead
  <2>3. QED BY <1>1, <1>2, <1>8, <2>1, <2>2 DEF LoadSegment, LoopEnds
<1>9. CASE PlaceSegment
  <2>1. /\ UNCHANGED <<types, buf, image, header, PHdrSize, local>> /\ pc = "copy"
        /\ \/ pc' \in {"reset", "fault"} /\ Index' = Index
           \/ pc' = "segments" /\ Index' \in {0, Index + 1} /\ Index' < IndexRange
    BY <1>1, <1>2, <1>9, NextIndex DEF PlaceSegment
  <2>2. DOMAIN content' = PageSet
    BY <1>1, <1>9 DEF PlaceSegment, CopySegment
  <2>3. QED BY <1>1, <1>2, <2>1, <2>2
<1>10. CASE CloseFile
  BY <1>1, <1>2, <1>10 DEF CloseFile, LoopEnds
<1>11. CASE GetMapSize
  BY <1>1, <1>11 DEF GetMapSize
<1>12. CASE AllocateMap
  BY <1>1, <1>12, AllocOK DEF AllocateMap, Buffers
<1>13. CASE GetMemoryMap
  BY <1>1, <1>13 DEF GetMemoryMap
<1>14. CASE AllocateRanges
  BY <1>1, <1>14, AllocOK DEF AllocateRanges, Buffers
<1>15. CASE AllocateEnvBlock
  BY <1>1, <1>15, AllocOK DEF AllocateEnvBlock, Buffers
<1>16. CASE FillRanges
  BY <1>1, <1>16 DEF FillRanges
<1>17. CASE ExitBootServices
  BY <1>1, <1>17 DEF ExitBootServices
<1>18. CASE BlankScreen
  <2>1. \/ local' = local
        \/ local' = [local EXCEPT !.Rows = local.Rows - 1] /\ local.Rows > 0
    BY <1>18 DEF BlankScreen
  <2>2. DOMAIN local' = LocalFields /\ local'.Rows \in 0 .. MaxRows
    BY <1>1, <1>2, <2>1
  <2>3. QED BY <1>1, <1>18, <2>2 DEF BlankScreen
<1>19. CASE Halt
  BY <1>1, <1>19 DEF Halt, vars
<1>20. QED
  BY <1>3, <1>4, <1>5, <1>6, <1>7, <1>8, <1>9, <1>10, <1>11, <1>12, <1>13, <1>14, <1>15,
     <1>16, <1>17, <1>18, <1>19 DEF Next, Step

(* What the steps without an allocation leave alone. *)
LEMMA OtherSteps ==
    ASSUME Next, ~ AllocateDisplays, ~ AllocateMap, ~ AllocateRanges, ~ AllocateEnvBlock
    PROVE  /\ UNCHANGED <<types, key, buf>>
           /\ pc \in AfterMap <=> pc' \in AfterMap
           /\ pc \in AfterRanges <=> pc' \in AfterRanges
           /\ pc \in AfterEnv <=> pc' \in AfterEnv
           /\ pc' \in Early => pc \in Early
           /\ "memory" \in ignored' <=> "memory" \in ignored
<1> USE DEF Go, firmware, file, Early, AfterMap, AfterRanges, AfterEnv
<1>1. CASE LocateDisplays \/ SetupEfiFramebufferData \/ OpenKernelFile \/ ReadElfHeader
  BY <1>1 DEF LocateDisplays, SetupEfiFramebufferData, OpenKernelFile, ReadElfHeader, Ignore
<1>2. CASE LoadSegment \/ PlaceSegment \/ CloseFile
  BY <1>2 DEF LoadSegment, HeaderRead, PlaceSegment, CopySegment, CloseFile, Ignore
<1>3. CASE GetMapSize \/ GetMemoryMap
  BY <1>3 DEF GetMapSize, GetMemoryMap
<1>4. CASE FillRanges \/ ExitBootServices \/ BlankScreen \/ Halt
  BY <1>4 DEF FillRanges, ExitBootServices, BlankScreen, Halt, vars
<1>5. QED BY <1>1, <1>2, <1>3, <1>4 DEF Next, Step

(* The key changes once with each of the four allocations. *)
LEMMA KeyNext == ASSUME IInv, Next PROVE KeyInv'
<1>1. StateInv /\ KeyInv
  BY DEF IInv
<1> USE DEF KeyInv, Early, AfterMap, AfterRanges, AfterEnv
<1>2. ASSUME NEW b \in Buffers, EfiAllocMaxAddr(b) PROVE key' = key \/ key' = key + 1
  BY <1>1, <1>2, AllocOK DEF Allocated
<1>3. CASE AllocateDisplays
  BY <1>1, <1>2, <1>3 DEF AllocateDisplays, Go, Buffers
<1>4. CASE AllocateMap
  BY <1>1, <1>2, <1>4 DEF AllocateMap, Go, Buffers
<1>5. CASE AllocateRanges
  BY <1>1, <1>2, <1>5 DEF AllocateRanges, Go, Buffers
<1>6. CASE AllocateEnvBlock
  BY <1>1, <1>2, <1>6 DEF AllocateEnvBlock, Go, Buffers
<1>7. CASE ~ AllocateDisplays /\ ~ AllocateMap /\ ~ AllocateRanges /\ ~ AllocateEnvBlock
  <2>1. /\ key' = key
        /\ pc \in AfterMap => pc' \in AfterMap
        /\ pc \in AfterRanges => pc' \in AfterRanges
        /\ pc \in AfterEnv => pc' \in AfterEnv
        /\ pc' \in Early => pc \in Early
    BY <1>7, OtherSteps
  <2>2. QED BY <1>1, <2>1
<1>8. QED BY <1>3, <1>4, <1>5, <1>6, <1>7

(* A buffer is never given out twice. *)
LEMMA BufferNext == ASSUME IInv, Next PROVE BufferInv'
<1>1. StateInv /\ BufferInv /\ types \in [PageSet -> Kinds] /\ buf \in [Buffers -> Places]
  BY DEF IInv, StateInv
<1> USE DEF BufferInv, AfterMap, AfterRanges, AfterEnv
<1>2. ASSUME NEW b \in Buffers, NEW p \in 0 .. LimitPage - 1, Allocated(b, p),
             "memory" \notin ignored'
      PROVE  /\ "memory" \notin ignored /\ types'[p] = "runtime" /\ types[p] = "free"
             /\ \A q \in PageSet : types[q] = "runtime" => types'[q] = "runtime" /\ q # p
  BY <1>1, <1>2, Pages DEF Allocated
<1>3. CASE AllocateDisplays
  <2>1. PICK p \in 0 .. LimitPage - 1 : Allocated("displays", p)
    BY <1>1, <1>3, AllocOK DEF AllocateDisplays, Buffers
  <2>2. buf'["map"] = None /\ buf'["ranges"] = None /\ buf'["env"] = None
    BY <1>1, <1>3, <2>1 DEF AllocateDisplays, Allocated, Buffers
  <2>3. QED BY <1>3, <2>2 DEF AllocateDisplays, Go
<1>4. CASE AllocateMap
  <2>1. PICK p \in 0 .. LimitPage - 1 : Allocated("map", p)
    BY <1>1, <1>4, AllocOK DEF AllocateMap, Buffers
  <2>2. buf'["map"] = p /\ buf'["ranges"] = None /\ buf'["env"] = None /\ p \in PageSet
    BY <1>1, <1>4, <2>1, Pages DEF AllocateMap, Allocated, Buffers
  <2>3. QED BY <1>2, <1>4, <2>1, <2>2 DEF AllocateMap, Go, Buffers
<1>5. CASE AllocateRanges
  <2>1. PICK p \in 0 .. LimitPage - 1 : Allocated("ranges", p)
    BY <1>1, <1>5, AllocOK DEF AllocateRanges, Buffers
  <2>2. /\ buf'["map"] = buf["map"] /\ buf'["ranges"] = p /\ buf'["env"] = None
        /\ p \in PageSet
    BY <1>1, <1>5, <2>1, Pages DEF AllocateRanges, Allocated, Buffers
  <2>3. pc = "ranges" /\ pc' = "env"
    BY <1>5 DEF AllocateRanges, Go
  <2>4. buf["map"] \in PageSet /\ ("memory" \notin ignored => types[buf["map"]] = "runtime")
    BY <1>1, <2>3
  <2>5. ASSUME "memory" \notin ignored'
        PROVE  /\ types'[buf'["map"]] = "runtime" /\ types'[buf'["ranges"]] = "runtime"
               /\ buf'["ranges"] # buf'["map"]
    <3>1. /\ "memory" \notin ignored /\ types'[p] = "runtime"
          /\ \A q \in PageSet : types[q] = "runtime" => types'[q] = "runtime" /\ q # p
      BY <1>2, <2>1, <2>5 DEF Buffers
    <3>2. QED BY <2>2, <2>4, <3>1
  <2>6. QED BY <2>2, <2>3, <2>4, <2>5
<1>6. CASE AllocateEnvBlock
  <2>1. PICK p \in 0 .. LimitPage - 1 : Allocated("env", p)
    BY <1>1, <1>6, AllocOK DEF AllocateEnvBlock, Buffers
  <2>2. buf'["map"] = buf["map"] /\ buf'["ranges"] = buf["ranges"] /\ buf'["env"] = p
    BY <1>1, <1>6, <2>1 DEF AllocateEnvBlock, Allocated, Buffers
  <2>3. QED BY <1>1, <1>2, <1>6, <2>1, <2>2 DEF AllocateEnvBlock, Go, Buffers
<1>7. CASE ~ AllocateDisplays /\ ~ AllocateMap /\ ~ AllocateRanges /\ ~ AllocateEnvBlock
  <2>1. /\ types' = types /\ buf' = buf
        /\ pc \in AfterMap <=> pc' \in AfterMap
        /\ pc \in AfterRanges <=> pc' \in AfterRanges
        /\ pc \in AfterEnv <=> pc' \in AfterEnv
        /\ "memory" \in ignored' <=> "memory" \in ignored
    BY <1>7, OtherSteps
  <2>2. QED BY <1>1, <2>1
<1>8. QED BY <1>3, <1>4, <1>5, <1>6, <1>7

(* With descriptors of the size of the structure the loop over the map     *)
(* comes to each of them once.                                             *)
LEMMA EveryOneIsRead ==
    ASSUME NEW t \in [PageSet -> Kinds], local.map = Descriptors(t),
           local.MapSize = Cardinality(local.map), local.DescriptorSize = SizeOf,
           NEW d \in local.map
    PROVE  IsRead(d)
<1> DEFINE Before == {e \in local.map : e.first < d.first}
<1>1. IsFiniteSet(local.map) /\ Cardinality(local.map) \in Nat
  BY CountRuns
<1>2. d.first \in Nat
  BY Pages DEF Descriptors, Descriptor
<1>3. Before \in SUBSET local.map /\ Before # local.map
  BY <1>2
<1>4. /\ IsFiniteSet(Before) /\ Cardinality(Before) \in Nat
      /\ Cardinality(Before) <= Cardinality(local.map)
      /\ Cardinality(Before) # Cardinality(local.map)
  <2> HIDE DEF Before
  <2>1. QED BY <1>1, <1>3, FS_Subset, FS_CardinalityType
<1>5. Position(d) \in Nat /\ Position(d) < local.MapSize
  <2>1. Position(d) = Cardinality(Before)
    BY DEF Position
  <2> HIDE DEF Before
  <2>2. QED BY <1>1, <1>4, <2>1
<1>6. Position(d) \in Iterators
  BY <1>1, <1>5 DEF Iterators
<1>7. QED BY <1>6 DEF IsRead

(* Nor does it come to anything else. *)
LEMMA NoneFallsBetween ==
    ASSUME local.DescriptorSize = SizeOf, NEW i \in Iterators
    PROVE  ~ FallsBetween(i)
<1>1. i \in Nat /\ i \in 0 .. i
  BY DEF Iterators
<1>2. QED BY <1>1 DEF FallsBetween

(* With larger descriptors the second iteration falls between the first    *)
(* two of them.                                                            *)
LEMMA SecondFallsBetween ==
    ASSUME local.DescriptorSize \in DescriptorSizes, local.DescriptorSize # SizeOf,
           local.MapSize \in Nat, local.MapSize > 1
    PROVE  1 \in Iterators /\ FallsBetween(1)
<1>1. /\ SizeOf \in Nat \ {0} /\ local.DescriptorSize \in Nat
      /\ SizeOf < local.DescriptorSize
  BY LoaderAssumption
<1>2. 1 \in Iterators
  BY DEF Iterators
<1>3. \A k \in 0 .. 1 : k = 0 \/ k = 1
  OBVIOUS
<1>4. SizeOf * 1 # local.DescriptorSize * 0 /\ SizeOf * 1 # local.DescriptorSize * 1
  BY <1>1
<1>5. QED BY <1>2, <1>3, <1>4 DEF FallsBetween

(* The map of the firmware fits into its buffer, and stays true. *)
LEMMA MapNext == ASSUME IInv, Next PROVE MapInv'
<1>1. /\ StateInv /\ BufferInv /\ MapInv /\ DOMAIN local = LocalFields
      /\ types \in [PageSet -> Kinds] /\ buf \in [Buffers -> Places]
  BY DEF IInv, StateInv
<1>2. Cardinality(Descriptors(types)) \in Nat
  BY <1>1, CountRuns
<1> USE DEF Go, firmware, file, LocalFields, AfterMap, AfterRanges, AfterEnv
<1>3. CASE LocateDisplays \/ SetupEfiFramebufferData \/ OpenKernelFile \/ ReadElfHeader
  BY <1>1, <1>3 DEF LocateDisplays, SetupEfiFramebufferData, OpenKernelFile, ReadElfHeader,
     Ignore, MapInv
<1>4. CASE LoadSegment \/ PlaceSegment \/ CloseFile
  BY <1>1, <1>4 DEF LoadSegment, HeaderRead, PlaceSegment, CopySegment, CloseFile, Ignore,
     MapInv
<1>5. CASE AllocateDisplays
  BY <1>1, <1>5, AllocOK DEF AllocateDisplays, Allocated, Buffers, MapInv
<1>6. CASE GetMapSize
  BY <1>1, <1>6 DEF GetMapSize, MapInv
<1>7. CASE AllocateMap
  <2>1. /\ Cardinality(Descriptors(types')) <= Cardinality(Descriptors(types)) + Spare
        /\ "map" \notin ignored' /\ local' = local /\ pc' = "getmap"
    BY <1>1, <1>7, AllocOK DEF AllocateMap, Allocated, Buffers, MapInv
  <2>2. /\ local.MapSize = Cardinality(Descriptors(types)) + Spare
        /\ local.DescriptorSize \in DescriptorSizes
    BY <1>1, <1>7 DEF AllocateMap, MapInv
  <2>3. QED BY <1>2, <2>1, <2>2 DEF MapInv, Spare
<1>8. CASE GetMemoryMap
  <2>1. /\ Cardinality(Descriptors(types)) <= local.MapSize
        /\ local.DescriptorSize \in DescriptorSizes
    BY <1>1, <1>8 DEF GetMemoryMap, MapInv
  <2>2. /\ local' = [local EXCEPT !.MapSize = Cardinality(Descriptors(types)),
                                  !.MapKey = key, !.map = Descriptors(types)]
        /\ ignored' = ignored /\ types' = types /\ buf' = buf /\ pc' = "ranges"
    BY <1>8, <2>1 DEF GetMemoryMap
  <2>3. /\ local'.map = Descriptors(types) /\ local'.MapSize = Cardinality(local'.map)
        /\ local'.DescriptorSize \in DescriptorSizes
    BY <1>1, <2>1, <2>2
  <2>4. \E t \in [PageSet -> Kinds] : Describes(t)'
    BY <1>1, <2>2, <2>3 DEF Describes
  <2>5. QED BY <1>1, <2>2, <2>3, <2>4 DEF MapInv
<1>9. ASSUME NEW b \in {"ranges", "env"}, NEW p \in 0 .. LimitPage - 1, Allocated(b, p),
             buf[b] = None, local' = local,
             NEW t \in [PageSet -> Kinds], Describes(t)
      PROVE  Describes(t)'
  <2>1. b \in Buffers /\ None \notin PageSet /\ DOMAIN buf = Buffers
    BY <1>1, Pages DEF Buffers
  <2>2. \A q \in PageSet : q \in {buf["ranges"], buf["env"]} => q \in {buf["ranges"], buf["env"]}'
    BY <1>9, <2>1 DEF Allocated, Buffers
  <2>3. p \in {buf["ranges"], buf["env"]}'
    BY <1>9, <2>1 DEF Allocated, Buffers
  <2>4. \A q \in PageSet : types'[q] = types[q] \/ q = p
    BY <1>1, <1>9 DEF Allocated
  <2>5. QED BY <1>9, <2>2, <2>3, <2>4 DEF Describes
<1>10. CASE AllocateRanges
  <2>1. PICK t \in [PageSet -> Kinds] : Describes(t)
    BY <1>1, <1>10 DEF AllocateRanges, MapInv
  <2>2. PICK p \in 0 .. LimitPage - 1 : Allocated("ranges", p)
    BY <1>1, <1>10, AllocOK DEF AllocateRanges, Buffers
  <2>3. Describes(t)'
    BY <1>1, <1>9, <1>10, <2>1, <2>2 DEF AllocateRanges, BufferInv
  <2>4. QED BY <1>1, <1>10, <2>2, <2>3 DEF AllocateRanges, Allocated, MapInv
<1>11. CASE AllocateEnvBlock
  <2>1. PICK t \in [PageSet -> Kinds] : Describes(t)
    BY <1>1, <1>11 DEF AllocateEnvBlock, MapInv
  <2>2. PICK p \in 0 .. LimitPage - 1 : Allocated("env", p)
    BY <1>1, <1>11, AllocOK DEF AllocateEnvBlock, Buffers
  <2>3. Describes(t)'
    BY <1>1, <1>9, <1>11, <2>1, <2>2 DEF AllocateEnvBlock, BufferInv
  <2>4. QED BY <1>1, <1>11, <2>2, <2>3 DEF AllocateEnvBlock, Allocated, MapInv
<1>12. CASE FillRanges
  <2>1. PICK t \in [PageSet -> Kinds] : Describes(t)
    BY <1>1, <1>12 DEF FillRanges, MapInv
  <2>2. /\ local'.map = local.map /\ local'.MapSize = local.MapSize
        /\ local'.DescriptorSize = local.DescriptorSize
        /\ types' = types /\ buf' = buf /\ ignored' = ignored /\ pc' = "exit"
    BY <1>1, <1>12 DEF FillRanges
  <2>3. Describes(t)'
    BY <2>1, <2>2 DEF Describes
  <2>4. local.MapSize = Cardinality(local.map)
    BY <1>1, <1>12 DEF FillRanges, MapInv
  <2>5. ASSUME "memory" \notin ignored
        PROVE  local'.ranges = {RangeOf(d) : d \in {e \in local.map : IsRead(e)}}
                                \cup {Garbage : i \in {j \in Iterators : FallsBetween(j)}}
    BY <1>1, <1>12, <2>5 DEF FillRanges, BufferInv
  <2>6. ASSUME "memory" \notin ignored, local.DescriptorSize = SizeOf
        PROVE  local'.ranges = {RangeOf(d) : d \in local.map}
    <3>1. local'.ranges = {RangeOf(d) : d \in {e \in local.map : IsRead(e)}}
                            \cup {Garbage : i \in {j \in Iterators : FallsBetween(j)}}
      BY <2>6, <2>5
    <3>2. \A d \in local.map : IsRead(d)
      BY <2>1, <2>4, <2>6, EveryOneIsRead DEF Describes
    <3>3. \A i \in Iterators : ~ FallsBetween(i)
      BY <1>1, <2>4, <2>6, <2>1, NoneFallsBetween DEF Describes
    <3>4. QED BY <3>1, <3>2, <3>3
  <2>7. ASSUME "memory" \notin ignored, local.DescriptorSize # SizeOf, local.MapSize > 1
        PROVE  Garbage \in local'.ranges
    <3>1. local.DescriptorSize \in DescriptorSizes /\ local.MapSize \in Nat
      BY <1>1, <1>12, <2>1, <2>4, CountRuns DEF FillRanges, MapInv, Describes
    <3>2. 1 \in Iterators /\ FallsBetween(1)
      BY <2>7, <3>1, SecondFallsBetween
    <3>3. QED BY <2>5, <2>7, <3>2
  <2>8. QED BY <1>1, <1>12, <2>2, <2>3, <2>4, <2>6, <2>7 DEF FillRanges, MapInv
<1>13. CASE ExitBootServices \/ BlankScreen
  <2>1. /\ local'.map = local.map /\ local'.MapSize = local.MapSize
        /\ local'.DescriptorSize = local.DescriptorSize
        /\ local'.ranges = local.ranges /\ UNCHANGED <<types, buf, ignored>>
        /\ pc \in {"exit", "blank"} /\ pc' \in {"blank", "kernel"}
    BY <1>1, <1>13 DEF ExitBootServices, BlankScreen
  <2>2. QED BY <1>1, <2>1 DEF MapInv, Describes
<1>14. CASE Halt
  BY <1>1, <1>14 DEF Halt, vars, MapInv, Describes
<1>15. QED
  BY <1>3, <1>4, <1>5, <1>6, <1>7, <1>8, <1>10, <1>11, <1>12, <1>13, <1>14 DEF Next, Step

(* Every step of the loader keeps the invariant. *)
LEMMA NextIInv == IInv /\ [Next]_vars => IInv'
<1> SUFFICES ASSUME IInv, [Next]_vars PROVE IInv'
  OBVIOUS
<1>1. CASE Next
  BY <1>1, StateNext, KeyNext, BufferNext, MapNext DEF IInv
<1>2. CASE UNCHANGED vars
  BY <1>2 DEF vars, IInv, StateInv, KeyInv, BufferInv, MapInv, Describes
<1>3. QED BY <1>1, <1>2

-----------------------------------------------------------------------------
(* The kernel file. *)

(* A later slot puts other bytes into the page of the i-th one. *)
Overwritten(i) ==
    \E j \in i + 1 .. Len(image.slots) :
        /\ j <= image.e_phoff
        /\ image.slots[j].load
        /\ image.slots[j].page = image.slots[i].page
        /\ image.slots[j].id # image.slots[i].id

(* The i-th slot is in its place, unless a buffer is, or a later slot.     *)
Placed(i) ==
    image.slots[i].load /\ NoBuffer(image.slots[i].page) /\ ~ Overwritten(i) => InPlace(i)

(* What the loop has done, as long as Index can count and every read       *)
(* succeeded: it comes to the slots in their order, and behind the last of *)
(* them it repeats that one.                                               *)
SegmentInv ==
    /\ image.e_phoff < IndexRange /\ "read" \notin ignored /\ pc \in Loop \cup AfterLoop =>
         /\ \A i \in 1 .. Len(image.slots) : i <= Index => Placed(i)
         /\ PHdrSize = 0 => Index >= Len(image.slots)
         /\ pc = "segments" /\ Index >= Len(image.slots) /\ Len(image.slots) > 0 =>
              header = image.slots[Len(image.slots)]
         /\ pc = "copy" =>
              /\ Index < Len(image.slots) => header = image.slots[Index + 1]
              /\ Index >= Len(image.slots) /\ Len(image.slots) > 0 =>
                   header = image.slots[Len(image.slots)]

(* Before the loop nothing is claimed. *)
LEMMA InitSegment == Init => SegmentInv
BY DEF Init, SegmentInv, Loop, AfterLoop, AfterMap, AfterRanges, AfterEnv

(* Buffers are put, and filled, where nothing is claimed. *)
LEMMA BufferKeeps ==
    ASSUME IInv, image' = image, NEW i \in 1 .. Len(image.slots), Placed(i),
           \/ /\ \E b \in Buffers, p \in PageSet : buf[b] = None /\ buf' = [buf EXCEPT ![b] = p]
              /\ content' = content
           \/ /\ \A q \in PageSet : (\A b \in Buffers : buf[b] # q) => content'[q] = content[q]
              /\ buf' = buf
    PROVE  Placed(i)'
<1> DEFINE h == image.slots[i]
<1>1. /\ buf \in [Buffers -> Places] /\ DOMAIN content = PageSet /\ image \in Images
      /\ image.slots \in Seq(Headers)
  BY LoaderAssumption DEF IInv, StateInv
<1>2. h \in Headers /\ h.page \in PageSet
  <2>1. h \in Headers
    BY <1>1
  <2> HIDE DEF h
  <2>2. QED BY <2>1 DEF Headers
<1>3. h = image.slots[i] /\ h = image'.slots[i] /\ (Overwritten(i)' <=> Overwritten(i))
  BY DEF h, Overwritten
<1> HIDE DEF h
<1>4. SUFFICES ASSUME h.load, h.page # 0, \A b \in Buffers : buf'[b] # h.page,
                      ~ Overwritten(i)
               PROVE  content'[h.page] = h.id
  BY <1>3 DEF Placed, InPlace, NoBuffer
<1>5. CASE /\ \E b \in Buffers, p \in PageSet : buf[b] = None /\ buf' = [buf EXCEPT ![b] = p]
           /\ content' = content
  <2>1. \A b \in Buffers : buf[b] # h.page
    BY <1>1, <1>2, <1>4, <1>5, Pages
  <2>2. QED BY <1>3, <1>4, <1>5, <2>1 DEF Placed, InPlace, NoBuffer
<1>6. CASE /\ \A q \in PageSet : (\A b \in Buffers : buf[b] # q) => content'[q] = content[q]
           /\ buf' = buf
  <2>1. content[h.page] = h.id
    BY <1>3, <1>4, <1>6 DEF Placed, InPlace, NoBuffer
  <2>2. QED BY <1>2, <1>4, <1>6, <2>1
<1>7. QED BY <1>5, <1>6

(* The steps of the loop, and the buffers after it. *)
LEMMA SegmentNext ==
    ASSUME IInv, SegmentInv, [Next]_vars
    PROVE  SegmentInv'
<1>1. /\ StateInv /\ image \in Images /\ Index \in Nat /\ DOMAIN content = PageSet
      /\ image.e_phoff \in Nat /\ image.e_phnum \in Nat /\ image.slots \in Seq(Headers)
      /\ buf \in [Buffers -> Places] /\ IndexRange \in Nat /\ PHdrSize \in {0, 1}
      /\ Index < IndexRange
  BY LoaderAssumption DEF IInv, StateInv
<1>2. Len(image.slots) \in Nat /\ 0 \in PageSet
  BY <1>1, Pages
<1>3. \A i \in 1 .. Len(image.slots) : image.slots[i] \in Headers
  BY <1>1
<1>4. \A h \in Headers : h.page \in PageSet
  BY DEF Headers
<1> USE DEF Go, firmware, file, Loop, AfterLoop, AfterMap, AfterRanges, AfterEnv
<1>5. CASE LocateDisplays \/ AllocateDisplays \/ SetupEfiFramebufferData \/ OpenKernelFile
  BY <1>5 DEF LocateDisplays, AllocateDisplays, SetupEfiFramebufferData, OpenKernelFile,
     SegmentInv
<1>6. CASE ReadElfHeader
  <2>1. Index = 0 /\ PHdrSize = 1
    BY <1>6 DEF ReadElfHeader, IInv, StateInv
  <2>2. QED BY <1>1, <1>2, <1>6, <2>1 DEF ReadElfHeader, SegmentInv
<1>7. CASE LoadSegment
  <2>1. /\ pc = "segments" /\ pc' = "copy"
        /\ UNCHANGED <<image, Index, content, buf>> /\ HeaderRead
    BY <1>7 DEF LoadSegment
  <2>2. \A i : Placed(i)' <=> Placed(i)
    BY <2>1 DEF Placed, InPlace, NoBuffer, Overwritten
  <2> SUFFICES ASSUME "read" \notin ignored', image.e_phoff < IndexRange
               PROVE  /\ "read" \notin ignored
                      /\ PHdrSize' = 0 => Index >= Len(image.slots)
                      /\ Index < Len(image.slots) => header' = image.slots[Index + 1]
                      /\ Index >= Len(image.slots) /\ Len(image.slots) > 0 =>
                           header' = image.slots[Len(image.slots)]
    BY <2>1, <2>2 DEF SegmentInv
  <2>3. /\ ignored' = ignored
        /\ \/ /\ PHdrSize' = 1 /\ Index < Len(image.slots)
              /\ header' = image.slots[Index + 1]
           \/ /\ PHdrSize = 0 \/ Index >= Len(image.slots)
              /\ header' = header
    BY <2>1 DEF HeaderRead, Ignore
  <2>4. PHdrSize = 0 => Index >= Len(image.slots)
    BY <2>1, <2>3 DEF SegmentInv
  <2>5. Index >= Len(image.slots) /\ Len(image.slots) > 0 =>
          header = image.slots[Len(image.slots)]
    BY <2>1, <2>3 DEF SegmentInv
  <2>6. QED BY <1>1, <1>2, <2>3, <2>4, <2>5
<1>8. CASE PlaceSegment
  <2>1. pc = "copy" /\ UNCHANGED <<image, header, PHdrSize, buf>> /\ Index < image.e_phoff
    BY <1>8 DEF PlaceSegment, IInv, StateInv
  <2>2. CASE pc' # "segments"
    BY <1>8, <2>2 DEF PlaceSegment, SegmentInv
  <2>3. CASE pc' = "segments"
    <3> DEFINE k == IF Index < Len(image.slots) THEN Index + 1 ELSE Len(image.slots)
    <3> SUFFICES ASSUME "read" \notin ignored', image.e_phoff < IndexRange
                 PROVE  /\ \A i \in 1 .. Len(image.slots) : i <= Index' => Placed(i)'
                        /\ PHdrSize = 0 => Index' >= Len(image.slots)
                        /\ Index' >= Len(image.slots) /\ Len(image.slots) > 0 =>
                             header = image.slots[Len(image.slots)]
      BY <2>1, <2>3 DEF SegmentInv
    <3>1. /\ Index' = (Index + 1) % IndexRange /\ "read" \notin ignored
          /\ \/ ~ header.load /\ content' = content
             \/ /\ header.load
                /\ content' = [content EXCEPT ![0] = header.id, ![header.page] = header.id]
      BY <1>8, <2>3 DEF PlaceSegment, CopySegment, Ignore
    <3>2. Index' = Index + 1
      BY <1>1, <2>1, <3>1, NextIndex
    <3>3. Len(image.slots) > 0 =>
            k \in 1 .. Len(image.slots) /\ k <= image.e_phoff /\ header = image.slots[k]
      BY <1>1, <1>2, <2>1, <3>1 DEF SegmentInv
    <3>4. PHdrSize = 0 => Index >= Len(image.slots)
      BY <2>1, <3>1 DEF SegmentInv
    <3>5. ASSUME NEW i \in 1 .. Len(image.slots), i <= Index + 1 PROVE Placed(i)'
      <4> DEFINE h == image.slots[i]
      <4>1. h \in Headers /\ h.page \in PageSet
        BY <1>3, <1>4
      <4>2. /\ k \in 1 .. Len(image.slots) /\ header = image.slots[k] /\ i <= k
            /\ k <= image.e_phoff
        BY <1>1, <1>2, <3>3, <3>5
      <4>3. header.page \in PageSet
        BY <1>3, <1>4, <4>2
      <4>4. i <= Index => Placed(i)
        BY <2>1, <3>1 DEF SegmentInv
      <4>5. i <= Index \/ (i = k /\ h = header)
        BY <1>1, <1>2, <3>5, <4>2
      <4>6. ASSUME header.load, ~ Overwritten(i), h.page = header.page PROVE h.id = header.id
        <5>1. i = k \/ k \in i + 1 .. Len(image.slots)
          BY <1>2, <4>2
        <5>2. QED BY <4>2, <4>6, <5>1 DEF Overwritten
      <4>7. Overwritten(i)' <=> Overwritten(i)
        BY <2>1 DEF Overwritten
      <4>8. NoBuffer(h.page)' <=> NoBuffer(h.page)
        BY <2>1 DEF NoBuffer
      <4>9. Placed(i)' <=>
              (h.load /\ NoBuffer(h.page) /\ ~ Overwritten(i) => content'[h.page] = h.id)
        BY <2>1, <4>7, <4>8 DEF Placed, InPlace, NoBuffer
      <4>10. Placed(i) <=>
              (h.load /\ NoBuffer(h.page) /\ ~ Overwritten(i) => content[h.page] = h.id)
        BY DEF Placed, InPlace
      <4>11. NoBuffer(h.page) => h.page # 0
        BY DEF NoBuffer
      <4> HIDE DEF h, k
      <4>12. CASE ~ header.load
        BY <3>1, <4>4, <4>5, <4>9, <4>10, <4>12
      <4>13. CASE header.load
        <5>1. /\ content'[header.page] = header.id
              /\ h.page # 0 /\ h.page # header.page => content'[h.page] = content[h.page]
          BY <1>1, <3>1, <4>1, <4>3, <4>13
        <5>2. QED BY <4>4, <4>5, <4>6, <4>9, <4>10, <4>11, <4>13, <5>1
      <4>14. QED BY <4>12, <4>13
    <3>6. Index + 1 >= Len(image.slots) /\ Len(image.slots) > 0 => k = Len(image.slots)
      BY <1>1, <1>2
    <3>7. QED BY <1>1, <1>2, <3>2, <3>3, <3>4, <3>5, <3>6
  <2>4. QED BY <2>2, <2>3
<1>9. ASSUME pc \in Loop \cup AfterLoop, pc' \in AfterLoop,
             UNCHANGED <<image, Index, header, PHdrSize>>,
             "read" \in ignored => "read" \in ignored',
             \A i \in 1 .. Len(image.slots) : Placed(i) => Placed(i)'
      PROVE  SegmentInv'
  BY <1>9 DEF SegmentInv
<1>10. ASSUME content' = content, buf' = buf, image' = image
       PROVE  \A i : Placed(i) => Placed(i)'
  BY <1>10 DEF Placed, InPlace, NoBuffer, Overwritten
<1>11. CASE CloseFile \/ GetMapSize \/ ExitBootServices \/ BlankScreen
  BY <1>9, <1>10, <1>11 DEF CloseFile, GetMapSize, ExitBootServices, BlankScreen
<1>12. ASSUME NEW b \in Buffers, EfiAllocMaxAddr(b), buf[b] = None,
              content' = content, image' = image
       PROVE  /\ \A i \in 1 .. Len(image.slots) : Placed(i) => Placed(i)'
              /\ "read" \in ignored => "read" \in ignored'
  <2>1. PICK p \in 0 .. LimitPage - 1 : Allocated(b, p)
    BY <1>1, <1>12, AllocOK
  <2>2. \E c \in Buffers, q \in PageSet : buf[c] = None /\ buf' = [buf EXCEPT ![c] = q]
    BY <1>12, <2>1, Pages DEF Allocated
  <2>3. "read" \in ignored => "read" \in ignored'
    BY <2>1 DEF Allocated
  <2>4. QED BY <1>12, <2>2, <2>3, BufferKeeps
<1>13. CASE AllocateMap \/ AllocateRanges \/ AllocateEnvBlock
  <2>1. PICK b \in Buffers : EfiAllocMaxAddr(b) /\ buf[b] = None
    BY <1>13 DEF AllocateMap, AllocateRanges, AllocateEnvBlock, Buffers, IInv, BufferInv
  <2>2. /\ pc \in AfterLoop /\ pc' \in AfterLoop
        /\ UNCHANGED <<image, Index, header, PHdrSize, content>>
    BY <1>13 DEF AllocateMap, AllocateRanges, AllocateEnvBlock
  <2>3. /\ \A i \in 1 .. Len(image.slots) : Placed(i) => Placed(i)'
        /\ "read" \in ignored => "read" \in ignored'
    BY <1>12, <2>1, <2>2
  <2>4. QED BY <1>9, <2>2, <2>3
<1>14. CASE GetMemoryMap \/ FillRanges
  <2>1. /\ pc \in AfterLoop /\ pc' \in AfterLoop
        /\ UNCHANGED <<image, Index, header, PHdrSize, buf>>
        /\ "read" \in ignored => "read" \in ignored'
    BY <1>14 DEF GetMemoryMap, FillRanges
  <2>2. \A q \in PageSet : (\A b \in Buffers : buf[b] # q) => content'[q] = content[q]
    BY <1>1, <1>14 DEF GetMemoryMap, FillRanges, Buffers
  <2>3. \A i \in 1 .. Len(image.slots) : Placed(i) => Placed(i)'
    BY <2>1, <2>2, BufferKeeps
  <2>4. QED BY <1>9, <2>1, <2>3
<1>15. CASE Halt \/ UNCHANGED vars
  BY <1>15 DEF Halt, vars, SegmentInv, Placed, InPlace, NoBuffer, Overwritten
<1>16. QED
  BY <1>5, <1>6, <1>7, <1>8, <1>11, <1>13, <1>14, <1>15 DEF Next, Step

-----------------------------------------------------------------------------
(* The theorems. *)

(* Every variable keeps its type: the loop of ElfLoadFile does not count   *)
(* past e_phoff, and EfiAllocMaxAddr puts no buffer above 2 MiB.           *)
THEOREM TypeCorrect == Spec => []TypeOK
<1>1. IInv => TypeOK
  <2> SUFFICES ASSUME IInv PROVE TypeOK
    OBVIOUS
  <2>1. image.e_phoff \in Nat /\ IndexRange \in Nat
    BY LoaderAssumption DEF IInv, StateInv
  <2>2. QED BY <2>1 DEF IInv, StateInv, KeyInv, Places, TypeOK
<1>2. QED BY <1>1, InitIInv, NextIInv, PTL DEF Spec

(* The map uefi_main reads from the firmware is whole, for every memory    *)
(* map: the two spare descriptors are enough, every page is in it, and     *)
(* what is free in it is free or one of the two buffers allocated after    *)
(* it.  Every page is in exactly one of the ranges the kernel gets if the  *)
(* descriptors are as large as the structure; if they are larger, and more *)
(* than one, a range stands for nothing.                                   *)
THEOREM WholeMap == Spec => []MapIsWhole
<1>1. IInv => MapIsWhole
  <2> SUFFICES ASSUME IInv, pc = "kernel", "memory" \notin ignored
               PROVE  /\ "map" \notin ignored
                      /\ \A p \in PageSet : \E d \in local.map :
                           p \in d.first .. d.last /\ (d.Type = "free" => StillFree(p))
                      /\ local.DescriptorSize = SizeOf =>
                           /\ \A p \in PageSet : \E r \in local.ranges :
                                /\ p \in r.Start .. r.End - 1
                                /\ r.Usage = "FREE" => StillFree(p)
                           /\ \A r, s \in local.ranges :
                                r # s => r.End <= s.Start \/ s.End <= r.Start
                      /\ local.DescriptorSize # SizeOf /\ local.MapSize > 1 =>
                           Garbage \in local.ranges
    BY DEF MapIsWhole
  <2>1. PICK t \in [PageSet -> Kinds] : Describes(t)
    BY DEF IInv, MapInv, AfterMap, AfterRanges, AfterEnv
  <2>2. /\ local.map = Descriptors(t)
        /\ local.DescriptorSize = SizeOf => local.ranges = {RangeOf(d) : d \in Descriptors(t)}
        /\ local.DescriptorSize # SizeOf /\ local.MapSize > 1 => Garbage \in local.ranges
    BY <2>1 DEF IInv, MapInv, Describes
  <2>3. ASSUME NEW d \in Descriptors(t)
        PROVE  /\ RangeOf(d).Start = d.first /\ RangeOf(d).End = d.last + 1
               /\ RangeOf(d).Usage = "FREE" => d.Type = "free"
               /\ d.first \in Nat /\ d.last \in Nat
               /\ \A q \in d.first .. d.last : t[q] = d.Type
    <3>1. d.first \in Nat /\ d.last \in Nat /\ \A q \in d.first .. d.last : t[q] = d.Type
      BY Pages DEF Descriptors, Descriptor
    <3>2. QED BY <3>1 DEF RangeOf, GetEfiMemoryMapToFreeOrNot
  <2>4. ASSUME NEW p \in PageSet
        PROVE  \E d \in Descriptors(t) : /\ p \in d.first .. d.last
                                         /\ d.Type = "free" => StillFree(p)
    <3>1. PICK d \in Descriptors(t) : d.first <= p /\ p <= d.last
      BY RunsCover
    <3>2. p \in d.first .. d.last /\ t[p] = d.Type
      BY <2>3, <3>1, Pages
    <3>3. types[p] = t[p] \/ p \in {buf["ranges"], buf["env"]}
      BY <2>1 DEF Describes
    <3>4. QED BY <3>2, <3>3 DEF StillFree
  <2>5. ASSUME local.DescriptorSize = SizeOf, NEW p \in PageSet
        PROVE  \E r \in local.ranges : /\ p \in r.Start .. r.End - 1
                                       /\ r.Usage = "FREE" => StillFree(p)
    <3>1. PICK d \in Descriptors(t) : /\ p \in d.first .. d.last
                                      /\ d.Type = "free" => StillFree(p)
      BY <2>4
    <3>2. p \in RangeOf(d).Start .. RangeOf(d).End - 1
      BY <2>3, <3>1, Pages
    <3>3. QED BY <2>2, <2>3, <2>5, <3>1, <3>2
  <2>6. ASSUME local.DescriptorSize = SizeOf, NEW r \in local.ranges, NEW s \in local.ranges, r # s
        PROVE  r.End <= s.Start \/ s.End <= r.Start
    <3>1. PICK d \in Descriptors(t) : r = RangeOf(d)
      BY <2>2, <2>6
    <3>2. PICK e \in Descriptors(t) : s = RangeOf(e)
      BY <2>2, <2>6
    <3>3. d.last < e.first \/ e.last < d.first
      BY <2>6, <3>1, <3>2, RunsApart
    <3>4. /\ r.Start = d.first /\ r.End = d.last + 1 /\ d.first \in Nat /\ d.last \in Nat
          /\ s.Start = e.first /\ s.End = e.last + 1 /\ e.first \in Nat /\ e.last \in Nat
      BY <2>3, <3>1, <3>2
    <3>5. QED BY <3>3, <3>4
  <2>7. QED BY <2>2, <2>4, <2>5, <2>6 DEF IInv, MapInv
<1>2. QED BY <1>1, InitIInv, NextIInv, PTL DEF Spec

(* ElfLoadFile fills every page of the image from the last slot its loop   *)
(* comes to that names the page, for every kernel file, whatever follows   *)
(* the program headers: only a failing read or a buffer can change it.     *)
THEOREM ImageLoaded == Spec => []ImageIsLoaded
<1>1. IInv /\ SegmentInv => ImageIsLoaded
  <2> SUFFICES ASSUME IInv, SegmentInv, pc = "kernel", "read" \notin ignored,
                      NEW i \in Segments, NoBuffer(image.slots[i].page), IsLast(i)
               PROVE  InPlace(i)
    BY DEF ImageIsLoaded
  <2>1. /\ image \in Images /\ image.e_phoff \in Nat
        /\ Index = image.e_phoff /\ Index < IndexRange
    BY LoaderAssumption DEF IInv, StateInv, AfterLoop, AfterMap, AfterRanges, AfterEnv
  <2>2. i \in 1 .. Len(image.slots) /\ i <= Index /\ image.slots[i].load
    BY <2>1 DEF Segments
  <2>3. Placed(i)
    BY <2>1, <2>2 DEF SegmentInv, AfterLoop, AfterMap, AfterRanges, AfterEnv
  <2>4. ~ Overwritten(i)
    <3>1. \A j \in i + 1 .. Len(image.slots) : j \in 1 .. Len(image.slots) /\ j > i
      BY <2>1, <2>2, LoaderAssumption
    <3>2. QED BY <3>1 DEF Overwritten, IsLast, Segments
  <2>5. QED BY <2>2, <2>3, <2>4 DEF Placed
<1>2. IInv /\ SegmentInv /\ [Next]_vars => IInv' /\ SegmentInv'
  BY NextIInv, SegmentNext
<1>3. QED BY <1>1, <1>2, InitIInv, InitSegment, PTL DEF Spec
=============================================================================
