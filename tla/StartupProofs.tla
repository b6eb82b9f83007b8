---------------------------- MODULE StartupProofs ----------------------------
(* Proofs about Startup, with Paging, Heap and Serial, for tables of every *)
(* size, every set of addresses and frames and every divisor.              *)
EXTENDS Startup, TLAPS

-----------------------------------------------------------------------------
(* The heap. *)

NodeName == {"root", "next"}
NodeType == [Used : BOOLEAN, Area : Nat, NodeIndex : Nat,
             Previous : NodeName \cup {NULLPTR}, Next : NodeName \cup {NULLPTR},
             ChunkIncrement : Nat]

(* What every list of nodes satisfies, and one made for an arena. *)
HeapOK(nodes) ==
    /\ nodes \in [NodeName -> NodeType]
    /\ nodes["root"].Area = 0 /\ nodes["next"].Next = NULLPTR
    /\ nodes["next"].ChunkIncrement # 0 =>
         /\ nodes["next"].Area = 1 /\ nodes["next"].Previous = "root"
         /\ nodes["root"].Next = "next"
HeapMade(nodes) == HeapOK(nodes) /\ nodes["next"].Previous = "root"

(* KiSetMemoryBytes leaves a list without a block. *)
LEMMA NoHeapOK == HeapOK(NoHeap)
<1>1. NoHeap["root"] = Cleared /\ NoHeap["next"] = Cleared
  BY DEF NoHeap
<1>2. NoHeap \in [NodeName -> NodeType]
  BY DEF NoHeap, NodeName, NodeType, Cleared, NULLPTR
<1>3. QED BY <1>1, <1>2 DEF HeapOK, Cleared, NULLPTR

(* MmCreateAllocatorState links the second node to the root. *)
LEMMA CreateMade == HeapMade(MmCreateAllocatorState)
<1> DEFINE root == [Cleared EXCEPT !.Used = FALSE, !.Previous = NULLPTR,
                                   !.Next = NULLPTR, !.NodeIndex = 0]
           next == [Cleared EXCEPT !.Previous = "root"]
           q == [NoHeap EXCEPT !["root"] = root]
<1>1. NoHeap["root"] = Cleared /\ NoHeap["next"] = Cleared /\ DOMAIN NoHeap = NodeName
  BY DEF NoHeap, NodeName
<1>2. MmCreateAllocatorState = [q EXCEPT !["next"].Previous = "root"]
  BY <1>1 DEF MmCreateAllocatorState, InternalInitializeNode, Arena
<1>3. root \in NodeType /\ root.Area = 0
  BY DEF Cleared, NodeType, NodeName, NULLPTR
<1>4. /\ next \in NodeType /\ next.Previous = "root"
      /\ next.ChunkIncrement = 0 /\ next.Next = NULLPTR
  BY DEF Cleared, NodeType, NodeName, NULLPTR
<1> HIDE DEF root
<1>5. q["root"] = root /\ q["next"] = Cleared /\ DOMAIN q = NodeName
  BY <1>1 DEF NodeName
<1> HIDE DEF q
<1>6. [q EXCEPT !["next"].Previous = "root"] =
        [n \in NodeName |-> IF n = "next" THEN next ELSE root]
  BY <1>5 DEF NodeName
<1> HIDE DEF next
<1>7. /\ MmCreateAllocatorState \in [NodeName -> NodeType]
      /\ MmCreateAllocatorState["root"] = root /\ MmCreateAllocatorState["next"] = next
  BY <1>2, <1>3, <1>4, <1>6 DEF NodeName
<1>8. QED BY <1>3, <1>4, <1>7 DEF HeapMade, HeapOK

(* Every call of MmKernelMalloc makes the same block, behind the root's. *)
LEMMA MallocMade ==
    ASSUME NEW nodes, HeapMade(nodes), NEW Size \in Nat
    PROVE  HeapMade(MmKernelMalloc(nodes, Size))
<1> DEFINE inc == (Size % ALLOC_BLOCK_SIZE) + 1
           next1 == [nodes["next"] EXCEPT !.Used = nodes["next"].Used \/ inc > 1,
                                            !.ChunkIncrement = inc]
           next2 == [next1 EXCEPT !.Area = 1]
           marked == [nodes EXCEPT !["next"] = next1]
           behind == [marked EXCEPT !["root"].Next = "next",
                                    !["next"].Area = marked["root"].Area + 1]
           done == [behind EXCEPT !["next"] =
                      [@ EXCEPT !.Used = FALSE, !.Previous = "root", !.Next = NULLPTR,
                                !.NodeIndex = nodes["root"].NodeIndex + 1]]
<1>1. /\ nodes \in [NodeName -> NodeType] /\ nodes["root"].Area = 0
      /\ nodes["next"].Next = NULLPTR /\ nodes["next"].Previous = "root"
      /\ inc \in Nat
  BY DEF HeapMade, HeapOK, ALLOC_BLOCK_SIZE
<1>2. MmKernelMalloc(nodes, Size) = done
  <2>1. MmKernelMalloc(nodes, Size) =
          InternalInitializeNode(marked, "next", "root", NULLPTR,
                                 nodes["root"].NodeIndex + 1)
    BY <1>1 DEF MmKernelMalloc, Arena
  <2> HIDE DEF marked
  <2>2. InternalInitializeNode(marked, "next", "root", NULLPTR,
                               nodes["root"].NodeIndex + 1) = done
    BY DEF InternalInitializeNode, NULLPTR
  <2>3. QED BY <2>1, <2>2
<1>3. /\ DOMAIN marked = NodeName /\ marked["root"] = nodes["root"]
      /\ marked["next"] = next1 /\ next1 \in NodeType /\ next1.ChunkIncrement = inc
  BY <1>1 DEF NodeName, NodeType
<1> HIDE DEF marked, next1
<1>4. /\ DOMAIN behind = NodeName
      /\ behind["root"] = [nodes["root"] EXCEPT !.Next = "next"]
      /\ behind["next"] = next2
  BY <1>1, <1>3 DEF NodeName
<1> HIDE DEF behind
<1>5. next2 \in NodeType /\ next2.ChunkIncrement = inc /\ next2.Area = 1
  BY <1>3 DEF NodeType
<1> HIDE DEF next2
<1>6. /\ DOMAIN done = NodeName /\ done["root"] = [nodes["root"] EXCEPT !.Next = "next"]
      /\ done["next"] = [next2 EXCEPT !.Used = FALSE, !.Previous = "root", !.Next = NULLPTR,
                                      !.NodeIndex = nodes["root"].NodeIndex + 1]
      /\ done = [n \in NodeName |-> done[n]]
  BY <1>4 DEF NodeName
<1> HIDE DEF done
<1>7. /\ done["root"] \in NodeType /\ done["root"].Area = 0 /\ done["root"].Next = "next"
  BY <1>1, <1>6 DEF NodeType, NodeName
<1>8. /\ done["next"] \in NodeType /\ done["next"].Area = 1
      /\ done["next"].Previous = "root" /\ done["next"].Next = NULLPTR
  <2>1. nodes["root"].NodeIndex + 1 \in Nat
    BY <1>1 DEF NodeType, NodeName
  <2>2. PICK i \in Nat : done["next"] =
          [next2 EXCEPT !.Used = FALSE, !.Previous = "root", !.Next = NULLPTR, !.NodeIndex = i]
    BY <1>6, <2>1
  <2>3. QED BY <1>5, <2>2 DEF NodeType, NodeName
<1>9. done \in [NodeName -> NodeType]
  BY <1>6, <1>7, <1>8 DEF NodeName
<1>10. QED BY <1>2, <1>7, <1>8, <1>9 DEF HeapMade, HeapOK

-----------------------------------------------------------------------------
(* The page tables. *)

(* Tables of entries beside the nodes of the heap.  No entry leads back to *)
(* p4, and those of p4 lead to tables.                                     *)
TablesOK(m) ==
    /\ DOMAIN m = Tables \cup {"nodes"}
    /\ \A t \in Tables : m[t] \in [Slot -> Entry \ {Table("p4")}]
    /\ \A i \in Slot : m["p4"][i] \in {None, Table("p3"), Table("page")}
(* The two upper entries of the kernel's half, and all three levels. *)
UpperOK(m) == m["p4"][N - 1] = Table("p3") /\ m["p3"][0] = Table("p2")
KernelOK(m) == UpperOK(m) /\ \A i \in Slot : m["p2"][i] = Large(i)

(* What a paging call works on, and leaves. *)
PagesOK(m) == TablesOK(m) /\ KernelOK(m) /\ HeapMade(m["nodes"])

(* Entries are distinct when they point to distinct things, and the first  *)
(* component of a present one names a table, a large page or a frame.      *)
LEMMA Entries ==
    /\ None \in Entry /\ Frame4K \in Entry /\ \A t \in Tables : Table(t) \in Entry
    /\ \A i \in Slot : Large(i) \in Entry /\ Large(i) # None
    /\ \A t \in Tables : Table(t) # None /\ Table(t)[1] = t
    /\ \A e \in Entry \ {None} : e[1] \in Tables \cup {"large", "frame"}
    /\ \A e \in Entry \ {None, Table("p4")} : e[1] # "p4"
    /\ \A e \in {None, Frame4K} \cup {Large(i) : i \in Slot}
            \cup {Table(t) : t \in Tables \ {"p4"}} : e \in Entry \ {Table("p4")}
<1>1. \A i \in Slot : Large(i) # None /\ Large(i)[1] = "large"
  BY DEF Large, None
<1>2. \A t \in Tables : Table(t) # None /\ Table(t)[1] = t
  BY DEF Table, None, Tables
<1>3. Frame4K[1] = "frame"
  BY DEF Frame4K
<1>4. None[1] = "none"
  BY DEF None
<1>5. \A i \in Slot : Large(i) \in Entry
  BY DEF Entry
<1>6. \A t \in Tables : Table(t) \in Entry
  BY DEF Entry
<1>7. None \in Entry /\ Frame4K \in Entry
  BY DEF Entry
<1>8. \A e \in Entry \ {None} :
        e[1] \in Tables \cup {"large", "frame"} /\ (e[1] = "p4" => e = Table("p4"))
  BY <1>1, <1>2, <1>3 DEF Entry, Tables
<1>9. "p4" \in Tables
  BY DEF Tables
<1>10. QED BY <1>1, <1>2, <1>3, <1>4, <1>5, <1>6, <1>7, <1>8, <1>9

(* The first and the last slot are different ones. *)
LEMMA SlotEnds == 0 \in Slot /\ N - 1 \in Slot /\ N - 1 # 0
  BY PagingAssumption DEF Slot

(* x86FindPageLevels gives an index of a table, 0 for address 0. *)
LEMMA Levels ==
    ASSUME NEW v \in Nat, NEW k \in 0 .. 3
    PROVE  PageLevel(v, k) \in Slot /\ PageLevel(0, k) = 0
<1>1. N \in Nat \ {0}
  BY PagingAssumption
<1>2. N * N \in Nat \ {0}
  BY <1>1
<1>3. N * N * N \in Nat \ {0}
  BY <1>1, <1>2
<1>4. PICK s \in Nat \ {0} : Span[k + 1] = s
  <2>1. CASE k = 0 BY <2>1 DEF Span
  <2>2. CASE k = 1 BY <1>1, <2>2 DEF Span
  <2>3. CASE k = 2 BY <1>2, <2>3 DEF Span
  <2>4. CASE k = 3 BY <1>3, <2>4 DEF Span
  <2>5. QED BY <2>1, <2>2, <2>3, <2>4
<1>5. (v \div s) % N \in 0 .. N - 1 /\ (0 \div s) % N = 0
  BY <1>1
<1>6. QED BY <1>4, <1>5 DEF PageLevel, Slot

(* A new table comes from the heap and is cleared: the kernel's tables are *)
(* left alone.                                                             *)
LEMMA NewTableOK ==
    ASSUME NEW m, PagesOK(m)
    PROVE  PagesOK(NewTable(m)) /\ \A t \in {"p4", "p3", "p2"} : NewTable(m)[t] = m[t]
<1> DEFINE q == NewTable(m)
<1>1. /\ DOMAIN q = Tables \cup {"nodes"} /\ \A t \in {"p4", "p3", "p2"} : q[t] = m[t]
      /\ q["nodes"] = MmKernelMalloc(m["nodes"], 8 * 512)
      /\ q["area"] = Empty
      /\ q["page"] = [i \in Slot |-> IF i > Shift THEN None ELSE m["page"][i]]
  BY DEF NewTable, PagesOK, TablesOK, Tables
<1>2. HeapMade(q["nodes"])
  BY <1>1, MallocMade DEF PagesOK
<1> HIDE DEF q
<1>3. /\ q["area"] \in [Slot -> Entry \ {Table("p4")}]
      /\ q["page"] \in [Slot -> Entry \ {Table("p4")}]
  BY <1>1, Entries DEF Empty, PagesOK, TablesOK, Tables
<1>4. TablesOK(q)
  BY <1>1, <1>3 DEF PagesOK, TablesOK, Tables
<1>5. KernelOK(q)
  BY <1>1 DEF PagesOK, KernelOK, UpperOK
<1>6. QED BY <1>1, <1>2, <1>4, <1>5 DEF PagesOK, q

(* An entry that was empty may be filled. *)
LEMMA FillOK ==
    ASSUME NEW m, PagesOK(m), NEW t \in Tables, NEW i \in Slot, NEW e \in Entry,
           t \in {"p4", "p3", "p2"} => m[t][i] = None,
           e # Table("p4"), t = "p4" => e = Table("page")
    PROVE  PagesOK([m EXCEPT ![t][i] = e])
<1> DEFINE q == [m EXCEPT ![t][i] = e]
<1>1. /\ DOMAIN m = Tables \cup {"nodes"} 
      /\ \A x \in Tables : m[x] \in [Slot -> Entry \ {Table("p4")}]
      /\ m["p4"][N - 1] # None /\ m["p3"][0] # None /\ \A x \in Slot : m["p2"][x] # None
  BY Entries DEF PagesOK, TablesOK, KernelOK, UpperOK, Tables
<1>2. /\ DOMAIN q = Tables \cup {"nodes"}
      /\ \A x \in Tables \cup {"nodes"} : q[x] = IF x = t THEN [m[t] EXCEPT ![i] = e] ELSE m[x]
  BY <1>1
<1> HIDE DEF q
<1>3. q["nodes"] = m["nodes"]
  BY <1>2 DEF Tables
<1>4. TablesOK(q)
  <2>1. [m[t] EXCEPT ![i] = e] \in [Slot -> Entry \ {Table("p4")}]
    BY <1>1
  <2>2. \A j \in Slot : q["p4"][j] = IF t = "p4" /\ j = i THEN e ELSE m["p4"][j]
    BY <1>1, <1>2 DEF Tables
  <2>3. \A j \in Slot : q["p4"][j] \in {None, Table("p3"), Table("page")}
    BY <2>2 DEF PagesOK, TablesOK
  <2>4. QED BY <1>1, <1>2, <2>1, <2>3 DEF TablesOK
<1>5. \A x \in {"p4", "p3", "p2"}, j \in Slot : m[x][j] # None => q[x][j] = m[x][j]
  <2> SUFFICES ASSUME NEW x \in {"p4", "p3", "p2"}, NEW j \in Slot, m[x][j] # None
               PROVE  q[x][j] = m[x][j]
    OBVIOUS
  <2>1. x \in Tables
    BY DEF Tables
  <2>2. CASE x = t
    <3>1. i # j
      BY <2>2
    <3>2. QED BY <1>1, <1>2, <2>1, <2>2, <3>1
  <2>3. CASE x # t
    BY <1>2, <2>1, <2>3
  <2>4. QED BY <2>2, <2>3
<1>6. KernelOK(q)
  BY <1>1, <1>5, SlotEnds DEF PagesOK, KernelOK, UpperOK
<1>7. QED BY <1>3, <1>4, <1>6 DEF PagesOK, q

(* One level of the walk: a table, a large page or a frame is reached, and *)
(* the tables stay right.                                                  *)
LEMMA BelowOK ==
    ASSUME NEW m, PagesOK(m), NEW t \in Tables, NEW i \in Slot
    PROVE  /\ PagesOK(Below(m, t, i).mem)
           /\ Below(m, t, i).at \in (Tables \ {"p4"}) \cup {"large", "frame"}
           /\ t = "p4" => Below(m, t, i).at \in Tables
<1>1. /\ m[t][i] \in Entry \ {Table("p4")}
      /\ t = "p4" => m[t][i] \in {None, Table("p3"), Table("page")}
  BY DEF PagesOK, TablesOK
<1>2. CASE m[t][i] # None
  <2>1. /\ m[t][i][1] \in (Tables \ {"p4"}) \cup {"large", "frame"}
        /\ t = "p4" => m[t][i][1] \in Tables
    BY <1>1, <1>2, Entries DEF Tables
  <2>2. QED BY <1>2, <2>1 DEF Below
<1>3. CASE m[t][i] = None
  <2>1. t \in {"p4", "p3", "p2"} => NewTable(m)[t][i] = None
    BY <1>3, NewTableOK
  <2>2. Table("page") \in Entry /\ Table("page") # Table("p4")
    BY Entries DEF Tables
  <2>3. PagesOK([NewTable(m) EXCEPT ![t][i] = Table("page")])
    BY <2>1, <2>2, NewTableOK, FillOK
  <2>4. QED BY <1>3, <2>3 DEF Below, Tables
<1>4. QED BY <1>2, <1>3

(* The last level. *)
LEMMA MapEntryOK ==
    ASSUME NEW m, PagesOK(m), NEW t, t # "p4", NEW i \in Slot, NEW bit
    PROVE  PagesOK(MapEntry(m, t, i, bit).mem)
<1>1. CASE t \in Tables /\ m[t][i] = None
  <2>1. Frame4K \in Entry /\ Frame4K # Table("p4")
    BY Entries
  <2>2. PagesOK([m EXCEPT ![t][i] = Frame4K])
    BY <1>1, <2>1, FillOK
  <2>3. QED BY <1>1, <2>2 DEF MapEntry, Done
<1>2. CASE ~ (t \in Tables /\ m[t][i] = None)
  BY <1>2 DEF MapEntry, Done
<1>3. QED BY <1>1, <1>2

(* x86MapAddress, whatever it meets. *)
LEMMA MapOK ==
    ASSUME NEW m, PagesOK(m), NEW v \in Nat, NEW bit
    PROVE  PagesOK(Map(m, v, bit).mem)
<1> DEFINE pdp == Below(m, "p4", PageLevel(v, 3))
           pd  == Below(pdp.mem, pdp.at, PageLevel(v, 2))
           pt  == Below(pd.mem, pd.at, PageLevel(v, 1))
<1>1. /\ PageLevel(v, 3) \in Slot /\ PageLevel(v, 2) \in Slot
      /\ PageLevel(v, 1) \in Slot /\ PageLevel(v, 0) \in Slot
      /\ "p4" \in Tables
  BY Levels DEF Tables
<1>2. PagesOK(pdp.mem) /\ pdp.at \in Tables \ {"p4"}
  BY <1>1, BelowOK DEF Tables
<1> HIDE DEF pdp
<1>3. PagesOK(pd.mem) /\ pd.at # "p4"
  BY <1>1, <1>2, BelowOK
<1> HIDE DEF pd
<1>4. pd.at \in Tables => PagesOK(pt.mem) /\ pt.at # "p4"
  BY <1>1, <1>3, BelowOK
<1> HIDE DEF pt
<1>5. pd.at \in Tables => PagesOK(MapEntry(pt.mem, pt.at, PageLevel(v, 0), bit).mem)
  BY <1>1, <1>4, MapEntryOK
<1>6. Map(m, v, bit) \in
        {Done(pdp.mem, "fault"), Done(pd.mem, "fault")}
        \cup (IF pd.at \notin Tables THEN {Done(pd.mem, "wild")}
              ELSE {Done(pt.mem, "fault"), MapEntry(pt.mem, pt.at, PageLevel(v, 0), bit)})
  BY DEF Map, pdp, pd, pt
<1>7. QED BY <1>2, <1>3, <1>4, <1>5, <1>6 DEF Done

(* x86UnmapAddress: the kernel's entries stay, unless its own slot of p4   *)
(* is named.                                                               *)
LEMMA UnmapOK ==
    ASSUME NEW m, PagesOK(m), NEW v \in Nat
    PROVE  LET u == Unmapped(m, v) IN
           /\ TablesOK(u.mem) /\ HeapMade(u.mem["nodes"])
           /\ PageLevel(v, 3) # N - 1 => PagesOK(u.mem)
           /\ PageLevel(v, 3) = N - 1 => u.mem["p4"][N - 1] = None /\ u.status = "SUCCESS"
<1> DEFINE i == PageLevel(v, 3)
           q == [m EXCEPT !["p4"][i] = None]
<1>1. i \in Slot
  BY Levels
<1>2. /\ DOMAIN m = Tables \cup {"nodes"} /\ "p4" \in Tables
      /\ m["p4"] \in [Slot -> Entry \ {Table("p4")}]
  BY DEF PagesOK, TablesOK, Tables
<1>3. /\ DOMAIN q = Tables \cup {"nodes"}
      /\ \A t \in Tables \cup {"nodes"} : t # "p4" => q[t] = m[t]
      /\ q["p4"] = [m["p4"] EXCEPT ![i] = None]
  BY <1>2
<1>4. q["p4"] \in [Slot -> Entry \ {Table("p4")}]
  BY <1>1, <1>2, <1>3, Entries
<1>5. \A j \in Slot : q["p4"][j] = IF j = i THEN None ELSE m["p4"][j]
  BY <1>1, <1>2, <1>3
<1> HIDE DEF q, i
<1>6. TablesOK(q)
  BY <1>3, <1>4, <1>5 DEF PagesOK, TablesOK
<1>7. HeapMade(q["nodes"])
  BY <1>3 DEF PagesOK, Tables
<1>8. ASSUME i # N - 1 PROVE PagesOK(q)
  <2>1. KernelOK(q)
    BY <1>3, <1>5, <1>8, SlotEnds DEF PagesOK, KernelOK, UpperOK, Tables
  <2>2. QED BY <1>6, <1>7, <2>1 DEF PagesOK
<1>9. ASSUME i = N - 1 PROVE q["p4"][N - 1] = None /\ m["p4"][i] # None
  BY <1>5, <1>9, SlotEnds, Entries DEF PagesOK, KernelOK, UpperOK, Tables
<1>10. TablesOK(m) /\ HeapMade(m["nodes"])
  BY DEF PagesOK
<1>11. Unmapped(m, v) = IF m["p4"][i] = None THEN Done(m, "PAGE_FAILURE") ELSE Done(q, "SUCCESS")
  BY DEF Unmapped, q, i
<1>12. CASE m["p4"][i] = None
  BY <1>9, <1>10, <1>11, <1>12 DEF Done, i
<1>13. CASE m["p4"][i] # None
  BY <1>6, <1>7, <1>8, <1>9, <1>11, <1>13 DEF Done, i
<1>14. QED BY <1>12, <1>13

-----------------------------------------------------------------------------
(* The serial driver. *)

Writes == << <<2, 0>>, <<3, 128>>, <<3, 128>>, <<0, Divisor % 256>>, <<1, Divisor \div 256>>,
             <<1, 0>>, <<3, 3>>, <<2, 199>>, <<4, 11>> >>
WriteSet == {Writes[i] : i \in 1 .. 9}

(* Length and elements of two sequences put together. *)
LEMMA Concat ==
    ASSUME NEW R, NEW s \in Seq(R), NEW t \in Seq(R)
    PROVE  /\ s \o t \in Seq(R) /\ Len(s \o t) = Len(s) + Len(t)
           /\ \A i \in 1 .. Len(s) : (s \o t)[i] = s[i]
           /\ \A i \in Len(s) + 1 .. Len(s) + Len(t) : (s \o t)[i] = t[i - Len(s)]
  OBVIOUS

(* A sequence that grows along Writes. *)
LEMMA Grow ==
    ASSUME NEW s \in Seq(WriteSet), NEW t \in Seq(WriteSet),
           Len(s) + Len(t) <= 9,
           \A i \in 1 .. Len(s) : s[i] = Writes[i],
           \A i \in 1 .. Len(t) : t[i] = Writes[Len(s) + i]
    PROVE  /\ s \o t \in Seq(WriteSet) /\ Len(s \o t) = Len(s) + Len(t)
           /\ \A i \in 1 .. Len(s \o t) : (s \o t)[i] = Writes[i]
<1> DEFINE c == s \o t
<1>1. /\ c \in Seq(WriteSet) /\ Len(c) = Len(s) + Len(t)
      /\ \A i \in 1 .. Len(s) : c[i] = s[i]
      /\ \A i \in Len(s) + 1 .. Len(s) + Len(t) : c[i] = t[i - Len(s)]
  BY Concat
<1> HIDE DEF c
<1>2. \A i \in 1 .. Len(c) : c[i] = Writes[i]
  <2> SUFFICES ASSUME NEW i \in 1 .. Len(c) PROVE c[i] = Writes[i]
    OBVIOUS
  <2>1. Len(s) \in Nat /\ Len(t) \in Nat
    OBVIOUS
  <2>2. CASE i \in 1 .. Len(s)
    BY <1>1, <2>2
  <2>3. CASE i \in Len(s) + 1 .. Len(s) + Len(t)
    <3>1. i - Len(s) \in 1 .. Len(t) /\ Len(s) + (i - Len(s)) = i
      BY <2>1, <2>3
    <3>2. QED BY <1>1, <2>3, <3>1
  <2>4. QED BY <1>1, <2>1, <2>2, <2>3
<1>3. QED BY <1>1, <1>2 DEF c

(* The writes InitSerialDevice makes, one after the other. *)
LEMMA InitWritesAre ==
    /\ InitWrites \in Seq(WriteSet) /\ Len(InitWrites) = 9
    /\ \A i \in 1 .. 9 : InitWrites[i] = Writes[i]
<1> DEFINE One(k) == <<Writes[k]>>
           baud == <<Writes[3], Writes[4], Writes[5]>>
           s2 == One(1) \o One(2)
           s5 == s2 \o baud
           s6 == s5 \o One(6)
           s7 == s6 \o One(7)
           s8 == s7 \o One(8)
           s9 == s8 \o One(9)
<1>1. InitWrites = s9
  <2>1. /\ Writes[1] = <<2, 0>> /\ Writes[2] = <<3, 128>> /\ Writes[3] = <<3, 128>>
        /\ Writes[4] = <<0, Divisor % 256>> /\ Writes[5] = <<1, Divisor \div 256>>
        /\ Writes[6] = <<1, 0>> /\ Writes[7] = <<3, 3>> /\ Writes[8] = <<2, 199>>
        /\ Writes[9] = <<4, 11>>
    BY DEF Writes
  <2>2. QED BY <2>1 DEF InitWrites, SerialSetInterrupts, SerialSetMode, SerialSetFlags,
                        SerialConfigureBaudRate
<1>2. ASSUME NEW k \in 1 .. 9
      PROVE  One(k) \in Seq(WriteSet) /\ Len(One(k)) = 1 /\ One(k)[1] = Writes[k]
  BY DEF WriteSet
<1>3. /\ baud \in Seq(WriteSet) /\ Len(baud) = 3
      /\ baud[1] = Writes[3] /\ baud[2] = Writes[4] /\ baud[3] = Writes[5]
  BY DEF WriteSet
<1> DEFINE Upto(s, n) == /\ s \in Seq(WriteSet) /\ Len(s) = n
                         /\ \A i \in 1 .. n : s[i] = Writes[i]
<1>4. ASSUME NEW s, NEW n \in 1 .. 8, Upto(s, n) PROVE Upto(s \o One(n + 1), n + 1)
  <2>1. n + 1 \in 1 .. 9
    OBVIOUS
  <2>2. PICK t : t = One(n + 1)
    OBVIOUS
  <2>3. t \in Seq(WriteSet) /\ Len(t) = 1 /\ t[1] = Writes[n + 1]
    BY <1>2, <2>1, <2>2
  <2>4. \A i \in 1 .. Len(t) : t[i] = Writes[Len(s) + i]
    BY <1>4, <2>3
  <2>5. /\ s \o t \in Seq(WriteSet) /\ Len(s \o t) = Len(s) + Len(t)
        /\ \A i \in 1 .. Len(s \o t) : (s \o t)[i] = Writes[i]
    <3>1. /\ s \in Seq(WriteSet) /\ Len(s) + Len(t) <= 9
          /\ \A i \in 1 .. Len(s) : s[i] = Writes[i]
      BY <1>4, <2>3
    <3>2. QED BY <2>3, <2>4, <3>1, Grow
  <2>6. QED BY <1>4, <2>2, <2>3, <2>5
<1>5. Upto(One(1), 1)
  BY <1>2
<1> HIDE DEF One, Upto
<1>6. Upto(s2, 2)
  <2>1. 1 + 1 = 2 OBVIOUS
  <2>2. QED BY <1>4, <1>5, <2>1
<1>7. Upto(s5, 5)
  <2>1. /\ s2 \in Seq(WriteSet) /\ Len(s2) = 2 /\ \A i \in 1 .. Len(s2) : s2[i] = Writes[i]
    BY <1>6 DEF Upto
  <2> HIDE DEF s2, baud
  <2>2. \A i \in 1 .. Len(baud) : baud[i] = Writes[Len(s2) + i]
    BY <1>3, <2>1
  <2>3. /\ s5 \in Seq(WriteSet) /\ Len(s5) = Len(s2) + Len(baud)
        /\ \A i \in 1 .. Len(s5) : s5[i] = Writes[i]
    <3>1. baud \in Seq(WriteSet) /\ Len(s2) + Len(baud) <= 9
      BY <1>3, <2>1
    <3>2. QED BY <2>1, <2>2, <3>1, Grow
  <2> HIDE DEF s5
  <2>4. QED BY <1>3, <2>1, <2>3 DEF Upto
<1>8. Upto(s9, 9)
  <2> HIDE DEF s5
  <2>1. 5 + 1 = 6 /\ 6 + 1 = 7 /\ 7 + 1 = 8 /\ 8 + 1 = 9 OBVIOUS
  <2>2. Upto(s6, 6) BY <1>4, <1>7, <2>1
  <2> HIDE DEF s6
  <2>3. Upto(s7, 7) BY <1>4, <2>1, <2>2
  <2> HIDE DEF s7
  <2>4. Upto(s8, 8) BY <1>4, <2>1, <2>3
  <2> HIDE DEF s8
  <2>5. QED BY <1>4, <2>1, <2>4
<1>9. QED BY <1>1, <1>8 DEF Upto

UartType == [dlab : BOOLEAN, dll : Nat, dlm : Nat, ier : Nat, word : Nat,
             fifo : BOOLEAN, out2 : BOOLEAN, lsr : LineStatus,
             rbr : {"none", "newline", "other"}, typed : Nat]

(* What the first k writes of InitSerialDevice have achieved. *)
Configured(u, k) ==
    u.lsr # "absent" =>
        /\ k \in 2 .. 6 => u.dlab
        /\ k >= 4 => u.dll = Divisor
        /\ k >= 5 => u.dlm = 0
        /\ k >= 7 => ~ u.dlab /\ u.word = 8

(* A write keeps the type of the registers. *)
LEMMA WrittenType ==
    ASSUME NEW u \in UartType, NEW r \in Nat, NEW v \in Nat
    PROVE  Written(u, r, v) \in UartType
<1>1. (v >= 128) \in BOOLEAN /\ (v % 2 = 1) \in BOOLEAN /\ ((v \div 8) % 2 = 1) \in BOOLEAN
  OBVIOUS
<1>2. 5 + (v % 4) \in Nat
  OBVIOUS
<1>3. "busy" \in LineStatus
  BY DEF LineStatus
<1>4. CASE u.lsr = "absent"
  BY <1>4 DEF Written
<1>5. CASE u.lsr # "absent" /\ r \in {0, 1}
  BY <1>3, <1>5 DEF Written, UartType
<1>6. CASE u.lsr # "absent" /\ r = 3
  <2> DEFINE open == v >= 128
             w == 5 + (v % 4)
  <2>1. open \in BOOLEAN /\ w \in Nat
    BY <1>1, <1>2
  <2>2. Written(u, r, v) = [u EXCEPT !.dlab = open, !.word = w]
    BY <1>6 DEF Written
  <2> HIDE DEF open, w
  <2>3. QED BY <2>1, <2>2 DEF UartType
<1>7. CASE u.lsr # "absent" /\ r \notin {0, 1, 3}
  BY <1>1, <1>7 DEF Written, UartType
<1>8. QED BY <1>4, <1>5, <1>6, <1>7

(* What a write does to the latch, the divisor and the word length. *)
LEMMA WrittenIs ==
    ASSUME NEW u \in UartType, NEW r \in Nat, NEW v \in Nat, u.lsr # "absent",
           NEW w, w = Written(u, r, v)
    PROVE  /\ w.lsr # "absent"
           /\ r = 3 => (w.dlab <=> v >= 128) /\ w.word = 5 + (v % 4)
           /\ r # 3 => (w.dlab <=> u.dlab) /\ w.word = u.word
           /\ IF r = 0 /\ u.dlab THEN w.dll = v ELSE w.dll = u.dll
           /\ IF r = 1 /\ u.dlab THEN w.dlm = v ELSE w.dlm = u.dlm
<1>1. CASE r = 0 /\ u.dlab
  <2>1. w = [u EXCEPT !.dll = v]
    BY <1>1 DEF Written
  <2>2. QED BY <1>1, <2>1 DEF UartType
<1>2. CASE r = 0 /\ ~ u.dlab
  <2>1. w = [u EXCEPT !.lsr = "busy"]
    BY <1>2 DEF Written
  <2>2. QED BY <1>2, <2>1 DEF UartType
<1>3. CASE r = 1 /\ u.dlab
  <2>1. w = [u EXCEPT !.dlm = v]
    BY <1>3 DEF Written
  <2>2. QED BY <1>3, <2>1 DEF UartType
<1>4. CASE r = 1 /\ ~ u.dlab
  <2>1. w = [u EXCEPT !.ier = v]
    BY <1>4 DEF Written
  <2>2. QED BY <1>4, <2>1 DEF UartType
<1>5. CASE r = 2
  <2>1. w = [u EXCEPT !.fifo = v % 2 = 1]
    BY <1>5 DEF Written
  <2>2. QED BY <1>5, <2>1 DEF UartType
<1>6. CASE r = 3
  <2>1. w = [u EXCEPT !.dlab = v >= 128, !.word = 5 + (v % 4)]
    BY <1>6 DEF Written
  <2> DEFINE open == v >= 128
             word == 5 + (v % 4)
  <2>2. open \in BOOLEAN /\ word \in Nat /\ w = [u EXCEPT !.dlab = open, !.word = word]
    BY <2>1
  <2> HIDE DEF open, word
  <2>3. /\ w.dlab = open /\ w.word = word
        /\ w.lsr = u.lsr /\ w.dll = u.dll /\ w.dlm = u.dlm
    BY <2>2 DEF UartType
  <2>4. w.dlab <=> v >= 128
    BY <2>3, Zenon DEF open
  <2>5. w.word = 5 + (v % 4)
    BY <2>3 DEF word
  <2>6. QED BY <1>6, <2>3, <2>4, <2>5
<1>7. CASE r \notin {0, 1, 2, 3}
  <2>1. w = [u EXCEPT !.out2 = (v \div 8) % 2 = 1]
    BY <1>7 DEF Written
  <2>2. QED BY <1>7, <2>1 DEF UartType
<1>8. QED BY <1>1, <1>2, <1>3, <1>4, <1>5, <1>6, <1>7

(* Each write of InitSerialDevice does its part. *)
LEMMA WriteOK ==
    ASSUME NEW u \in UartType, NEW k \in 0 .. 8, Configured(u, k),
           NEW w, w = Written(u, Writes[k + 1][1], Writes[k + 1][2])
    PROVE  w \in UartType /\ Configured(w, k + 1)
<1>1. Divisor \in 1 .. 255 /\ Divisor % 256 = Divisor /\ Divisor \div 256 = 0
  BY SerialAssumption
<1>2. /\ Writes[1] = <<2, 0>> /\ Writes[2] = <<3, 128>> /\ Writes[3] = <<3, 128>>
      /\ Writes[4] = <<0, Divisor>> /\ Writes[5] = <<1, 0>>
      /\ Writes[6] = <<1, 0>> /\ Writes[7] = <<3, 3>> /\ Writes[8] = <<2, 199>>
      /\ Writes[9] = <<4, 11>>
  BY <1>1 DEF Writes
<1>3. PICK r \in Nat, v \in Nat :
        /\ Writes[k + 1] = <<r, v>>
        /\ k \in {0, 7} => r = 2
        /\ k \in {1, 2} => r = 3 /\ v = 128
        /\ k = 3 => r = 0 /\ v = Divisor
        /\ k \in {4, 5} => r = 1 /\ v = 0
        /\ k = 6 => r = 3 /\ v = 3
        /\ k = 8 => r = 4
  <2>1. k + 1 \in {1, 2, 3, 4, 5, 6, 7, 8, 9}
    OBVIOUS
  <2>2. QED BY <1>1, <1>2, <2>1
<1>4. w = Written(u, r, v)
  BY <1>3
<1>5. w \in UartType
  BY <1>4, WrittenType
<1>6. CASE u.lsr = "absent"
  BY <1>4, <1>5, <1>6 DEF Written, Configured
<1>7. CASE u.lsr # "absent"
  <2>1. /\ w.lsr # "absent"
        /\ r = 3 => (w.dlab <=> v >= 128) /\ w.word = 5 + (v % 4)
        /\ r # 3 => (w.dlab <=> u.dlab) /\ w.word = u.word
        /\ IF r = 0 /\ u.dlab THEN w.dll = v ELSE w.dll = u.dll
        /\ IF r = 1 /\ u.dlab THEN w.dlm = v ELSE w.dlm = u.dlm
    BY <1>4, <1>7, WrittenIs
  <2>2. CASE k \in 0 .. 4
    BY <1>3, <1>5, <1>7, <2>1, <2>2 DEF Configured
  <2>3. CASE k \in 5 .. 8
    BY <1>3, <1>5, <1>7, <2>1, <2>3 DEF Configured
  <2>4. QED BY <2>2, <2>3
<1>8. QED BY <1>6, <1>7

-----------------------------------------------------------------------------
(* The inductive invariant, by part of the state.  The blocks of code are  *)
(* ordered by what has been done when they are reached.                    *)

Before == {"_start", "_start64", "create_page_tables", "boot_panic",
           "boot_panic_invalid_arch"}
FromUnmap == {"drivers", "shell", "idle", "stopped", "lost"}
FromIdt == {"idt", "unmap"}
FromProcessor == {"processor", "gdt"} \cup FromIdt
FromArch == {"arch", "serial"} \cup FromProcessor
FromFunctions == {"functions", "memory"} \cup FromArch

(* The tables and the heap: p2 is filled, the list of nodes made.  Only a  *)
(* driver that unmaps the kernel ends that.                                *)
MemoryInv ==
    /\ TablesOK(mem) /\ HeapOK(mem["nodes"])
    /\ pc # "lost" => UpperOK(mem)
    /\ pc \notin Before \cup {"lost"} => KernelOK(mem)
    /\ pc = "lost" => map.op = "unmap"
    /\ pc \in FromArch \cup {"drivers"} => HeapMade(mem["nodes"])
    /\ tlb \in BOOLEAN

NoneLow == \A x \in Things : ptr[x] # "low"

(* The addresses: low memory stays until nothing points there. *)
PointerInv ==
    /\ ptr \in [Things -> {"none", "low", "high"}]
    /\ \A x \in {"idt", "screen", "functions", "bitmap", "heap"} : ptr[x] # "low"
    /\ pc \in {"kern_init"} \cup FromFunctions => ptr["code"] = "high" /\ ptr["stack"] = "high"
    /\ pc \in FromFunctions => ptr["screen"] = "high"
    /\ pc \in FromArch => ptr["boot"] = "none"
    /\ pc \in FromIdt => ptr["gdt"] = "high"
    /\ pc = "unmap" => ptr["idt"] = "high"
    /\ pc \notin FromUnmap => LowMapped(mem)
    /\ pc \in FromUnmap \ {"stopped"} => NoneLow
    /\ pc = "stopped" => LowMapped(mem) \/ NoneLow

(* The processor: paging, the segments, and interrupts after both. *)
CpuInv ==
    /\ cpu \in [magic : BOOLEAN, cpuid : BOOLEAN, long : BOOLEAN, paging : BOOLEAN,
               interrupts : BOOLEAN, segments : {<<>>, gdt_64, gdt_64_efi, GDTEntries}]
    /\ pc \in Before \ {"_start64"} => ~ cpu.paging
    /\ pc \in FromIdt => cpu.segments = GDTEntries
    /\ cpu.interrupts =>
         /\ pc \in FromUnmap \cup {"unmap"}
         /\ cpu.segments = GDTEntries
         /\ \A x \in {"gdt", "idt", "stack", "screen"} : ptr[x] = "high"

Indices == 0 .. 1023
ShellType == [at : {"off", "send", "read"}, pos : Nat, Index : Indices,
              CmdBuffer : {"none", "newline", "other"}]

(* The serial port: how far it is configured. *)
SerialInv ==
    /\ uart \in UartType /\ shell \in ShellType
    /\ shell.at # "off" => pc = "shell"
    /\ pc = "serial" =>
         /\ todo \in Seq(WriteSet) /\ Len(todo) <= 9
         /\ \A i \in 1 .. Len(todo) : todo[i] = Writes[(9 - Len(todo)) + i]
         /\ Configured(uart, 9 - Len(todo))
    /\ pc \in FromProcessor \cup {"drivers", "shell"} => Configured(uart, 9)

IInv == MemoryInv /\ PointerInv /\ CpuInv /\ SerialInv

-----------------------------------------------------------------------------

(* The invariant holds at power-on. *)
LEMMA InitIInv == Init => IInv
<1> SUFFICES ASSUME Init PROVE IInv
  OBVIOUS
<1>1. /\ pc \in {"_start", "_start64"} /\ tlb = FALSE
      /\ ptr = [x \in Things |-> IF x \in {"code", "stack"} THEN "low" ELSE "none"]
      /\ DOMAIN mem = Tables \cup {"nodes"} /\ mem["nodes"] = NoHeap
      /\ mem["p4"] = BothEnds("p3") /\ mem["p3"] = BothEnds("p2")
      /\ \A t \in Tables \ {"p4", "p3"} : mem[t] = Empty
  BY DEF Init, InitPaging, Tables, p4_table, p3_table
<1>2. MemoryInv
  <2>1. /\ Table("p3") \in Entry \ {Table("p4")} /\ Table("p2") \in Entry \ {Table("p4")}
        /\ None \in Entry \ {Table("p4")}
    BY Entries DEF Tables
  <2>2. /\ mem["p4"] \in [Slot -> Entry \ {Table("p4")}]
        /\ mem["p3"] \in [Slot -> Entry \ {Table("p4")}]
        /\ \A i \in Slot : mem["p4"][i] \in {None, Table("p3"), Table("page")}
        /\ Empty \in [Slot -> Entry \ {Table("p4")}]
    BY <1>1, <2>1 DEF BothEnds, Empty
  <2>3. TablesOK(mem)
    BY <1>1, <2>2 DEF TablesOK
  <2>4. UpperOK(mem)
    BY <1>1, SlotEnds DEF UpperOK, BothEnds
  <2>5. QED BY <1>1, <2>3, <2>4, NoHeapOK
            DEF MemoryInv, Before, FromArch, FromProcessor, FromIdt
<1>3. PointerInv
  <2>1. LowMapped(mem)
    BY <1>1, SlotEnds DEF LowMapped, BothEnds
  <2>2. QED BY <1>1, <2>1
            DEF PointerInv, Things, FromUnmap, FromFunctions, FromArch, FromProcessor, FromIdt
<1>4. CpuInv
  <2>1. PICK entry \in {"_start", "_start64"}, magic \in BOOLEAN,
             cpuid \in BOOLEAN, long \in BOOLEAN :
          /\ pc = entry
          /\ cpu = [magic |-> magic, cpuid |-> cpuid, long |-> long,
                    paging |-> entry = "_start64", interrupts |-> FALSE, segments |-> <<>>]
    BY DEF Init
  <2>2. /\ cpu.magic \in BOOLEAN /\ cpu.cpuid \in BOOLEAN /\ cpu.long \in BOOLEAN
        /\ cpu.interrupts = FALSE /\ cpu.segments = <<>>
        /\ cpu.paging = (entry = "_start64") /\ (entry = "_start64") \in BOOLEAN
    BY <2>1
  <2>3. cpu \in [magic : BOOLEAN, cpuid : BOOLEAN, long : BOOLEAN, paging : BOOLEAN,
                 interrupts : BOOLEAN, segments : {<<>>, gdt_64, gdt_64_efi, GDTEntries}]
    BY <2>1, <2>2
  <2>4. QED BY <2>1, <2>2, <2>3
            DEF CpuInv, Before, FromIdt
<1>5. SerialInv
  <2>1. uart \in UartType
    BY DEF Init, InitSerial, UartType, LineStatus
  <2>2. shell \in ShellType /\ shell.at = "off"
    <3>1. 0 \in Indices
      BY DEF Indices
    <3>2. QED BY <3>1 DEF Init, InitSerial, ShellType
  <2>3. QED BY <1>1, <2>1, <2>2 DEF SerialInv, FromProcessor, FromIdt
<1>6. QED BY <1>2, <1>3, <1>4, <1>5 DEF IInv

-----------------------------------------------------------------------------
(* Every step keeps it, part by part. *)

(* The tables and the heap under a call of the paging interface. *)
LEMMA PagingCallOK ==
    ASSUME IInv, PagingCall
    PROVE  /\ TablesOK(mem') /\ HeapMade(mem'["nodes"]) /\ tlb' = tlb
           /\ pc' # "lost" => PagesOK(mem')
           /\ pc' = "lost" => map'.op = "unmap"
<1>1. PagesOK(mem)
  BY DEF IInv, MemoryInv, PagingCall, PagesOK, Before
<1>2. ASSUME NEW v \in VAddrs, x86MapAddress(v) PROVE PagesOK(mem') /\ tlb' = tlb
  <2>1. v \in Nat
    BY AddressAssumption
  <2>2. PICK bit \in BOOLEAN : mem' = Map(mem, v, bit).mem /\ tlb' = tlb
    BY <1>2 DEF x86MapAddress, Answer
  <2>3. QED BY <1>1, <2>1, <2>2, MapOK
<1>3. ASSUME NEW v \in VAddrs, x86UnmapAddress(v)
      PROVE  /\ TablesOK(mem') /\ HeapMade(mem'["nodes"]) /\ tlb' = tlb
             /\ pc' # "lost" => PagesOK(mem')
             /\ map'.op = "unmap"
  <2>1. v \in Nat
    BY AddressAssumption
  <2>2. mem' = Unmapped(mem, v).mem /\ map'.op = "unmap" /\ map'.status = Unmapped(mem, v).status /\ tlb' = tlb
    BY <1>3 DEF x86UnmapAddress, Answer
  <2>3. pc' = IF map'.status \in {"fault", "wild"} THEN "stopped"
             ELSE IF mem'["p4"][N - 1] = None THEN "lost" ELSE pc
    BY DEF PagingCall
  <2>4. QED BY <1>1, <2>1, <2>2, <2>3, UnmapOK
<1>4. ASSUME NEW v \in VAddrs \cup {0}, NEW f \in FrameArgs, NEW Pages \in 1 .. 2,
             MmKernelAllocPages(Pages, f, v)
      PROVE  PagesOK(mem') /\ tlb' = tlb
  <2>1. (IF v = 0 THEN KERN_PHYS_TO_VIRT(f) ELSE v) \in Nat
    <3>1. KERN_VIRT_OFFSET \in Nat
      <4>1. N \in Nat \ {0} /\ N - 1 \in Nat
        BY PagingAssumption
      <4>2. N * N \in Nat
        BY <4>1
      <4>3. N * N * N \in Nat
        BY <4>1, <4>2
      <4>4. PICK s \in Nat : Span[4] = s
        BY <4>3 DEF Span
      <4>5. QED BY <4>1, <4>4 DEF KERN_VIRT_OFFSET
    <3>2. QED BY <3>1, AddressAssumption DEF KERN_PHYS_TO_VIRT
  <2>2. PICK w \in Nat, bit \in BOOLEAN, again \in BOOLEAN :
          /\ mem' \in {mem, Map(mem, w, bit).mem, MapTwice(Map(mem, w, bit), w, again).mem}
          /\ tlb' = tlb
    BY <1>4, <2>1 DEF MmKernelAllocPages, Answer, Conflict, Done
  <2> DEFINE first == Map(mem, w, bit)
             seen == again \/ first.outside
             second == Map(first.mem, w, seen)
  <2>3. PagesOK(first.mem)
    BY <1>1, MapOK
  <2>4. PagesOK(second.mem)
    <3> HIDE DEF first, seen
    <3>1. QED BY <2>3, MapOK
  <2>5. MapTwice(first, w, again).mem \in {first.mem, second.mem}
    <3>1. second.mem = [second EXCEPT !.outside = @ \/ first.outside].mem
      <4> HIDE DEF second
      <4>1. QED OBVIOUS
    <3>2. QED BY <3>1 DEF MapTwice
  <2> HIDE DEF first, seen, second
  <2>6. QED BY <1>1, <2>2, <2>3, <2>4, <2>5 DEF first
<1>5. ASSUME PagesOK(mem')
      PROVE  TablesOK(mem') /\ HeapMade(mem'["nodes"]) /\ pc' # "lost"
  <2>1. mem'["p4"][N - 1] # None
    BY <1>5 DEF PagesOK, KernelOK, UpperOK, Table, None
  <2>2. QED BY <1>5, <2>1 DEF PagesOK, PagingCall
<1>6. QED BY <1>2, <1>3, <1>4, <1>5 DEF PagingCall

(* create_page_tables fills p2 and leaves the rest. *)
LEMMA CreateOK ==
    ASSUME TablesOK(mem), UpperOK(mem), create_page_tables
    PROVE  TablesOK(mem') /\ KernelOK(mem') /\ mem'["nodes"] = mem["nodes"]
           /\ mem'["p4"] = mem["p4"]
<1>1. /\ DOMAIN mem' = Tables \cup {"nodes"} /\ "p2" \in Tables
      /\ \A t \in Tables \cup {"nodes"} :
           mem'[t] = IF t = "p2" THEN [i \in Slot |-> Large(i)] ELSE mem[t]
  BY DEF create_page_tables, TablesOK, Tables
<1>2. [i \in Slot |-> Large(i)] \in [Slot -> Entry \ {Table("p4")}]
  BY Entries
<1>3. TablesOK(mem')
  BY <1>1, <1>2 DEF TablesOK, Tables
<1>4. KernelOK(mem')
  BY <1>1 DEF KernelOK, UpperOK, Tables
<1>5. QED BY <1>1, <1>3, <1>4 DEF Tables

(* The tables and the heap. *)
LEMMA MemoryNext == ASSUME IInv, Next PROVE MemoryInv'
<1>1. /\ TablesOK(mem) /\ HeapOK(mem["nodes"]) /\ tlb \in BOOLEAN
      /\ pc # "lost" => UpperOK(mem)
  BY DEF IInv, MemoryInv
<1>2. ASSUME mem' = mem, tlb' \in BOOLEAN, pc = "lost" => pc' = "lost",
             pc' = "lost" => pc = "lost" /\ map' = map,
             pc' \notin Before => pc \notin Before,
             pc' \in FromArch \cup {"drivers"} => pc \in FromArch \cup {"drivers"}
      PROVE  MemoryInv'
  BY <1>2 DEF IInv, MemoryInv
<1>3. CASE Checks
  BY <1>1, <1>2, <1>3 DEF Checks, Go, Point, paging, devices,
     Before, FromArch, FromProcessor, FromIdt
<1>4. CASE EnablePaging
  BY <1>1, <1>2, <1>4 DEF EnablePaging, Go, paging, devices,
     Before, FromArch, FromProcessor, FromIdt
<1>5. CASE CreateGdt
  BY <1>1, <1>2, <1>5 DEF CreateGdt, Go, Point, paging, devices,
     Before, FromArch, FromProcessor, FromIdt
<1>6. CASE KernStart
  BY <1>1, <1>2, <1>6 DEF KernStart, Go, Point, FlushTLB, paging, devices,
     Before, FromArch, FromProcessor, FromIdt
<1>7. CASE KernStart64
  BY <1>1, <1>2, <1>7 DEF KernStart64, Go, FlushTLB, paging, devices,
     Before, FromArch, FromProcessor, FromIdt
<1>8. CASE KernInit
  BY <1>1, <1>2, <1>8 DEF KernInit, Go, Point, paging, devices,
     Before, FromArch, FromProcessor, FromIdt
<1>9. CASE KiUpdateFirmwareFunctions
  BY <1>1, <1>2, <1>9 DEF KiUpdateFirmwareFunctions, Go, Point, paging, devices,
     Before, FromArch, FromProcessor, FromIdt
<1>10. CASE KiStartupArch
  BY <1>1, <1>2, <1>10 DEF KiStartupArch, Go, BeginInitSerialDevice, paging, devices,
     Before, FromArch, FromProcessor, FromIdt
<1>11. CASE SerialInitStep
  BY <1>1, <1>2, <1>11 DEF SerialInitStep, PortWrite, paging, devices,
     Before, FromArch, FromProcessor, FromIdt
<1>12. CASE SerialInitEnd
  BY <1>1, <1>2, <1>12 DEF SerialInitEnd, Go, EndInitSerialDevice, paging, devices,
     Before, FromArch, FromProcessor, FromIdt
<1>13. CASE KiStartupProcessor
  BY <1>1, <1>2, <1>13 DEF KiStartupProcessor, Go, paging, devices,
     Before, FromArch, FromProcessor, FromIdt
<1>14. CASE x86InitializeGDT
  BY <1>1, <1>2, <1>14 DEF x86InitializeGDT, Go, Point, paging, devices,
     Before, FromArch, FromProcessor, FromIdt
<1>15. CASE x86InitializeIDT
  BY <1>1, <1>2, <1>15 DEF x86InitializeIDT, Go, Point, paging, devices,
     Before, FromArch, FromProcessor, FromIdt
<1>16. CASE EnterShell
  BY <1>1, <1>2, <1>16 DEF EnterShell, Go, BeginPrompt, paging, devices,
     Before, FromArch, FromProcessor, FromIdt
<1>17. CASE ShellStep
  BY <1>1, <1>2, <1>17 DEF ShellStep, paging, devices,
     Before, FromArch, FromProcessor, FromIdt
<1>18. CASE Evict
  BY <1>1, <1>2, <1>18 DEF Evict, FlushTLB, paging, devices,
     Before, FromArch, FromProcessor, FromIdt
<1>19. CASE Line
  BY <1>1, <1>2, <1>19 DEF Line, paging, devices,
     Before, FromArch, FromProcessor, FromIdt
<1>20. CASE Halt
  BY <1>1, <1>2, <1>20 DEF Halt, vars, paging, devices,
     Before, FromArch, FromProcessor, FromIdt
<1>21. CASE CreatePageTables \/ Start64
  <2>1. /\ create_page_tables /\ pc' \in {"enable_paging", "kern_start64"}
        /\ tlb' \in BOOLEAN /\ pc # "lost"
    BY <1>1, <1>21 DEF CreatePageTables, Start64, Go
  <2>2. TablesOK(mem') /\ KernelOK(mem') /\ mem'["nodes"] = mem["nodes"]
    BY <1>1, <2>1, CreateOK
  <2>3. QED BY <1>1, <2>1, <2>2
            DEF MemoryInv, KernelOK, FromArch, FromProcessor, FromIdt
<1>22. CASE KiStartupMemory
  <2>1. CASE mem' = mem /\ pc' = "stopped"
    BY <1>1, <1>2, <1>22, <2>1
    DEF KiStartupMemory, Before, FromArch, FromProcessor, FromIdt
  <2>2. CASE pc' = "arch" /\ mem' = [mem EXCEPT !["nodes"] = MmCreateAllocatorState]
    <3>1. /\ DOMAIN mem' = Tables \cup {"nodes"} /\ mem'["nodes"] = MmCreateAllocatorState
          /\ \A t \in Tables : mem'[t] = mem[t]
      BY <1>1, <2>2 DEF TablesOK, Tables
    <3>2. KernelOK(mem) /\ tlb' = TRUE
      BY <1>22 DEF IInv, MemoryInv, KiStartupMemory, Before
    <3>3. TablesOK(mem') /\ KernelOK(mem')
      BY <1>1, <3>1, <3>2 DEF TablesOK, KernelOK, UpperOK, Tables
    <3>4. QED BY <2>2, <3>1, <3>2, <3>3, CreateMade DEF MemoryInv, KernelOK, HeapMade
  <2>3. QED BY <1>22, <2>1, <2>2 DEF KiStartupMemory, Go
<1>23. CASE UnmapLowMemory
  <2>1. PagesOK(mem)
    BY <1>23 DEF IInv, MemoryInv, UnmapLowMemory, PagesOK,
                  Before, FromArch, FromProcessor, FromIdt
  <2>2. mem' = Unmapped(mem, 0).mem /\ tlb' = tlb
    BY <1>23 DEF UnmapLowMemory, x86UnmapAddress, Answer
  <2>3. PageLevel(0, 3) # N - 1
    <3>1. PageLevel(0, 3) = 0
      BY Levels
    <3>2. QED BY <3>1, SlotEnds
  <2>4. PagesOK(mem')
    BY <2>1, <2>2, <2>3, UnmapOK
  <2>5. pc' = "drivers"
    BY <1>23 DEF UnmapLowMemory, Go
  <2>6. QED BY <1>1, <2>2, <2>4, <2>5 DEF PagesOK, MemoryInv, KernelOK, HeapMade
<1>24. CASE PagingCall
  <2>1. /\ TablesOK(mem') /\ HeapMade(mem'["nodes"]) /\ tlb' = tlb
        /\ pc' # "lost" => PagesOK(mem')
        /\ pc' = "lost" => map'.op = "unmap"
    BY <1>24, PagingCallOK
  <2>2. QED BY <1>1, <2>1 DEF PagesOK, MemoryInv, KernelOK, HeapMade
<1>25. QED
  BY <1>3, <1>4, <1>5, <1>6, <1>7, <1>8, <1>9, <1>10, <1>11, <1>12, <1>13, <1>14, <1>15, <1>16, <1>17, <1>18, <1>19, <1>20, <1>21, <1>22, <1>23, <1>24 DEF Next, Main

(* The addresses. *)
LEMMA PointerNext == ASSUME IInv, Next PROVE PointerInv'
<1> USE DEF FromUnmap, FromIdt, FromProcessor, FromArch, FromFunctions
<1>1. PointerInv /\ ptr \in [Things -> {"none", "low", "high"}]
  BY DEF IInv, PointerInv
<1>2. CASE Checks
  BY <1>1, <1>2 DEF Checks, Go, Point, paging, devices, PointerInv, NoneLow, LowMapped, Things
<1>3. CASE EnablePaging
  BY <1>1, <1>3 DEF EnablePaging, Go, paging, devices, PointerInv, NoneLow, LowMapped, Things
<1>4. CASE CreateGdt
  BY <1>1, <1>4 DEF CreateGdt, Go, Point, paging, devices, PointerInv, NoneLow, LowMapped, Things
<1>5. CASE KernStart
  BY <1>1, <1>5 DEF KernStart, Go, Point, FlushTLB, paging, devices, PointerInv, NoneLow, LowMapped, Things
<1>6. CASE KernStart64
  BY <1>1, <1>6 DEF KernStart64, Go, FlushTLB, paging, devices, PointerInv, NoneLow, LowMapped, Things
<1>7. CASE KernInit
  BY <1>1, <1>7 DEF KernInit, Go, Point, paging, devices, PointerInv, NoneLow, LowMapped, Things
<1>8. CASE KiUpdateFirmwareFunctions
  BY <1>1, <1>8 DEF KiUpdateFirmwareFunctions, Go, Point, paging, devices, PointerInv, NoneLow, LowMapped, Things
<1>9. CASE KiStartupArch
  BY <1>1, <1>9 DEF KiStartupArch, Go, BeginInitSerialDevice, paging, devices, PointerInv, NoneLow, LowMapped, Things
<1>10. CASE SerialInitStep
  BY <1>1, <1>10 DEF SerialInitStep, PortWrite, paging, devices, PointerInv, NoneLow, LowMapped, Things
<1>11. CASE SerialInitEnd
  BY <1>1, <1>11 DEF SerialInitEnd, Go, EndInitSerialDevice, paging, devices, PointerInv, NoneLow, LowMapped, Things
<1>12. CASE KiStartupProcessor
  BY <1>1, <1>12 DEF KiStartupProcessor, Go, paging, devices, PointerInv, NoneLow, LowMapped, Things
<1>13. CASE x86InitializeGDT
  BY <1>1, <1>13 DEF x86InitializeGDT, Go, Point, paging, devices, PointerInv, NoneLow, LowMapped, Things
<1>14. CASE x86InitializeIDT
  BY <1>1, <1>14 DEF x86InitializeIDT, Go, Point, paging, devices, PointerInv, NoneLow, LowMapped, Things
<1>15. CASE EnterShell
  BY <1>1, <1>15 DEF EnterShell, Go, BeginPrompt, paging, devices, PointerInv, NoneLow, LowMapped, Things
<1>16. CASE ShellStep
  BY <1>1, <1>16 DEF ShellStep, paging, devices, PointerInv, NoneLow, LowMapped, Things
<1>17. CASE Evict
  BY <1>1, <1>17 DEF Evict, FlushTLB, paging, devices, PointerInv, NoneLow, LowMapped, Things
<1>18. CASE Line
  BY <1>1, <1>18 DEF Line, paging, devices, PointerInv, NoneLow, LowMapped, Things
<1>19. CASE Halt
  BY <1>1, <1>19 DEF Halt, vars, paging, devices, PointerInv, NoneLow, LowMapped, Things
<1>20. CASE CreatePageTables \/ Start64
  <2>1. mem'["p4"] = mem["p4"]
    BY <1>20, CreateOK DEF IInv, MemoryInv, CreatePageTables, Start64
  <2>2. QED BY <1>1, <1>20, <2>1
            DEF CreatePageTables, Start64, Go, PointerInv, LowMapped, Things
<1>21. CASE KiStartupMemory
  <2>1. mem'["p4"] = mem["p4"]
    BY <1>21 DEF IInv, MemoryInv, TablesOK, Tables, KiStartupMemory
  <2>2. QED BY <1>1, <1>21, <2>1
            DEF KiStartupMemory, Go, PointerInv, NoneLow, LowMapped, Things
<1>22. CASE UnmapLowMemory
  BY <1>1, <1>22 DEF UnmapLowMemory, Go, PointerInv, NoneLow, Things
<1>23. CASE PagingCall
  BY <1>1, <1>23 DEF PagingCall, PointerInv, NoneLow
<1>24. QED
  BY <1>2, <1>3, <1>4, <1>5, <1>6, <1>7, <1>8, <1>9, <1>10, <1>11, <1>12, <1>13, <1>14, <1>15, <1>16, <1>17, <1>18, <1>19, <1>20, <1>21, <1>22, <1>23 DEF Next, Main

(* The processor. *)
LEMMA CpuNext == ASSUME IInv, Next PROVE CpuInv'
<1> USE DEF FromUnmap, FromIdt, FromProcessor, FromArch, FromFunctions, Before
<1> DEFINE CpuType == [magic : BOOLEAN, cpuid : BOOLEAN, long : BOOLEAN, paging : BOOLEAN,
                       interrupts : BOOLEAN,
                       segments : {<<>>, gdt_64, gdt_64_efi, GDTEntries}]
<1>1. CpuInv /\ PointerInv /\ cpu \in CpuType
  BY DEF IInv, CpuInv
<1>2. ptr \in [Things -> {"none", "low", "high"}]
  BY <1>1 DEF PointerInv
<1>3. CASE Checks
  BY <1>1, <1>3 DEF Checks, Go, Point, devices, CpuInv
<1>4. CASE CreatePageTables
  BY <1>1, <1>4 DEF CreatePageTables, Go, create_page_tables, devices, CpuInv
<1>5. CASE KernStart
  BY <1>1, <1>5 DEF KernStart, Go, Point, FlushTLB, devices, CpuInv
<1>6. CASE KernStart64
  BY <1>1, <1>6 DEF KernStart64, Go, FlushTLB, devices, CpuInv
<1>7. CASE KernInit
  BY <1>1, <1>7 DEF KernInit, Go, Point, devices, CpuInv
<1>8. CASE KiUpdateFirmwareFunctions
  BY <1>1, <1>8 DEF KiUpdateFirmwareFunctions, Go, Point, devices, CpuInv
<1>9. CASE KiStartupMemory
  BY <1>1, <1>9 DEF KiStartupMemory, Go, devices, CpuInv
<1>10. CASE KiStartupArch
  BY <1>1, <1>10 DEF KiStartupArch, Go, BeginInitSerialDevice, devices, CpuInv
<1>11. CASE SerialInitStep
  BY <1>1, <1>11 DEF SerialInitStep, PortWrite, devices, CpuInv
<1>12. CASE SerialInitEnd
  BY <1>1, <1>12 DEF SerialInitEnd, Go, EndInitSerialDevice, devices, CpuInv
<1>13. CASE EnterShell
  BY <1>1, <1>13 DEF EnterShell, Go, BeginPrompt, devices, CpuInv
<1>14. CASE ShellStep
  BY <1>1, <1>14 DEF ShellStep, devices, CpuInv
<1>15. CASE PagingCall
  BY <1>1, <1>15 DEF PagingCall, devices, CpuInv
<1>16. CASE Evict
  BY <1>1, <1>16 DEF Evict, FlushTLB, devices, CpuInv
<1>17. CASE Line
  BY <1>1, <1>17 DEF Line, devices, CpuInv
<1>18. CASE Halt
  BY <1>1, <1>18 DEF Halt, vars, devices, CpuInv
<1>19. CASE EnablePaging
  <2>1. cpu' = [cpu EXCEPT !.paging = TRUE] /\ pc' = "create_gdt"
    BY <1>19 DEF EnablePaging, Go
  <2>2. cpu' \in CpuType
    BY <1>1, <2>1
  <2>3. QED BY <1>1, <1>2, <1>19, <2>1, <2>2 DEF EnablePaging, Go, CpuInv, PointerInv, Things
<1>20. CASE CreateGdt
  <2>1. cpu' = [cpu EXCEPT !.segments = gdt_64] /\ pc' = "kern_start"
    BY <1>20 DEF CreateGdt, Go
  <2>2. cpu' \in CpuType
    BY <1>1, <2>1
  <2>3. QED BY <1>1, <1>2, <1>20, <2>1, <2>2 DEF CreateGdt, Go, Point, CpuInv, PointerInv, Things
<1>21. CASE Start64
  <2>1. cpu' = [cpu EXCEPT !.segments = gdt_64_efi] /\ pc' = "kern_start64"
    BY <1>21 DEF Start64, Go
  <2>2. cpu' \in CpuType
    BY <1>1, <2>1
  <2>3. QED BY <1>1, <1>2, <1>21, <2>1, <2>2 DEF Start64, Go, create_page_tables, CpuInv, PointerInv, Things
<1>22. CASE KiStartupProcessor
  <2>1. cpu' = [cpu EXCEPT !.interrupts = FALSE] /\ pc' = "gdt"
    BY <1>22 DEF KiStartupProcessor, Go
  <2>2. cpu' \in CpuType
    BY <1>1, <2>1
  <2>3. QED BY <1>1, <1>2, <1>22, <2>1, <2>2 DEF KiStartupProcessor, Go, CpuInv, PointerInv, Things
<1>23. CASE x86InitializeGDT
  <2>1. cpu' = [cpu EXCEPT !.segments = GDTEntries] /\ pc' = "idt"
    BY <1>23 DEF x86InitializeGDT, Go
  <2>2. cpu' \in CpuType
    BY <1>1, <2>1
  <2>3. QED BY <1>1, <1>2, <1>23, <2>1, <2>2 DEF x86InitializeGDT, Go, Point, CpuInv, PointerInv, Things
<1>24. CASE x86InitializeIDT
  <2>1. cpu' = [cpu EXCEPT !.interrupts = TRUE] /\ pc' = "unmap"
    BY <1>24 DEF x86InitializeIDT, Go
  <2>2. cpu' \in CpuType
    BY <1>1, <2>1
  <2>3. QED BY <1>1, <1>2, <1>24, <2>1, <2>2 DEF x86InitializeIDT, Go, Point, CpuInv, PointerInv, Things
<1>25. CASE UnmapLowMemory
  <2>1. cpu' = [cpu EXCEPT !.interrupts = TRUE] /\ pc' = "drivers"
    BY <1>25 DEF UnmapLowMemory, Go
  <2>2. cpu' \in CpuType
    BY <1>1, <2>1
  <2>3. QED BY <1>1, <1>2, <1>25, <2>1, <2>2 DEF UnmapLowMemory, Go, CpuInv, PointerInv, Things
<1>26. QED
  BY <1>3, <1>4, <1>5, <1>6, <1>7, <1>8, <1>9, <1>10, <1>11, <1>12, <1>13, <1>14, <1>15, <1>16, <1>17, <1>18, <1>19, <1>20, <1>21, <1>22, <1>23, <1>24, <1>25 DEF Next, Main

(* Taking the first element off a sequence. *)
LEMMA TailIs ==
    ASSUME NEW R, NEW s \in Seq(R), s # <<>>
    PROVE  /\ Len(s) \in Nat \ {0} /\ Head(s) = s[1] /\ Tail(s) \in Seq(R)
           /\ Len(Tail(s)) = Len(s) - 1
           /\ \A i \in 1 .. Len(s) - 1 : Tail(s)[i] = s[i + 1]
OBVIOUS

(* Counting the writes down. *)
LEMMA UpToNine ==
    ASSUME NEW n \in Nat, n <= 9
    PROVE  /\ 9 - n \in 0 .. 9
           /\ n # 0 => /\ n \in 1 .. 9 /\ 1 \in 1 .. n /\ 9 - n \in 0 .. 8
                       /\ n - 1 <= 9 /\ 9 - (n - 1) = (9 - n) + 1
OBVIOUS

(* A configured port stays so under the writes that come later, and under  *)
(* what happens on the line.                                               *)
LEMMA StaysConfigured ==
    ASSUME NEW u \in UartType, NEW w,
           \/ \E v \in Nat : w = Written(u, 0, v)
           \/ \E v \in Nat : w = Written(u, 2, v),
           Configured(u, 9)
    PROVE  w \in UartType /\ Configured(w, 9)
<1>1. PICK r \in {0, 2}, v \in Nat : w = Written(u, r, v)
  OBVIOUS
<1>2. w \in UartType
  BY <1>1, WrittenType
<1>3. CASE u.lsr = "absent"
  BY <1>1, <1>2, <1>3 DEF Written
<1>4. CASE u.lsr # "absent"
  <2>1. ~ u.dlab /\ u.dll = Divisor /\ u.dlm = 0 /\ u.word = 8
    BY <1>4 DEF Configured
  <2>2. /\ r # 3 => (w.dlab <=> u.dlab) /\ w.word = u.word
        /\ IF r = 0 /\ u.dlab THEN w.dll = v ELSE w.dll = u.dll
        /\ IF r = 1 /\ u.dlab THEN w.dlm = v ELSE w.dlm = u.dlm
    BY <1>1, <1>4, WrittenIs
  <2>3. QED BY <1>2, <2>1, <2>2 DEF Configured
<1>5. QED BY <1>3, <1>4

(* The other end of the line changes neither latch nor divisor. *)
LEMMA LineOK ==
    ASSUME uart \in UartType, NEW k \in 0 .. 9, Configured(uart, k),
           Transmitted \/ \E c \in {"newline", "other"} : Typed(c)
    PROVE  uart' \in UartType /\ Configured(uart', k)
<1>1. CASE Transmitted
  <2>1. uart' = [uart EXCEPT !.lsr = "empty"] /\ uart.lsr # "absent"
    BY <1>1 DEF Transmitted
  <2>2. QED BY <2>1 DEF UartType, LineStatus, Configured
<1>2. ASSUME NEW c \in {"newline", "other"}, Typed(c)
      PROVE  uart' \in UartType /\ Configured(uart', k)
  <2>1. uart' = [uart EXCEPT !.rbr = c, !.typed = uart.typed + 1]
    BY <1>2 DEF Typed
  <2>2. uart.typed + 1 \in Nat
    BY DEF UartType
  <2>3. uart' \in UartType
    BY <2>1, <2>2 DEF UartType
  <2>4. /\ uart'.lsr = uart.lsr /\ uart'.dlab = uart.dlab /\ uart'.dll = uart.dll
        /\ uart'.dlm = uart.dlm /\ uart'.word = uart.word
    BY <2>1 DEF UartType
  <2>5. QED BY <2>3, <2>4 DEF Configured
<1>3. QED BY <1>1, <1>2

(* The serial port and the prompt. *)
LEMMA SerialNext == ASSUME IInv, Next PROVE SerialInv'
<1> USE DEF FromProcessor, FromIdt
<1>1. SerialInv /\ uart \in UartType /\ shell \in ShellType
  BY DEF IInv, SerialInv
<1>2. ASSUME uart' = uart, shell' = shell, todo' = todo,
             shell.at # "off" => pc' = "shell", pc' # "serial" \/ pc = "serial",
             pc' \in FromProcessor \cup {"drivers", "shell"}
               => pc \in FromProcessor \cup {"drivers", "shell"}
      PROVE  SerialInv'
  BY <1>1, <1>2 DEF SerialInv
<1>3. CASE Checks \/ CreatePageTables \/ EnablePaging \/ CreateGdt \/ KernStart
  BY <1>1, <1>2, <1>3
  DEF Checks, CreatePageTables, EnablePaging, CreateGdt, KernStart, Go, devices, SerialInv
<1>4. CASE Start64 \/ KernStart64 \/ KernInit \/ KiUpdateFirmwareFunctions \/ KiStartupMemory
  BY <1>1, <1>2, <1>4
  DEF Start64, KernStart64, KernInit, KiUpdateFirmwareFunctions, KiStartupMemory, Go,
      devices, SerialInv
<1>5. CASE KiStartupProcessor \/ x86InitializeGDT \/ x86InitializeIDT \/ UnmapLowMemory
  BY <1>1, <1>2, <1>5
  DEF KiStartupProcessor, x86InitializeGDT, x86InitializeIDT, UnmapLowMemory, Go,
      devices, SerialInv
<1>6. CASE PagingCall \/ Evict \/ Halt
  BY <1>1, <1>2, <1>6 DEF PagingCall, Evict, Halt, vars, devices, SerialInv
<1>7. CASE KiStartupArch
  <2>1. /\ pc' = "serial" /\ todo' = InitWrites /\ UNCHANGED <<uart, shell>>
        /\ shell.at = "off"
    BY <1>1, <1>7 DEF KiStartupArch, BeginInitSerialDevice, Go, SerialInv
  <2>2. /\ todo' \in Seq(WriteSet) /\ Len(todo') = 9
        /\ \A i \in 1 .. 9 : todo'[i] = Writes[i]
    BY <2>1, InitWritesAre
  <2>3. \A i \in 1 .. Len(todo') : todo'[i] = Writes[(9 - Len(todo')) + i]
    <3>1. \A i \in 1 .. 9 : (9 - 9) + i = i
      OBVIOUS
    <3>2. QED BY <2>2, <3>1
  <2>4. Configured(uart', 9 - Len(todo'))
    BY <2>2 DEF Configured
  <2>5. QED BY <1>1, <2>1, <2>2, <2>3, <2>4 DEF SerialInv
<1>8. CASE SerialInitStep
  <2>1. /\ pc = "serial" /\ pc' = pc /\ shell' = shell /\ todo # <<>>
        /\ uart' = Written(uart, Head(todo)[1], Head(todo)[2]) /\ todo' = Tail(todo)
    BY <1>8 DEF SerialInitStep, PortWrite
  <2>2. /\ todo \in Seq(WriteSet) /\ Len(todo) <= 9
        /\ \A i \in 1 .. Len(todo) : todo[i] = Writes[(9 - Len(todo)) + i]
        /\ Configured(uart, 9 - Len(todo))
    BY <1>1, <2>1 DEF SerialInv
  <2>3. /\ Len(todo) \in Nat \ {0} /\ Head(todo) = todo[1]
        /\ todo' \in Seq(WriteSet) /\ Len(todo') = Len(todo) - 1
        /\ \A i \in 1 .. Len(todo) - 1 : todo'[i] = todo[i + 1]
    BY <2>1, <2>2, TailIs
  <2>4. PICK n \in Nat : n = Len(todo) /\ n <= 9 /\ n # 0
    BY <2>2, <2>3
  <2>5. /\ Len(todo') = n - 1 /\ n - 1 <= 9 /\ 9 - (n - 1) = (9 - n) + 1 /\ 9 - n \in 0 .. 8
        /\ 1 \in 1 .. n
    <3>1. Len(todo') = n - 1
      BY <2>3, <2>4
    <3>2. QED BY <2>4, <3>1, UpToNine
  <2> DEFINE k == 9 - n
  <2> HIDE DEF k
  <2>6. uart' \in UartType /\ Configured(uart', k + 1)
    <3>1. Configured(uart, k) /\ k \in 0 .. 8
      BY <2>2, <2>4, <2>5 DEF k
    <3>2. Head(todo) = Writes[k + 1]
      BY <2>2, <2>3, <2>4, <2>5 DEF k
    <3>3. uart' = Written(uart, Writes[k + 1][1], Writes[k + 1][2])
      BY <2>1, <3>2
    <3>4. QED BY <1>1, <3>1, <3>3, WriteOK
  <2>7. \A i \in 1 .. n - 1 : todo'[i] = Writes[(k + 1) + i]
    <3> SUFFICES ASSUME NEW i \in 1 .. n - 1 PROVE todo'[i] = Writes[(k + 1) + i]
      OBVIOUS
    <3>1. i + 1 \in 1 .. n /\ (9 - n) + (i + 1) = (k + 1) + i
      BY <2>4 DEF k
    <3>2. todo'[i] = todo[i + 1]
      BY <2>3, <2>4
    <3>3. todo[i + 1] = Writes[(9 - n) + (i + 1)]
      BY <2>2, <2>4, <3>1
    <3>4. QED BY <3>1, <3>2, <3>3
  <2>8. 9 - Len(todo') = k + 1
    BY <2>5 DEF k
  <2>9. /\ todo' \in Seq(WriteSet) /\ Len(todo') <= 9
        /\ \A i \in 1 .. Len(todo') : todo'[i] = Writes[(9 - Len(todo')) + i]
        /\ Configured(uart', 9 - Len(todo'))
    BY <2>3, <2>5, <2>6, <2>7, <2>8
  <2>10. QED BY <1>1, <2>1, <2>6, <2>9 DEF SerialInv
<1>9. CASE SerialInitEnd
  <2>1. /\ pc = "serial" /\ pc' = "processor" /\ todo = <<>>
        /\ uart' = (IF uart.lsr = "absent" THEN uart ELSE Written(uart, 2, 2))
        /\ shell' = shell /\ shell.at = "off"
    BY <1>1, <1>9 DEF SerialInitEnd, EndInitSerialDevice, Go, SerialInv
  <2>2. Configured(uart, 9)
    <3>1. Len(todo) = 0 /\ Configured(uart, 9 - Len(todo))
      BY <1>1, <2>1 DEF SerialInv
    <3>2. 9 - 0 = 9
      OBVIOUS
    <3>3. QED BY <3>1, <3>2
  <2>3. uart' \in UartType /\ Configured(uart', 9)
    BY <1>1, <2>1, <2>2, StaysConfigured
  <2>4. QED BY <1>1, <2>1, <2>3 DEF SerialInv
<1>10. CASE EnterShell
  <2>1. /\ pc = "drivers" /\ pc' = "shell" /\ uart' = uart
        /\ shell' = [shell EXCEPT !.at = "send", !.pos = 0]
    BY <1>10 DEF EnterShell, BeginPrompt, Go
  <2>2. shell' \in ShellType
    BY <1>1, <2>1 DEF ShellType
  <2>3. QED BY <1>1, <2>1, <2>2 DEF SerialInv
<1>11. CASE ShellStep
  <2>1. /\ pc = "shell" /\ pc' = (IF shell'.at = "off" THEN "idle" ELSE pc)
        /\ Configured(uart, 9)
    BY <1>1, <1>11 DEF ShellStep, SerialInv
  <2>2. ASSUME uart' \in UartType, Configured(uart', 9), shell' \in ShellType
        PROVE  SerialInv'
    BY <2>1, <2>2 DEF SerialInv
  <2>3. CASE SerialSend
    <3>1. /\ shell' = [shell EXCEPT !.pos = shell.pos + 1]
          /\ uart' = uart \/ uart' = Written(uart, 0, 102)
      BY <2>3 DEF SerialSend
    <3>2. shell.pos + 1 \in Nat
      BY <1>1 DEF ShellType
    <3>3. shell' \in ShellType
      BY <1>1, <3>1, <3>2 DEF ShellType
    <3>4. uart' \in UartType /\ Configured(uart', 9)
      BY <1>1, <2>1, <3>1, StaysConfigured
    <3>5. QED BY <2>2, <3>3, <3>4
  <2>4. CASE SentAll
    <3>1. shell' \in ShellType /\ uart' = uart
      <4>1. 0 \in Indices
        BY DEF Indices
      <4>2. QED BY <1>1, <2>4, <4>1 DEF SentAll, ShellType
    <3>2. QED BY <1>1, <2>1, <2>2, <3>1
  <2>5. CASE ReadRound
    <3> DEFINE c == SerialRecv
               i == IF shell.Index # 0 THEN (shell.Index + 1) % 1024 ELSE shell.Index
               a == IF SerialRecv = "newline" THEN "off" ELSE "read"
    <3>1. shell' = [shell EXCEPT !.CmdBuffer = c, !.Index = i, !.at = a] /\ uart' = uart
      BY <2>5 DEF ReadRound
    <3>2. c \in {"none", "newline", "other"} /\ a \in {"off", "read"}
      BY <1>1 DEF SerialRecv, UartType
    <3>3. i \in Indices
      BY <1>1 DEF ShellType, Indices
    <3> HIDE DEF c, i, a
    <3>4. shell' \in ShellType
      BY <1>1, <3>1, <3>2, <3>3 DEF ShellType
    <3>5. QED BY <1>1, <2>1, <2>2, <3>1, <3>4
  <2>6. QED BY <1>11, <2>3, <2>4, <2>5 DEF ShellStep
<1>12. CASE Line
  <2>1. /\ pc' = pc /\ shell' = shell /\ todo' = todo
        /\ Transmitted \/ \E c \in {"newline", "other"} : Typed(c)
    BY <1>12 DEF Line, Transmitted, Typed
  <2>2. uart' \in UartType
    <3>1. Configured(uart, 0)
      BY DEF Configured
    <3>2. QED BY <1>1, <2>1, <3>1, LineOK
  <2>3. \A k \in 0 .. 9 : Configured(uart, k) => Configured(uart', k)
    BY <1>1, <2>1, LineOK
  <2>4. ASSUME pc = "serial" PROVE 9 - Len(todo) \in 0 .. 9
    <3>1. todo \in Seq(WriteSet) /\ Len(todo) <= 9
      BY <1>1, <2>4 DEF SerialInv
    <3>2. Len(todo) \in Nat
      BY <3>1
    <3>3. QED BY <3>1, <3>2, UpToNine
  <2>5. pc = "serial" => Configured(uart', 9 - Len(todo))
    BY <1>1, <2>3, <2>4 DEF SerialInv
  <2>6. pc \in FromProcessor \cup {"drivers", "shell"} => Configured(uart', 9)
    BY <1>1, <2>3 DEF SerialInv
  <2>7. QED BY <1>1, <2>1, <2>2, <2>5, <2>6 DEF SerialInv
<1>13. QED
  BY <1>3, <1>4, <1>5, <1>6, <1>7, <1>8, <1>9, <1>10, <1>11, <1>12 DEF Next, Main

(* A step that changes nothing keeps each part. *)
LEMMA StutterIInv == ASSUME IInv, UNCHANGED vars PROVE IInv'
<1>1. /\ mem' = mem /\ tlb' = tlb /\ map' = map /\ uart' = uart /\ todo' = todo /\ shell' = shell
      /\ pc' = pc /\ cpu' = cpu /\ ptr' = ptr
  BY DEF vars
<1>2. MemoryInv'
  BY <1>1 DEF IInv, MemoryInv
<1>3. PointerInv'
  BY <1>1 DEF IInv, PointerInv, NoneLow
<1>4. CpuInv'
  BY <1>1 DEF IInv, CpuInv
<1>5. SerialInv'
  BY <1>1 DEF IInv, SerialInv
<1>6. QED BY <1>2, <1>3, <1>4, <1>5 DEF IInv

(* Every step of the kernel, of a driver and of the line keeps the         *)
(* invariant.                                                              *)
LEMMA NextIInv == IInv /\ [Next]_vars => IInv'
<1> SUFFICES ASSUME IInv, [Next]_vars PROVE IInv'
  OBVIOUS
<1>1. CASE Next
  BY <1>1, MemoryNext, PointerNext, CpuNext, SerialNext DEF IInv
<1>2. CASE UNCHANGED vars
  BY <1>2, StutterIInv
<1>3. QED BY <1>1, <1>2

-----------------------------------------------------------------------------
(* The theorems: what holds from power-on to the prompt. *)

(* Every variable keeps its type: in particular no paging call stores      *)
(* anything but a table, a large page or a frame, and MmKernelMalloc       *)
(* returns the same block each time.                                       *)
THEOREM TypeCorrect == Spec => []TypeOK
<1>1. IInv => TypeOK
  <2> SUFFICES ASSUME IInv PROVE TypeOK
    OBVIOUS
  <2>1. \A t \in Tables : mem[t] \in [Slot -> Entry]
    BY DEF IInv, MemoryInv, TablesOK
  <2>2. TheOneBlock
    BY DEF IInv, MemoryInv, HeapOK, TheOneBlock, Block, Arena
  <2>3. uart.lsr \in LineStatus /\ shell.Index \in 0 .. 1023
    BY DEF IInv, SerialInv, UartType, ShellType, Indices
  <2>4. /\ tlb \in BOOLEAN /\ ptr \in [Things -> {"none", "low", "high"}]
        /\ shell.at # "off" => pc = "shell"
    BY DEF IInv, MemoryInv, PointerInv, SerialInv
  <2>5. QED BY <2>1, <2>2, <2>3, <2>4 DEF TypeOK
<1>2. QED BY <1>1, InitIInv, NextIInv, PTL DEF Spec

(* Nothing in use is ever unmapped: every pointer has moved up when        *)
(* KiStartupProcessorMachineDependent removes low memory.                  *)
THEOREM LowMemoryStays == Spec => []InUseIsMapped
<1>1. IInv => InUseIsMapped
  BY DEF IInv, PointerInv, NoneLow, InUseIsMapped, UseLow, FromUnmap
<1>2. QED BY <1>1, InitIInv, NextIInv, PTL DEF Spec

(* The kernel's half survives the removal of low memory and every call of  *)
(* the paging interface that maps or allocates, for tables of every size;  *)
(* only x86UnmapAddress can take it away.                                  *)
THEOREM KernelHalfStays == Spec => []KernelHalfStaysMapped
<1>1. IInv => KernelHalfStaysMapped
  <2> SUFFICES ASSUME IInv, cpu.paging, pc \notin {"_start64", "lost"}
               PROVE  KernelHalfMapped
    BY DEF KernelHalfStaysMapped, IInv, MemoryInv
  <2>1. pc \notin Before
    BY DEF IInv, CpuInv
  <2>2. QED BY <2>1 DEF IInv, MemoryInv, KernelOK, UpperOK, KernelHalfMapped
<1>2. QED BY <1>1, InitIInv, NextIInv, PTL DEF Spec

(* From the first sti on the selector of every gate is a 64-bit code       *)
(* segment and all an interrupt needs is reached through high addresses.   *)
THEOREM InterruptsAreSafe == Spec => []InterruptsFindTheirWay
<1>1. GDTEntries[2] = Segment(TRUE, 0)
  BY DEF GDTEntries
<1>2. IInv => InterruptsFindTheirWay
  BY <1>1 DEF IInv, CpuInv, InterruptsFindTheirWay
<1>3. QED BY <1>2, InitIInv, NextIInv, PTL DEF Spec

(* The prompt is sent at the configured speed for every divisor of one     *)
(* byte: the later writes of InitSerialDevice do not touch it again.       *)
THEOREM PromptIsConfigured == Spec => []PromptReachesTheLine
<1>1. IInv => PromptReachesTheLine
  <2> SUFFICES ASSUME IInv, shell.at = "send", uart.lsr # "absent"
               PROVE  /\ ~ uart.dlab /\ uart.dll + 256 * uart.dlm = Divisor
                      /\ uart.word = 8
    BY DEF PromptReachesTheLine
  <2>1. Configured(uart, 9)
    BY DEF IInv, SerialInv
  <2>2. ~ uart.dlab /\ uart.dll = Divisor /\ uart.dlm = 0 /\ uart.word = 8
    BY <2>1 DEF Configured
  <2>3. QED BY <2>2, SerialAssumption
<1>2. QED BY <1>1, InitIInv, NextIInv, PTL DEF Spec
=============================================================================
