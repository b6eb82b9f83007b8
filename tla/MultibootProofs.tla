-------------------------- MODULE MultibootProofs ---------------------------
(* Proofs about Multiboot, for every information of the boot loader and    *)
(* every place of it.                                                      *)
EXTENDS Multiboot, WellFoundedInduction, TLAPS

-----------------------------------------------------------------------------
(* Numbers and words *)

(* The constants are numbers, and a half holds more than the codes used.   *)
LEMMA Sizes ==
    /\ HalfRange \in Nat /\ TypeRange \in Nat /\ LowMemory \in Nat
    /\ 24 < TypeRange /\ TypeRange <= HalfRange /\ 24 < HalfRange
    /\ Places \subseteq Int /\ Addresses \subseteq Int
BY InfoAssumption

(* The least-number principle, for sets. *)
LEMMA LeastNumber ==
    ASSUME NEW S \in SUBSET Nat, S # {}
    PROVE  \E m \in S : \A k \in S : m <= k
<1>1. PICK m \in S : \A k \in S : ~ (<<k, m>> \in OpToRel(<, Nat))
  BY NatLessThanWellFounded, WFMin
<1>2. \A k \in S : ~ (k < m)
  BY <1>1 DEF OpToRel
<1>3. QED BY <1>2

(* A number below the divisor is its own remainder. *)
LEMMA SmallRest ==
    ASSUME NEW d \in Nat, NEW n \in Nat, n < d
    PROVE  n % d = n
<1> DEFINE q == n \div d
           r == n % d
<1>1. q \in Nat /\ r \in Nat /\ r < d /\ n = d * q + r
  OBVIOUS
<1> HIDE DEF q, r
<1>2. ASSUME q # 0 PROVE FALSE
  <2>1. d * q >= d
    BY <1>1, <1>2
  <2>2. QED BY <1>1, <2>1
<1>3. d * 0 = 0
  OBVIOUS
<1>4. n = r
  BY <1>1, <1>2, <1>3
<1>5. QED BY <1>4 DEF r

(* A stored number has two halves. *)
LEMMA WordType == ASSUME NEW v \in Int PROVE Word(v) \in Words
<1> DEFINE q == v \div HalfRange
<1>1. HalfRange \in Nat /\ HalfRange > 0
  BY Sizes
<1>2. v % HalfRange \in 0 .. HalfRange - 1 /\ q \in Int
  BY <1>1
<1> HIDE DEF q
<1>3. q % HalfRange \in 0 .. HalfRange - 1
  BY <1>1, <1>2
<1>4. QED BY <1>2, <1>3 DEF Word, Words, q

(* A word is a number below 2^64. *)
LEMMA ValueType == ASSUME NEW w \in Words PROVE Value(w) \in Nat
<1>1. w.lo \in Nat /\ w.hi \in Nat /\ HalfRange \in Nat
  BY Sizes DEF Words
<1>2. HalfRange * w.hi \in Nat
  BY <1>1
<1>3. QED BY <1>1, <1>2 DEF Value

(* A number below 2^64 survives being stored. *)
LEMMA StoredValue ==
    ASSUME NEW v \in Nat, v < HalfRange * HalfRange
    PROVE  Value(Word(v)) = v
<1> DEFINE q == v \div HalfRange
           r == v % HalfRange
           h == HalfRange
<1>1. h \in Nat /\ h > 0
  BY Sizes
<1>2. q \in Nat /\ r \in Nat /\ v = h * q + r
  BY <1>1
<1> HIDE DEF q, r
<1>3. q < h
  <2>1. ASSUME q >= h PROVE FALSE
    <3>1. h * q >= h * h
      BY <1>1, <1>2, <2>1
    <3>2. v < h * h /\ h * h \in Nat /\ h * q \in Nat
      BY <1>1, <1>2
    <3>3. QED BY <1>1, <1>2, <3>1, <3>2
  <2>2. QED BY <1>1, <1>2, <2>1
<1>4. q % h = q
  BY <1>1, <1>2, <1>3, SmallRest
<1>5. Word(v) = [lo |-> r, hi |-> q]
  BY <1>4 DEF Word, q, r
<1>6. Value(Word(v)) = r + h * q
  BY <1>5 DEF Value
<1>7. QED BY <1>1, <1>2, <1>6

(* A number below 2^32 is the low half of its word. *)
LEMMA LowHalf ==
    ASSUME NEW v \in Nat, v < HalfRange
    PROVE  Word(v).lo = v
BY SmallRest, Sizes DEF Word

-----------------------------------------------------------------------------
(* Memory *)

(* What is stored at an address can be read there. *)
LEMMA AtType ==
    ASSUME mem \in [Addresses -> Words], NEW a
    PROVE  At(a) \in Words
BY WordType DEF At, Blank

(* One word stored. *)
LEMMA StoreOne ==
    ASSUME NEW m, NEW a \in Int, NEW w, NEW b \in Addresses
    PROVE  Store(m, a, <<w>>)[b] = IF b = a THEN w ELSE m[b]
<1>1. b \in Int
  BY Sizes
<1>2. b - a + 1 \in 1 .. 1 <=> b = a
  BY <1>1
<1>3. QED BY <1>1, <1>2 DEF Store

(* Two words stored. *)
LEMMA StoreTwo ==
    ASSUME NEW m, NEW a \in Int, NEW w1, NEW w2, NEW b \in Addresses
    PROVE  Store(m, a, <<w1, w2>>)[b] =
               IF b = a THEN w1 ELSE IF b = a + 1 THEN w2 ELSE m[b]
<1>1. b \in Int
  BY Sizes
<1>2. b - a + 1 \in 1 .. 2 <=> b = a \/ b = a + 1
  BY <1>1
<1>3. QED BY <1>1, <1>2 DEF Store

(* Four words stored. *)
LEMMA StoreFour ==
    ASSUME NEW m, NEW a \in Int, NEW w1, NEW w2, NEW w3, NEW w4, NEW b \in Addresses
    PROVE  Store(m, a, <<w1, w2, w3, w4>>)[b] =
               IF b = a THEN w1 ELSE IF b = a + 1 THEN w2 ELSE
               IF b = a + 2 THEN w3 ELSE IF b = a + 3 THEN w4 ELSE m[b]
<1>1. b \in Int
  BY Sizes
<1>2. b - a + 1 \in 1 .. 4 <=> b \in {a, a + 1, a + 2, a + 3}
  BY <1>1
<1>3. QED BY <1>1, <1>2 DEF Store

-----------------------------------------------------------------------------
(* The information of the boot loader *)

(* Bounds of a tag's type and size, and the words a size stands for. *)
LEMMA TypeBounds ==
    ASSUME NEW r \in Nat, NEW x \in 1 .. r - 1
    PROVE  x \in Nat /\ 0 < x /\ x < r
OBVIOUS

(* The size of a tag, rounded up, is a signed number. *)
LEMMA SizeBounds ==
    ASSUME NEW r \in Nat, NEW x \in 8 .. r - 8
    PROVE  x \in Nat /\ 8 <= x /\ x + 7 < r
OBVIOUS

(* A tag has at least one word. *)
LEMMA EndAbove ==
    ASSUME NEW a \in Nat, NEW x \in Nat, 8 <= x
    PROVE  a + (x + 7) \div 8 \in Nat /\ a < a + (x + 7) \div 8
OBVIOUS

(* A word behind the header of a map is in one of its entries. *)
LEMMA ByThrees ==
    ASSUME NEW d \in Nat
    PROVE  d \div 3 \in Nat /\ d % 3 \in 0 .. 2 /\ d = 3 * (d \div 3) + (d % 3)
<1>1. d \div 3 \in Nat
  OBVIOUS
<1>2. d % 3 \in 0 .. 2
  OBVIOUS
<1>3. d = 3 * (d \div 3) + (d % 3)
  OBVIOUS
<1>4. QED BY <1>1, <1>2, <1>3

(* A word before the end of a map is in an entry before the end. *)
LEMMA EntryBefore ==
    ASSUME NEW a \in Nat, NEW n \in Nat, NEW i \in Nat, NEW f \in 0 .. 2,
           a + (2 + 3 * i + f) < a + 2 + 3 * n
    PROVE  i + 1 \in 1 .. n
<1>1. 3 * i < 3 * n
  OBVIOUS
<1>2. i < n
  BY <1>1
<1>3. QED BY <1>2

(* The fields of a tag. *)
LEMMA TagFacts ==
    ASSUME NEW tags \in Infos, NEW k \in 1 .. Len(tags)
    PROVE  /\ tags[k] \in TagSet
           /\ tags[k].type \in Nat /\ 0 < tags[k].type /\ tags[k].type < TypeRange
           /\ tags[k].size \in Nat /\ 8 <= tags[k].size /\ tags[k].size + 7 < HalfRange
           /\ tags[k].at \in Nat /\ tags[k].at = TagOffset(tags, k)
           /\ tags[k].entries \in Seq(MapEntries)
           /\ tags[k].type = MEM_MAP => tags[k].size = 16 + 24 * Len(tags[k].entries)
           /\ tags[k].type # MEM_MAP => tags[k].entries = <<>>
           /\ TagEnd(tags[k]) \in Nat /\ tags[k].at < TagEnd(tags[k])
<1>1. tags \in Seq(TagSet) /\ tags[k].at = TagOffset(tags, k)
  BY InfoAssumption
<1>2. tags[k] \in TagSet
  BY <1>1
<1>3. /\ tags[k].type \in 1 .. TypeRange - 1 /\ tags[k].size \in 8 .. HalfRange - 8
      /\ tags[k].at \in Nat /\ tags[k].entries \in Seq(MapEntries)
      /\ IF tags[k].type = MEM_MAP THEN tags[k].size = 16 + 24 * Len(tags[k].entries)
                                   ELSE tags[k].entries = <<>>
  BY <1>2 DEF TagSet
<1>4. /\ tags[k].type \in Nat /\ 0 < tags[k].type /\ tags[k].type < TypeRange
      /\ tags[k].size \in Nat /\ 8 <= tags[k].size /\ tags[k].size + 7 < HalfRange
  <2>1. HalfRange \in Nat /\ TypeRange \in Nat
    BY Sizes
  <2>2. QED BY <1>3, <2>1, TypeBounds, SizeBounds
<1>5. TagEnd(tags[k]) \in Nat /\ tags[k].at < TagEnd(tags[k])
  BY <1>3, <1>4, EndAbove DEF TagEnd
<1>6. QED BY <1>1, <1>2, <1>3, <1>4, <1>5

(* A tag with n entries is 2 + 3 * n words long. *)
LEMMA MapEnd ==
    ASSUME NEW tags \in Infos, NEW k \in 1 .. Len(tags), tags[k].type = MEM_MAP
    PROVE  /\ Len(tags[k].entries) \in Nat
           /\ TagEnd(tags[k]) = tags[k].at + 2 + 3 * Len(tags[k].entries)
<1>1. PICK n \in Nat : n = Len(tags[k].entries)
  BY TagFacts
<1>2. tags[k].size = 16 + 24 * n /\ tags[k].at \in Nat
  BY <1>1, TagFacts
<1>3. (tags[k].size + 7) \div 8 = 2 + 3 * n
  BY <1>2
<1>4. TagEnd(tags[k]) = tags[k].at + (2 + 3 * n)
  BY <1>3 DEF TagEnd
<1>5. tags[k].at + (2 + 3 * n) = tags[k].at + 2 + 3 * n
  BY <1>2
<1>6. QED BY <1>1, <1>4, <1>5

(* The offsets of the tags and of the end are numbers. *)
LEMMA OffsetType ==
    ASSUME NEW tags \in Infos, NEW k \in 1 .. Len(tags) + 1
    PROVE  TagOffset(tags, k) \in Nat /\ 1 <= TagOffset(tags, k) /\ Len(tags) \in Nat
<1>1. Len(tags) \in Nat
  BY InfoAssumption
<1>2. CASE k = 1
  BY <1>1, <1>2 DEF TagOffset
<1>3. CASE k # 1
  <2>1. k - 1 \in 1 .. Len(tags) /\ TagOffset(tags, k) = TagEnd(tags[k - 1])
    BY <1>1, <1>3 DEF TagOffset
  <2>2. TagEnd(tags[k - 1]) \in Nat /\ tags[k - 1].at < TagEnd(tags[k - 1])
        /\ tags[k - 1].at \in Nat
    BY <2>1, TagFacts
  <2>3. QED BY <1>1, <2>1, <2>2
<1>4. QED BY <1>2, <1>3

(* A tag ends before every later one begins. *)
LEMMA Layout ==
    ASSUME NEW tags \in Infos, NEW j \in 1 .. Len(tags), NEW k \in 1 .. Len(tags) + 1, j < k
    PROVE  TagEnd(tags[j]) <= TagOffset(tags, k)
<1> DEFINE S == {i \in Nat : i <= Len(tags) + 1 /\ j < i /\ ~ (TagEnd(tags[j]) <= TagOffset(tags, i))}
<1>1. Len(tags) \in Nat
  BY OffsetType
<1>2. SUFFICES ASSUME S # {} PROVE FALSE
  BY <1>1
<1>3. PICK m \in S : \A i \in S : m <= i
  <2>1. S \in SUBSET Nat
    OBVIOUS
  <2> HIDE DEF S
  <2>2. QED BY <1>2, <2>1, LeastNumber
<1>4. /\ m \in Nat /\ m <= Len(tags) + 1 /\ j < m
      /\ ~ (TagEnd(tags[j]) <= TagOffset(tags, m))
  BY <1>3
<1>5. m - 1 \in 1 .. Len(tags) /\ TagOffset(tags, m) = TagEnd(tags[m - 1])
  BY <1>1, <1>4 DEF TagOffset
<1>6. TagEnd(tags[j]) \in Nat
  BY TagFacts
<1>7. j # m - 1
  BY <1>4, <1>5, <1>6
<1>8. m - 1 \notin S
  BY <1>3, <1>4
<1>9. TagEnd(tags[j]) <= TagOffset(tags, m - 1)
  BY <1>1, <1>4, <1>5, <1>7, <1>8
<1>10. TagOffset(tags, m - 1) = tags[m - 1].at /\ tags[m - 1].at \in Nat
       /\ tags[m - 1].at < TagEnd(tags[m - 1]) /\ TagEnd(tags[m - 1]) \in Nat
  BY <1>5, TagFacts
<1>11. QED BY <1>4, <1>5, <1>6, <1>9, <1>10

(* No word is in two tags. *)
LEMMA OneTag ==
    ASSUME NEW tags \in Infos, NEW j \in 1 .. Len(tags), NEW k \in 1 .. Len(tags),
           NEW o \in Int, Covers(tags[j], o), Covers(tags[k], o)
    PROVE  j = k
<1>1. ASSUME NEW a \in 1 .. Len(tags), NEW b \in 1 .. Len(tags), a < b,
             Covers(tags[a], o), Covers(tags[b], o)
      PROVE  FALSE
  <2>1. Len(tags) \in Nat
    BY OffsetType
  <2>2. TagEnd(tags[a]) <= tags[b].at
    <3>1. b \in 1 .. Len(tags) + 1
      BY <2>1
    <3>2. TagEnd(tags[a]) <= TagOffset(tags, b)
      BY <1>1, <3>1, Layout
    <3>3. TagOffset(tags, b) = tags[b].at
      BY TagFacts
    <3>4. QED BY <3>2, <3>3
  <2>3. TagEnd(tags[a]) \in Nat /\ tags[b].at \in Nat /\ tags[a].at \in Nat
    BY TagFacts
  <2>4. o < TagEnd(tags[a]) /\ tags[b].at <= o
    BY <1>1, <2>3 DEF Covers
  <2>5. QED BY <2>2, <2>3, <2>4
<1>2. j \in Int /\ k \in Int
  OBVIOUS
<1>3. QED BY <1>1, <1>2

(* What the boot loader put at an offset of a tag. *)
LEMMA WordOfTag ==
    ASSUME NEW tags \in Infos, NEW k \in 1 .. Len(tags), NEW o \in Nat,
           tags[k].at + o < TagEnd(tags[k])
    PROVE  InfoWord(tags, tags[k].at + o) = TagWord(tags[k], o)
<1> DEFINE p == tags[k].at + o
           c == CHOOSE j \in 1 .. Len(tags) : Covers(tags[j], p)
<1>1. tags[k].at \in Nat /\ TagEnd(tags[k]) \in Nat
  BY TagFacts
<1>2. p \in Int /\ Covers(tags[k], p) /\ p - tags[k].at = o
  BY <1>1 DEF Covers
<1>3. c = k
  <2> HIDE DEF p
  <2>1. c \in 1 .. Len(tags) /\ Covers(tags[c], p)
    BY <1>2
  <2>2. QED BY <1>2, <2>1, OneTag
<1>4. InfoWord(tags, p) = TagWord(tags[c], p - tags[c].at)
  BY <1>2 DEF InfoWord
<1>5. QED BY <1>2, <1>3, <1>4

(* The END tag. *)
LEMMA EndWord ==
    ASSUME NEW tags \in Infos
    PROVE  InfoWord(tags, InfoEnd(tags)) = [lo |-> END, hi |-> 8]
<1>1. Len(tags) \in Nat
  BY InfoAssumption
<1>2. ASSUME NEW k \in 1 .. Len(tags), Covers(tags[k], InfoEnd(tags)) PROVE FALSE
  <2>1. TagEnd(tags[k]) <= InfoEnd(tags)
    BY <1>1, Layout DEF InfoEnd
  <2>2. TagEnd(tags[k]) \in Nat /\ tags[k].at \in Nat /\ InfoEnd(tags) \in Nat
    BY <1>1, TagFacts, OffsetType DEF InfoEnd
  <2>3. QED BY <1>2, <2>1, <2>2 DEF Covers
<1>3. QED BY <1>2 DEF InfoWord

(* The words of entry i of a memory map. *)
LEMMA MapWord ==
    ASSUME NEW tag, NEW i \in Nat, NEW f \in 0 .. 2, tag.type = MEM_MAP
    PROVE  TagWord(tag, 2 + 3 * i + f) = EntryWord(tag.entries[i + 1], f)
<1> DEFINE o == 2 + 3 * i + f
<1>1. o # 0 /\ o # 1 /\ (o - 2) \div 3 = i /\ (o - 2) % 3 = f
  OBVIOUS
<1> HIDE DEF o
<1>2. TagWord(tag, o) = EntryWord(tag.entries[(o - 2) \div 3 + 1], (o - 2) % 3)
  BY <1>1 DEF TagWord
<1>3. QED BY <1>1, <1>2 DEF o

(* The fields of an entry. *)
LEMMA EntryFacts ==
    ASSUME NEW e \in MapEntries
    PROVE  /\ e.addr \in Nat /\ e.len \in Nat /\ e.type \in Nat
           /\ e.addr < HalfRange * HalfRange /\ e.len < HalfRange * HalfRange
           /\ e.addr + e.len < HalfRange * HalfRange /\ e.type < HalfRange
<1> DEFINE top == HalfRange * HalfRange
<1>1. /\ e.addr \in Nat /\ e.len \in Nat /\ e.type \in 0 .. HalfRange - 1
      /\ e.addr + e.len < top
  BY DEF MapEntries
<1>2. HalfRange \in Nat /\ top \in Nat
  BY Sizes
<1> HIDE DEF top
<1>3. e.addr < top /\ e.len < top /\ e.type \in Nat /\ e.type < HalfRange
  BY <1>1, <1>2
<1>4. QED BY <1>1, <1>3 DEF top

(* The words of a tag have two halves. *)
LEMMA TagWordType ==
    ASSUME NEW tags \in Infos, NEW k \in 1 .. Len(tags), NEW o \in Nat,
           tags[k].at + o < TagEnd(tags[k])
    PROVE  TagWord(tags[k], o) \in Words
<1> DEFINE t == tags[k]
<1>1. /\ t.type \in 0 .. HalfRange - 1 /\ t.size \in 0 .. HalfRange - 1
      /\ t.at \in Nat /\ t.entries \in Seq(MapEntries)
  <2>1. /\ t.type \in Nat /\ t.type < TypeRange
        /\ t.size \in Nat /\ t.size + 7 < HalfRange
        /\ t.at \in Nat /\ t.entries \in Seq(MapEntries)
    BY TagFacts
  <2>2. PICK x \in Nat, y \in Nat : x = t.type /\ y = t.size
    BY <2>1
  <2>3. x \in 0 .. HalfRange - 1 /\ y \in 0 .. HalfRange - 1
    <3>1. x < TypeRange /\ y + 7 < HalfRange
      BY <2>1, <2>2
    <3>2. QED BY <3>1, Sizes
  <2>4. QED BY <2>1, <2>2, <2>3
<1>2. CASE o = 0
  BY <1>1, <1>2 DEF TagWord, Words
<1>3. CASE o # 0 /\ t.type # MEM_MAP
  BY <1>3, WordType DEF TagWord
<1>4. CASE o = 1 /\ t.type = MEM_MAP
  BY <1>4, WordType DEF TagWord
<1>5. CASE o # 0 /\ o # 1 /\ t.type = MEM_MAP
  <2>1. PICK n \in Nat : n = Len(t.entries) /\ TagEnd(t) = t.at + 2 + 3 * n
    BY <1>5, MapEnd
  <2>2. PICK i \in Nat, f \in 0 .. 2 : o = 2 + 3 * i + f
    <3> DEFINE i == (o - 2) \div 3
               f == (o - 2) % 3
    <3>1. o - 2 \in Nat
      BY <1>5
    <3>2. i \in Nat /\ f \in 0 .. 2 /\ o - 2 = 3 * i + f
      BY <3>1, ByThrees
    <3> HIDE DEF i, f
    <3>3. o = 2 + 3 * i + f
      BY <3>2
    <3>4. QED BY <3>2, <3>3
  <2>3. i + 1 \in 1 .. n
    <3>1. PICK a \in Nat : a = t.at
      BY <1>1
    <3>2. a + (2 + 3 * i + f) < a + 2 + 3 * n
      BY <2>1, <2>2, <3>1
    <3>3. QED BY <3>2, EntryBefore
  <2>4. t.entries[i + 1] \in MapEntries
    BY <1>1, <2>1, <2>3
  <2>5. TagWord(t, o) = EntryWord(t.entries[i + 1], f)
    BY <1>5, <2>2, MapWord
  <2>6. EntryWord(t.entries[i + 1], f) \in Words
    BY <2>4, EntryFacts, WordType DEF EntryWord
  <2>7. QED BY <2>5, <2>6
<1>6. QED BY <1>2, <1>3, <1>4, <1>5

(* So have all words of the information. *)
LEMMA InfoWordType ==
    ASSUME NEW tags \in Infos, NEW o \in Nat
    PROVE  InfoWord(tags, o) \in Words
<1>1. CASE \E k \in 1 .. Len(tags) : Covers(tags[k], o)
  <2>1. PICK k \in 1 .. Len(tags) : Covers(tags[k], o)
    BY <1>1
  <2>2. PICK q \in Nat : o = tags[k].at + q /\ tags[k].at + q < TagEnd(tags[k])
    <3>1. tags[k].at \in Nat /\ TagEnd(tags[k]) \in Nat
      BY TagFacts
    <3>2. o - tags[k].at \in Nat /\ o = tags[k].at + (o - tags[k].at) /\ o < TagEnd(tags[k])
      BY <2>1, <3>1 DEF Covers
    <3>3. QED BY <3>2
  <2>3. InfoWord(tags, o) = TagWord(tags[k], q)
    BY <2>2, WordOfTag
  <2>4. QED BY <2>2, <2>3, TagWordType
<1>2. CASE ~ \E k \in 1 .. Len(tags) : Covers(tags[k], o)
  <2>1. [lo |-> END, hi |-> 8] \in Words /\ Blank \in Words
    BY WordType, Sizes DEF Words, END, Blank
  <2>2. QED BY <1>2, <2>1 DEF InfoWord
<1>3. QED BY <1>1, <1>2

(* The entries are those of the one memory map. *)
LEMMA TheMap ==
    ASSUME info \in Infos, NEW k \in MemMaps
    PROVE  /\ Entries = info[k].entries /\ \A j \in MemMaps : j = k
           /\ 0 .. RangesAt(Len(Entries), Len(Entries)) \subseteq Addresses
<1>1. \A j \in MemMaps : j = k
  BY InfoAssumption DEF MemMaps
<1>2. Entries = info[k].entries
  BY <1>1 DEF Entries
<1>3. k \in 1 .. Len(info)
  BY DEF MemMaps
<1>4. QED BY <1>1, <1>2, <1>3, InfoAssumption

(* Entries are well formed. *)
LEMMA EntriesFacts ==
    ASSUME info \in Infos
    PROVE  Len(Entries) \in Nat /\ Entries \in Seq(MapEntries)
<1>1. CASE MemMaps = {}
  BY <1>1 DEF Entries
<1>2. CASE MemMaps # {}
  <2>1. PICK k \in MemMaps : TRUE
    BY <1>2
  <2>2. Entries = info[k].entries /\ k \in 1 .. Len(info)
    BY <2>1, TheMap DEF MemMaps
  <2>3. QED BY <2>2, TagFacts
<1>3. QED BY <1>1, <1>2

(* The words of the first table are in memory. *)
LEMMA FirstTable ==
    ASSUME info \in Infos, NEW i \in Nat, i < Len(Entries), NEW f \in 0 .. 2
    PROVE  RangeAt(i) + f \in Addresses
<1>1. PICK n \in Nat : n = Len(Entries)
  BY EntriesFacts
<1>2. MemMaps # {}
  BY <1>1 DEF Entries
<1>3. 0 .. RangesAt(n, n) \subseteq Addresses
  BY <1>1, <1>2, TheMap
<1>4. RangeAt(i) + f \in 0 .. RangesAt(n, n)
  BY <1>1 DEF RangeAt, RangesAt
<1>5. QED BY <1>3, <1>4

(* So are those of the second. *)
LEMMA SecondTable ==
    ASSUME info \in Infos, NEW i \in Nat, i < Len(Entries), NEW f \in 0 .. 4
    PROVE  RangesAt(Len(Entries), i) + f \in Addresses
<1>1. PICK n \in Nat : n = Len(Entries)
  BY EntriesFacts
<1>2. MemMaps # {}
  BY <1>1 DEF Entries
<1>3. 0 .. RangesAt(n, n) \subseteq Addresses
  BY <1>1, <1>2, TheMap
<1>4. RangesAt(n, i) + f \in 0 .. RangesAt(n, n)
  BY <1>1 DEF RangeAt, RangesAt
<1>5. QED BY <1>1, <1>3, <1>4

-----------------------------------------------------------------------------
(* The inductive invariant *)

(* The boot loader's information is as it was left. *)
Intact == \A o \in 0 .. InfoEnd(info) : At(place + o) = InfoWord(info, o)

(* The first k tags have been handled, their frame buffers taken. *)
Done(k) ==
    /\ handled = {TagAt(j) : j \in 1 .. k}
    /\ (\E j \in 1 .. k : info[j].type = FRAME_BUFFER) => Framebuffer = "known"

(* The loop of kern_init walks from tag to tag, before the first table is  *)
(* written and, if the table is somewhere else, also after that.           *)
AtTag(k) ==
    /\ MultibootInfo = TagAt(k)
    /\ Done(k - 1)
    /\ maps = 0 <=> \A j \in 1 .. k - 1 : info[j].type # MEM_MAP
InMap(k) ==
    /\ MultibootInfo = TagAt(k)
    /\ Done(k)
    /\ info[k].type = MEM_MAP /\ MaxIndex = Len(Entries)
LoopInv ==
    maps = 0 \/ Apart =>
        /\ pc \in {"tags", "entries"} => Intact
        /\ pc = "tags" => \E k \in 1 .. Len(info) + 1 : AtTag(k)
        /\ pc = "entries" => \E k \in 1 .. Len(info) : InMap(k)
        /\ pc = "ranges" => Done(Len(info))
        /\ pc \in {"ranges", "started"} /\ maps = 0 => MemMaps = {}

(* Before HandleMemory there are no ranges. *)
StartInv ==
    maps = 0 => /\ pc # "entries" /\ NumMemoryRanges = 0
                /\ MaxAddress = 0 /\ MaximumPAddr = 0

(* MaxAddress is the highest end of the first n entries. *)
EndOf(e) == e.addr + e.len
Highest(n) ==
    /\ \A i \in 1 .. n : EndOf(Entries[i]) <= MaxAddress
    /\ MaxAddress = 0 \/ \E i \in 1 .. n : MaxAddress = EndOf(Entries[i])

(* Entries not yet read are as the boot loader left them. *)
Unread(i) == \A f \in 0 .. 2 : At(EntryAt(MultibootInfo, i - 1) + f) = EntryWord(Entries[i], f)

(* The two tables, in the first call of HandleMemory and after it. *)
EntriesInv ==
    /\ \E k \in MemMaps : MultibootInfo = TagAt(k)
    /\ MaxIndex = Len(Entries)
    /\ \A i \in 1 .. Index : RangeIs(i - 1, Entries[i])
    /\ \A i \in Index + 1 .. Len(Entries) : Unread(i)
    /\ Highest(Index)
AfterInv ==
    /\ NumMemoryRanges = Len(Entries)
    /\ \A i \in 1 .. Len(Entries) : RangeIs(i - 1, Entries[i])
    /\ Highest(Len(Entries))
    /\ pc \in {"ranges", "started"} => \A i \in 1 .. Index : CopyIs(i - 1, Entries[i])
    /\ pc = "started" => Index = Len(Entries) /\ MaximumPAddr = MaxAddress
TableInv ==
    maps = 1 /\ (Below \/ Behind) => IF pc = "entries" THEN EntriesInv ELSE AfterInv

IInv ==
    /\ TypeOK /\ info \in Infos /\ place \in Places
    /\ LoopInv /\ StartInv /\ TableInv

(* What kern_init and HandleMemory read of a tag that is as it was left. *)
LEMMA ReadTag ==
    ASSUME info \in Infos, place \in Places, Intact, NEW k \in 1 .. Len(info)
    PROVE  /\ At(TagAt(k)) = [lo |-> info[k].type, hi |-> info[k].size]
           /\ At(TagAt(k)).lo # END
           /\ At(TagAt(k)).lo % TypeRange = info[k].type
           /\ NextTag(TagAt(k)) = TagAt(k + 1)
           /\ k + 1 \in 1 .. Len(info) + 1
<1>1. /\ info[k].at \in Nat /\ info[k].at = TagOffset(info, k)
      /\ TagEnd(info[k]) \in Nat /\ info[k].at < TagEnd(info[k])
      /\ info[k].type \in Nat /\ 0 < info[k].type /\ info[k].type < TypeRange
      /\ info[k].size \in Nat /\ info[k].size + 7 < HalfRange
  BY TagFacts
<1>2. Len(info) \in Nat /\ InfoEnd(info) \in Nat /\ TagEnd(info[k]) <= InfoEnd(info)
  <2>1. Len(info) \in Nat
    BY InfoAssumption
  <2>2. k < Len(info) + 1 /\ Len(info) + 1 \in 1 .. Len(info) + 1
    BY <2>1
  <2>3. QED BY <2>1, <2>2, OffsetType, Layout DEF InfoEnd
<1>3. At(TagAt(k)) = InfoWord(info, info[k].at)
  BY <1>1, <1>2 DEF Intact, TagAt
<1>4. InfoWord(info, info[k].at + 0) = TagWord(info[k], 0) /\ info[k].at + 0 = info[k].at
  <2>1. info[k].at + 0 < TagEnd(info[k])
    BY <1>1
  <2>2. QED BY <1>1, <2>1, WordOfTag
<1>5. At(TagAt(k)) = [lo |-> info[k].type, hi |-> info[k].size]
  BY <1>3, <1>4 DEF TagWord
<1>6. At(TagAt(k)).lo # END /\ At(TagAt(k)).lo % TypeRange = info[k].type
  BY <1>1, <1>5, SmallRest, Sizes DEF END
<1>7. NextTag(TagAt(k)) = TagAt(k + 1)
  <2>1. (info[k].size + 7) % HalfRange = info[k].size + 7
    BY <1>1, SmallRest, Sizes
  <2>2. NextTag(TagAt(k)) = TagAt(k) + (info[k].size + 7) \div 8
    BY <1>5, <2>1 DEF NextTag
  <2>3. TagOffset(info, k + 1) = TagEnd(info[k])
    BY DEF TagOffset
  <2>4. place \in Int /\ (info[k].size + 7) \div 8 \in Nat
    BY <1>1, Sizes
  <2>5. place + info[k].at + (info[k].size + 7) \div 8
          = place + (info[k].at + (info[k].size + 7) \div 8)
    BY <1>1, <2>4
  <2>6. QED BY <1>1, <2>2, <2>3, <2>5 DEF TagAt, TagEnd
<1>8. k + 1 \in 1 .. Len(info) + 1
  BY <1>2
<1>9. QED BY <1>5, <1>6, <1>7, <1>8

(* What HandleMemory reads of a memory map. *)
LEMMA ReadMap ==
    ASSUME info \in Infos, place \in Places, Intact, NEW k \in 1 .. Len(info),
           info[k].type = MEM_MAP
    PROVE  /\ At(TagAt(k) + 1).lo = 24
           /\ \A i \in Nat, f \in 0 .. 2 : i < Len(info[k].entries) =>
                At(TagAt(k) + 2 + 3 * i + f) = EntryWord(info[k].entries[i + 1], f)
<1>1. /\ info[k].at \in Nat /\ info[k].at = TagOffset(info, k)
      /\ TagEnd(info[k]) \in Nat /\ place \in Int
  BY TagFacts, Sizes
<1>2. InfoEnd(info) \in Nat /\ TagEnd(info[k]) <= InfoEnd(info)
  <2>1. Len(info) \in Nat
    BY InfoAssumption
  <2>2. k < Len(info) + 1 /\ Len(info) + 1 \in 1 .. Len(info) + 1
    BY <2>1
  <2>3. QED BY <2>1, <2>2, OffsetType, Layout DEF InfoEnd
<1>3. PICK n \in Nat : n = Len(info[k].entries) /\ TagEnd(info[k]) = info[k].at + 2 + 3 * n
  BY MapEnd
<1>4. ASSUME NEW o \in Nat, o < 2 + 3 * n
      PROVE  At(TagAt(k) + o) = TagWord(info[k], o)
  <2>1. info[k].at + o < TagEnd(info[k]) /\ info[k].at + o \in 0 .. InfoEnd(info)
    <3>1. PICK a \in Nat, e \in Nat, m \in Nat :
            a = info[k].at /\ e = TagEnd(info[k]) /\ m = InfoEnd(info)
      BY <1>1, <1>2
    <3>2. e = a + 2 + 3 * n /\ e <= m
      BY <1>2, <1>3, <3>1
    <3>3. a + o < e /\ a + o \in 0 .. m
      BY <1>4, <3>2
    <3>4. QED BY <3>1, <3>3
  <2>2. InfoWord(info, info[k].at + o) = TagWord(info[k], o)
    BY <2>1, WordOfTag
  <2>3. At(place + (info[k].at + o)) = InfoWord(info, info[k].at + o)
    BY <2>1 DEF Intact
  <2>4. TagAt(k) + o = place + (info[k].at + o)
    BY <1>1, <1>4 DEF TagAt
  <2>5. QED BY <2>2, <2>3, <2>4
<1>5. At(TagAt(k) + 1).lo = 24
  <2>1. At(TagAt(k) + 1) = Word(24)
    BY <1>4 DEF TagWord
  <2>2. QED BY <2>1, LowHalf, Sizes
<1>6. ASSUME NEW i \in Nat, NEW f \in 0 .. 2, i < n
      PROVE  At(TagAt(k) + 2 + 3 * i + f) = EntryWord(info[k].entries[i + 1], f)
  <2>1. 2 + 3 * i + f \in Nat /\ 2 + 3 * i + f < 2 + 3 * n
    BY <1>6
  <2>2. TagAt(k) + (2 + 3 * i + f) = TagAt(k) + 2 + 3 * i + f
    BY <1>1 DEF TagAt
  <2>3. QED BY <1>4, <2>1, <2>2, MapWord
<1>7. QED BY <1>3, <1>5, <1>6

(* The loop ends at the END tag. *)
LEMMA ReadEnd ==
    ASSUME info \in Infos, Intact
    PROVE  At(TagAt(Len(info) + 1)).lo = END
<1>1. InfoEnd(info) \in Nat /\ InfoEnd(info) \in 0 .. InfoEnd(info)
  <2>1. Len(info) \in Nat
    BY InfoAssumption
  <2>2. Len(info) + 1 \in 1 .. Len(info) + 1
    BY <2>1
  <2>3. QED BY <2>2, OffsetType DEF InfoEnd
<1>2. At(place + InfoEnd(info)) = [lo |-> END, hi |-> 8]
  BY <1>1, EndWord DEF Intact
<1>3. QED BY <1>2 DEF TagAt, InfoEnd

(* What depends on the information alone does not change. *)
LEMMA Kept ==
    ASSUME info' = info, place' = place
    PROVE  /\ Below' <=> Below
           /\ Behind' <=> Behind
           /\ Entries' = Entries /\ MemMaps' = MemMaps
           /\ Apart' <=> Apart
           /\ \A k : TagAt(k)' = TagAt(k)
<1>1. MemMaps' = MemMaps
  BY DEF MemMaps
<1>2. Entries' = Entries
  BY <1>1 DEF Entries
<1>3. /\ Below' <=> Below
      /\ Behind' <=> Behind
  BY DEF Below, Behind
<1>4. Apart' <=> Apart
  BY <1>2, <1>3 DEF Apart
<1>5. \A k : TagAt(k)' = TagAt(k)
  BY DEF TagAt
<1>6. QED BY <1>1, <1>2, <1>3, <1>4, <1>5

(* Nor what depends on memory, when a step does not store. *)
LEMMA KeptMemory ==
    ASSUME info' = info, place' = place, mem' = mem
    PROVE  /\ \A a : At(a)' = At(a)
           /\ Intact' <=> Intact
           /\ \A i, e : RangeIs(i, e)' <=> RangeIs(i, e)
           /\ \A i, e : CopyIs(i, e)' <=> CopyIs(i, e)
<1>1. \A a : At(a)' = At(a)
  BY DEF At
<1>2. Intact' <=> Intact
  BY <1>1 DEF Intact
<1>3. \A i, e : RangeIs(i, e)' <=> RangeIs(i, e)
  BY <1>1 DEF RangeIs
<1>4. \A i, e : CopyIs(i, e)' <=> CopyIs(i, e)
  BY <1>1, Kept DEF CopyIs
<1>5. QED BY <1>1, <1>2, <1>3, <1>4

(* The state when kern_init is called. *)
LEMMA InitIInv == Init => IInv
<1> SUFFICES ASSUME Init PROVE IInv
  OBVIOUS
<1>1. info \in Infos /\ place \in Places /\ place \in Int /\ Len(info) \in Nat
  BY Sizes, InfoAssumption DEF Init
<1>2. mem \in [Addresses -> Words]
  <2>1. ASSUME NEW a \in Addresses PROVE mem[a] \in Words
    <3>1. Blank \in Words
      BY WordType DEF Blank
    <3>2. a - place \in 0 .. InfoEnd(info) => a - place \in Nat
      BY OffsetType, <1>1 DEF InfoEnd
    <3>3. QED BY <1>1, <3>1, <3>2, InfoWordType DEF Init
  <2>2. mem = [a \in Addresses |-> mem[a]]
    BY DEF Init
  <2>3. QED BY <2>1, <2>2
<1>3. TypeOK
  BY <1>1, <1>2 DEF Init, TypeOK
<1>4. Intact
  <2>1. SUFFICES ASSUME NEW o \in 0 .. InfoEnd(info) PROVE At(place + o) = InfoWord(info, o)
    BY DEF Intact
  <2>2. place + o \in Addresses /\ (place + o) - place = o
    <3>1. InfoEnd(info) \in Nat
      <4>1. Len(info) + 1 \in 1 .. Len(info) + 1
        BY <1>1
      <4>2. QED BY <1>1, <4>1, OffsetType DEF InfoEnd
    <3>2. place .. place + InfoEnd(info) \subseteq Addresses
      BY <1>1, InfoAssumption
    <3>3. place + o \in place .. place + InfoEnd(info)
      BY <1>1, <3>1
    <3>4. QED BY <1>1, <3>2, <3>3
  <2>3. QED BY <2>2 DEF Init, At
<1>5. AtTag(1) /\ 1 \in 1 .. Len(info) + 1
  BY <1>1 DEF Init, AtTag, Done, TagAt, TagOffset
<1>6. LoopInv
  BY <1>4, <1>5 DEF LoopInv, Init
<1>7. StartInv /\ TableInv
  BY DEF Init, StartInv, TableInv
<1>8. QED BY <1>1, <1>3, <1>6, <1>7 DEF IInv

-----------------------------------------------------------------------------
(* The steps that do not store *)

(* Handling one more tag. *)
LEMMA DoneMore ==
    ASSUME NEW k \in Nat, k # 0, info' = info, place' = place, Done(k - 1),
           handled' = handled \cup {TagAt(k)},
           Framebuffer = "known" => Framebuffer' = "known",
           info[k].type = FRAME_BUFFER => Framebuffer' = "known"
    PROVE  Done(k)'
<1>1. \A j : j \in 1 .. k <=> j \in 1 .. k - 1 \/ j = k
  OBVIOUS
<1>2. handled' = {TagAt(j) : j \in 1 .. k}
  BY <1>1 DEF Done
<1>3. handled' = {TagAt(j)' : j \in 1 .. k}
  BY <1>2, Kept
<1>4. (\E j \in 1 .. k : info[j].type = FRAME_BUFFER) => Framebuffer' = "known"
  BY <1>1 DEF Done
<1>5. QED BY <1>3, <1>4 DEF Done

(* A table that is there stays there. *)
LEMMA AfterKept ==
    ASSUME AfterInv, info' = info, place' = place, mem' = mem,
           UNCHANGED <<NumMemoryRanges, MaxAddress>>, pc' \notin {"ranges", "started"}
    PROVE  AfterInv'
<1>1. Highest(Len(Entries))'
  BY Kept DEF AfterInv, Highest
<1>2. QED BY <1>1, Kept, KeptMemory DEF AfterInv

(* A tag other than the memory map. *)
LEMMA HandleTagOK == IInv /\ HandleTag => IInv'
<1> SUFFICES ASSUME IInv, HandleTag PROVE IInv'
  OBVIOUS
<1> USE DEF HandleTag
<1>1. info' = info /\ place' = place /\ mem' = mem /\ info \in Infos /\ place \in Places
  BY DEF IInv
<1>2. TypeOK'
  <2>1. At(MultibootInfo) \in Words /\ MultibootInfo \in Int
    BY AtType DEF IInv, TypeOK
  <2>2. At(MultibootInfo).hi + 7 \in Nat /\ HalfRange \in Nat /\ HalfRange > 0
    BY <2>1, Sizes DEF Words
  <2>3. (At(MultibootInfo).hi + 7) % HalfRange \in Nat
    BY <2>2
  <2>4. NextTag(MultibootInfo) \in Int
    BY <2>1, <2>3 DEF NextTag
  <2>5. QED BY <2>4 DEF IInv, TypeOK
<1>3. LoopInv'
  <2> SUFFICES ASSUME maps = 0 \/ Apart
               PROVE  Intact' /\ \E k \in 1 .. Len(info) + 1 : AtTag(k)'
    BY <1>1, Kept DEF LoopInv
  <2>1. Intact /\ \E k \in 1 .. Len(info) + 1 : AtTag(k)
    BY DEF IInv, LoopInv
  <2>2. PICK k \in 1 .. Len(info) + 1 : AtTag(k)
    BY <2>1
  <2>3. MultibootInfo = TagAt(k) /\ Len(info) \in Nat
    BY <1>1, <2>2, InfoAssumption DEF AtTag
  <2>4. k \in 1 .. Len(info)
    BY <1>1, <2>1, <2>3, ReadEnd DEF IsEnd
  <2>5. Type = info[k].type /\ MultibootInfo' = TagAt(k + 1) /\ k + 1 \in 1 .. Len(info) + 1
    BY <1>1, <2>1, <2>3, <2>4, ReadTag DEF Type
  <2>6. Done(k)'
    <3>1. k \in Nat /\ k # 0 /\ Done(k - 1)
      BY <2>2, <2>3 DEF AtTag
    <3>2. /\ Framebuffer = "known" => Framebuffer' = "known"
          /\ info[k].type = FRAME_BUFFER => Framebuffer' = "known"
      BY <2>5
    <3>3. QED BY <1>1, <2>3, <3>1, <3>2, DoneMore
  <2>7. (k + 1) - 1 = k /\ \A j : j \in 1 .. k <=> j \in 1 .. k - 1 \/ j = k
    BY <2>3, <2>4
  <2>8. AtTag(k + 1)'
    <3>1. maps' = 0 <=> \A j \in 1 .. k : info[j].type # MEM_MAP
      BY <2>2, <2>5, <2>7 DEF AtTag
    <3>2. QED BY <1>1, <2>5, <2>6, <2>7, <3>1, Kept DEF AtTag
  <2>9. QED BY <1>1, <2>1, <2>5, <2>8, KeptMemory
<1>4. StartInv'
  BY DEF IInv, StartInv
<1>5. TableInv'
  <2> SUFFICES ASSUME maps = 1, Below \/ Behind PROVE AfterInv'
    BY <1>1, Kept DEF TableInv
  <2>1. AfterInv
    BY DEF IInv, TableInv
  <2>2. QED BY <1>1, <2>1, AfterKept
<1>6. QED BY <1>1, <1>2, <1>3, <1>4, <1>5 DEF IInv

(* The end of HandleMemory. *)
LEMMA EndHandleMemoryOK == IInv /\ EndHandleMemory => IInv'
<1> SUFFICES ASSUME IInv, EndHandleMemory PROVE IInv'
  OBVIOUS
<1> USE DEF EndHandleMemory
<1>1. info' = info /\ place' = place /\ mem' = mem /\ info \in Infos /\ place \in Places
  BY DEF IInv
<1>2. TypeOK'
  <2>1. At(MultibootInfo) \in Words /\ MultibootInfo \in Int
    BY AtType DEF IInv, TypeOK
  <2>2. At(MultibootInfo).hi + 7 \in Nat /\ HalfRange \in Nat /\ HalfRange > 0
    BY <2>1, Sizes DEF Words
  <2>3. (At(MultibootInfo).hi + 7) % HalfRange \in Nat
    BY <2>2
  <2>4. NextTag(MultibootInfo) \in Int
    BY <2>1, <2>3 DEF NextTag
  <2>5. QED BY <2>4 DEF IInv, TypeOK
<1>3. maps # 0
  BY DEF IInv, StartInv
<1>4. LoopInv'
  <2> SUFFICES ASSUME Apart
               PROVE  Intact' /\ \E k \in 1 .. Len(info) + 1 : AtTag(k)'
    BY <1>1, <1>3, Kept DEF LoopInv
  <2>1. Intact /\ \E k \in 1 .. Len(info) : InMap(k)
    BY DEF IInv, LoopInv
  <2>2. PICK k \in 1 .. Len(info) : InMap(k)
    BY <2>1
  <2>3. MultibootInfo' = TagAt(k + 1) /\ k + 1 \in 1 .. Len(info) + 1 /\ (k + 1) - 1 = k
        /\ k \in 1 .. k
    BY <1>1, <2>1, <2>2, ReadTag DEF InMap
  <2>4. Done(k)'
    BY <1>1, <2>2, Kept DEF InMap, Done
  <2>5. ~ (\A j \in 1 .. k : info[j].type # MEM_MAP) /\ maps' # 0
    BY <1>3, <2>2, <2>3 DEF InMap
  <2>6. AtTag(k + 1)'
    BY <1>1, <2>3, <2>4, <2>5, Kept DEF AtTag
  <2>7. QED BY <1>1, <2>1, <2>3, <2>6, KeptMemory
<1>5. StartInv'
  BY <1>3 DEF StartInv
<1>6. TableInv'
  <2> SUFFICES ASSUME maps = 1, Below \/ Behind PROVE AfterInv'
    BY <1>1, Kept DEF TableInv
  <2>1. EntriesInv
    BY DEF IInv, TableInv
  <2>2. Index = Len(Entries) /\ MaxIndex = Len(Entries)
    BY <2>1 DEF IInv, TypeOK, EntriesInv, MoreEntries
  <2>3. Highest(Len(Entries))'
    BY <1>1, <2>1, <2>2, Kept DEF EntriesInv, Highest
  <2>4. QED BY <1>1, <2>1, <2>2, <2>3, Kept, KeptMemory DEF EntriesInv, AfterInv
<1>7. QED BY <1>1, <1>2, <1>4, <1>5, <1>6 DEF IInv

(* The division by zero. *)
LEMMA DivideErrorOK == IInv /\ DivideError => IInv'
<1> SUFFICES ASSUME IInv, DivideError PROVE IInv'
  OBVIOUS
<1> USE DEF DivideError
<1>1. info' = info /\ place' = place /\ mem' = mem /\ info \in Infos /\ place \in Places
  BY DEF IInv
<1>2. TypeOK' /\ LoopInv' /\ StartInv'
  BY DEF IInv, TypeOK, LoopInv, StartInv
<1>3. TableInv'
  <2> SUFFICES ASSUME maps = 1, Below \/ Behind PROVE AfterInv'
    BY <1>1, Kept DEF TableInv
  <2>1. AfterInv
    BY DEF IInv, TableInv
  <2>2. QED BY <1>1, <2>1, AfterKept
<1>4. QED BY <1>1, <1>2, <1>3 DEF IInv

(* The end tag. *)
LEMMA EndTagsOK == IInv /\ EndTags => IInv'
<1> SUFFICES ASSUME IInv, EndTags PROVE IInv'
  OBVIOUS
<1> USE DEF EndTags
<1>1. info' = info /\ place' = place /\ mem' = mem /\ info \in Infos /\ place \in Places
  BY DEF IInv
<1>2. TypeOK' /\ StartInv'
  BY DEF IInv, TypeOK, StartInv
<1>3. LoopInv'
  <2> SUFFICES ASSUME maps = 0 \/ Apart
               PROVE  Done(Len(info))' /\ (maps = 0 => MemMaps = {})
    BY <1>1, Kept DEF LoopInv
  <2>1. Intact /\ \E k \in 1 .. Len(info) + 1 : AtTag(k)
    BY DEF IInv, LoopInv
  <2>2. PICK k \in 1 .. Len(info) + 1 : AtTag(k)
    BY <2>1
  <2>3. MultibootInfo = TagAt(k) /\ Len(info) \in Nat
    BY <1>1, <2>2, InfoAssumption DEF AtTag
  <2>4. ASSUME k \in 1 .. Len(info) PROVE FALSE
    BY <1>1, <2>1, <2>3, <2>4, ReadTag DEF IsEnd
  <2>5. k - 1 = Len(info)
    BY <2>3, <2>4
  <2>6. Done(Len(info)) /\ (maps = 0 => MemMaps = {})
    BY <2>2, <2>5 DEF AtTag, MemMaps
  <2>7. QED BY <1>1, <2>6, Kept DEF Done
<1>4. TableInv'
  <2> SUFFICES ASSUME maps = 1, Below \/ Behind PROVE AfterInv'
    BY <1>1, Kept DEF TableInv
  <2>1. AfterInv
    BY DEF IInv, TableInv
  <2>2. Highest(Len(Entries))'
    BY <1>1, <2>1, Kept DEF AfterInv, Highest
  <2>3. QED BY <1>1, <2>1, <2>2, Kept, KeptMemory DEF AfterInv
<1>5. QED BY <1>1, <1>2, <1>3, <1>4 DEF IInv

(* Finitely many numbers have a highest one. *)
LEMMA HighestExists ==
    ASSUME NEW n \in Nat, NEW v \in [0 .. n - 1 -> Nat]
    PROVE  \E m \in {0} \cup {v[i] : i \in 0 .. n - 1} :
             \A y \in {0} \cup {v[i] : i \in 0 .. n - 1} : m >= y
<1> DEFINE T(k) == {0} \cup {v[i] : i \in 0 .. k - 1}
           Good(k) == \E m \in T(k) : \A y \in T(k) : m >= y
           S == {k \in Nat : k <= n /\ ~ Good(k)}
<1>1. SUFFICES ASSUME S # {} PROVE FALSE
  <2>1. n \notin S => Good(n)
    OBVIOUS
  <2>2. QED BY <2>1
<1>2. PICK k \in S : \A j \in S : k <= j
  <2>1. S \in SUBSET Nat
    OBVIOUS
  <2> HIDE DEF S
  <2>2. QED BY <1>1, <2>1, LeastNumber
<1>3. k \in Nat /\ k <= n /\ ~ Good(k)
  BY <1>2
<1>4. k # 0
  <2>1. T(0) = {0}
    OBVIOUS
  <2>2. Good(0)
    BY <2>1
  <2>3. QED BY <1>3, <2>2
<1>5. k - 1 \in Nat /\ k - 1 \notin S
  <2>1. k - 1 \in Nat /\ ~ (k <= k - 1)
    BY <1>3, <1>4
  <2> HIDE DEF S
  <2>2. QED BY <1>2, <2>1
<1>6. Good(k - 1)
  BY <1>3, <1>5
<1>7. PICK m \in T(k - 1) : \A y \in T(k - 1) : m >= y
  BY <1>6
<1>8. T(k) = T(k - 1) \cup {v[k - 1]}
  <2>1. \A i : i \in 0 .. k - 1 <=> i \in 0 .. (k - 1) - 1 \/ i = k - 1
    BY <1>3, <1>4
  <2>2. QED BY <2>1
<1>9. v[k - 1] \in Nat /\ T(k - 1) \subseteq Nat
  BY <1>3, <1>4
<1> HIDE DEF T
<1>10. Good(k)
  BY <1>7, <1>8, <1>9
<1>11. QED BY <1>3, <1>10

(* A number that is in a set and above all of it is its maximum. *)
LEMMA MaxIs ==
    ASSUME NEW T \in SUBSET Nat, NEW m \in T, \A y \in T : m >= y
    PROVE  Max(T) = m
<1>1. Max(T) \in T /\ \A y \in T : Max(T) >= y
  BY DEF Max
<1>2. Max(T) \in Nat /\ m \in Nat /\ Max(T) >= m /\ m >= Max(T)
  BY <1>1
<1>3. QED BY <1>2

(* KiInitializeMemMgr finds the highest address. *)
LEMMA KiInitializeMemMgrOK == IInv /\ KiInitializeMemMgr => IInv'
<1> SUFFICES ASSUME IInv, KiInitializeMemMgr PROVE IInv'
  OBVIOUS
<1> USE DEF KiInitializeMemMgr
<1> DEFINE n == NumMemoryRanges
           Found(i) == Value(At(RangesAt(n, i) + 3))
           T == {0} \cup {Found(i) : i \in 0 .. n - 1}
<1>1. info' = info /\ place' = place /\ mem' = mem /\ info \in Infos /\ place \in Places
  BY DEF IInv
<1>2. n \in Nat /\ MaxAddress \in Nat /\ MaximumPAddr' = Max(T)
  BY DEF IInv, TypeOK
<1>3. \A i \in 0 .. n - 1 : Found(i) \in Nat
  BY AtType, ValueType DEF IInv, TypeOK
<1> HIDE DEF Found
<1>4. Max(T) \in Nat
  <2> DEFINE v == [i \in 0 .. n - 1 |-> Found(i)]
  <2>1. v \in [0 .. n - 1 -> Nat]
    BY <1>3
  <2>2. T = {0} \cup {v[i] : i \in 0 .. n - 1}
    OBVIOUS
  <2> HIDE DEF v, n
  <2>3. PICK m \in T : \A y \in T : m >= y
    BY <1>2, <2>1, <2>2, HighestExists
  <2>4. T \in SUBSET Nat
    BY <1>3
  <2> HIDE DEF T
  <2>5. Max(T) = m
    BY <2>3, <2>4, MaxIs
  <2>6. QED BY <2>3, <2>4, <2>5
<1>5. TypeOK'
  BY <1>2, <1>4 DEF IInv, TypeOK
<1>6. LoopInv'
  BY <1>1, Kept DEF IInv, LoopInv
<1>7. StartInv'
  <2> SUFFICES ASSUME maps = 0 PROVE MaximumPAddr' = 0
    BY DEF IInv, StartInv
  <2>1. n = 0
    BY DEF IInv, StartInv
  <2>2. T = {0}
    BY <2>1
  <2>3. T \in SUBSET Nat /\ 0 \in T /\ \A y \in T : 0 >= y
    BY <2>2
  <2> HIDE DEF T
  <2>4. QED BY <1>2, <2>3, MaxIs
<1>8. TableInv'
  <2> SUFFICES ASSUME maps = 1, Below \/ Behind PROVE AfterInv'
    BY <1>1, Kept DEF TableInv
  <2>1. AfterInv /\ n = Len(Entries) /\ Index = n
    BY DEF IInv, TableInv, AfterInv
  <2>2. \A i \in 0 .. n - 1 : i + 1 \in 1 .. n /\ (i + 1) - 1 = i
    BY <1>2
  <2>3. \A i \in 0 .. n - 1 : Found(i) = EndOf(Entries[i + 1])
    BY <2>1, <2>2 DEF AfterInv, CopyIs, Found, EndOf
  <2>4. \A i \in 0 .. n - 1 : MaxAddress >= Found(i)
    <3>1. \A i \in 1 .. n : EndOf(Entries[i]) <= MaxAddress
      BY <2>1 DEF AfterInv, Highest
    <3>2. QED BY <1>2, <1>3, <2>2, <2>3, <3>1
  <2>5. MaxAddress \in T
    <3>1. CASE MaxAddress = 0
      BY <3>1
    <3>2. CASE MaxAddress # 0
      <4>1. PICK i \in 1 .. n : MaxAddress = EndOf(Entries[i])
        BY <2>1, <3>2 DEF AfterInv, Highest
      <4>2. i - 1 \in 0 .. n - 1 /\ (i - 1) + 1 = i
        BY <1>2
      <4>3. Found(i - 1) = MaxAddress
        BY <2>3, <4>1, <4>2
      <4>4. QED BY <4>2, <4>3
    <3>3. QED BY <3>1, <3>2
  <2>6. T \in SUBSET Nat /\ \A y \in T : MaxAddress >= y
    BY <1>2, <1>3, <2>4
  <2>7. MaximumPAddr' = MaxAddress
    <3> HIDE DEF T
    <3>1. QED BY <1>2, <2>5, <2>6, MaxIs
  <2>8. Highest(Len(Entries))'
    BY <1>1, <2>1, Kept DEF AfterInv, Highest
  <2>9. QED BY <1>1, <2>1, <2>7, <2>8, Kept, KeptMemory DEF AfterInv
<1>9. QED BY <1>1, <1>5, <1>6, <1>7, <1>8 DEF IInv

-----------------------------------------------------------------------------
(* The steps that store *)

(* Stores into the first table do not touch information apart from it. *)
LEMMA StaysIntact ==
    ASSUME info \in Infos, place \in Places, Apart, Intact, info' = info, place' = place,
           \A b \in Addresses : b < 0 \/ b >= RangeAt(Len(Entries)) => mem'[b] = mem[b]
    PROVE  Intact'
<1>1. PICK n \in Nat : n = Len(Entries)
  BY EntriesFacts
<1>2. place \in Int /\ InfoEnd(info) \in Nat
  <2>1. Len(info) \in Nat
    BY InfoAssumption
  <2>2. Len(info) + 1 \in 1 .. Len(info) + 1
    BY <2>1
  <2>3. QED BY <2>2, OffsetType, Sizes DEF InfoEnd
<1>3. ASSUME NEW o \in 0 .. InfoEnd(info) PROVE At(place + o)' = At(place + o)
  <2>1. place + o < 0 \/ place + o >= RangeAt(n)
    BY <1>1, <1>2 DEF Apart, Below, RangeAt
  <2>2. QED BY <1>1, <2>1 DEF At
<1>4. QED BY <1>3 DEF Intact

(* The words of an entry not read yet are not in the first i ranges. *)
LEMMA EntryBeyond ==
    ASSUME info \in Infos, place \in Places, Below \/ Behind, NEW k \in MemMaps,
           NEW i \in Nat, i < Len(Entries), NEW f \in 0 .. 2
    PROVE  /\ EntryAt(TagAt(k), i) + f < 0 \/ EntryAt(TagAt(k), i) + f >= RangeAt(i)
           /\ EntryAt(TagAt(k), i) + f \in Int
           /\ EntryAt(TagAt(k), i) + f # 0
<1>1. PICK n \in Nat : n = Len(Entries)
  BY EntriesFacts
<1>2. k \in 1 .. Len(info) /\ info[k].type = MEM_MAP /\ Entries = info[k].entries
  BY TheMap DEF MemMaps
<1>3. /\ info[k].at \in Nat /\ info[k].at = TagOffset(info, k) /\ 1 <= info[k].at
      /\ TagEnd(info[k]) = info[k].at + 2 + 3 * n /\ place \in Int
      /\ InfoEnd(info) \in Nat /\ TagEnd(info[k]) <= InfoEnd(info)
  <2>1. Len(info) \in Nat
    BY InfoAssumption
  <2>2. /\ k < Len(info) + 1 /\ Len(info) + 1 \in 1 .. Len(info) + 1
        /\ k \in 1 .. Len(info) + 1
    BY <1>2, <2>1
  <2>3. InfoEnd(info) \in Nat /\ TagEnd(info[k]) <= InfoEnd(info)
    BY <1>2, <2>2, OffsetType, Layout DEF InfoEnd
  <2>4. info[k].at \in Nat /\ info[k].at = TagOffset(info, k) /\ 1 <= info[k].at
    BY <1>2, <2>2, TagFacts, OffsetType
  <2>5. TagEnd(info[k]) = info[k].at + 2 + 3 * n
    BY <1>1, <1>2, MapEnd
  <2>6. QED BY <2>3, <2>4, <2>5, Sizes
<1>4. EntryAt(TagAt(k), i) + f = place + info[k].at + 2 + 3 * i + f
  BY <1>3 DEF EntryAt, TagAt
<1>5. CASE Below
  <2>1. place + InfoEnd(info) < 0
    BY <1>5 DEF Below
  <2>2. place + info[k].at + 2 + 3 * i + f < 0
    <3>1. PICK a \in Nat, m \in Nat, p \in Int :
            a = info[k].at /\ m = InfoEnd(info) /\ p = place
      BY <1>3
    <3>2. a + 2 + 3 * n <= m /\ p + m < 0 /\ i < n
      BY <1>1, <1>3, <2>1, <3>1
    <3>3. p + a + 2 + 3 * i + f < 0
      BY <3>2
    <3>4. QED BY <3>1, <3>3
  <2>3. PICK x \in Int : x = EntryAt(TagAt(k), i) + f /\ x < 0
    <3>1. place + info[k].at + 2 + 3 * i + f \in Int
      BY <1>3
    <3>2. QED BY <1>4, <2>2, <3>1
  <2>4. x # 0
    BY <2>3
  <2>5. QED BY <2>3, <2>4
<1>6. CASE Behind
  <2>1. place >= 0
    BY <1>6 DEF Behind
  <2>2. place + info[k].at + 2 + 3 * i + f >= 1 + 3 * i
    BY <1>3, <2>1
  <2>3. PICK x \in Int : x = EntryAt(TagAt(k), i) + f /\ x >= 1 + 3 * i
    <3>1. place + info[k].at + 2 + 3 * i + f \in Int
      BY <1>3
    <3>2. QED BY <1>4, <2>2, <3>1
  <2>4. x # 0 /\ RangeAt(i) = 1 + 3 * i
    BY <2>3 DEF RangeAt
  <2>5. QED BY <2>3, <2>4
<1>7. QED BY <1>5, <1>6

(* The beginning of HandleMemory. *)
LEMMA BeginHandleMemoryOK == IInv /\ BeginHandleMemory => IInv'
<1> SUFFICES ASSUME IInv, BeginHandleMemory PROVE IInv'
  OBVIOUS
<1> USE DEF BeginHandleMemory
<1>1. info' = info /\ place' = place /\ info \in Infos /\ place \in Places
  BY DEF IInv
<1>2. MaxIndex' \in Nat
  <2>1. At(MultibootInfo) \in Words /\ At(MultibootInfo + 1) \in Words
    BY AtType DEF IInv, TypeOK
  <2>2. At(MultibootInfo).hi \in Nat /\ EntrySize \in Nat /\ EntrySize # 0
    BY <2>1, Sizes DEF Words, EntrySize
  <2>3. QED BY <2>2
<1>3. \A b \in Addresses : mem'[b] = IF b = 0 THEN Word(MaxIndex') ELSE mem[b]
  <2> DEFINE w == Word(MaxIndex')
  <2>1. mem' = Store(mem, 0, <<w>>) /\ 0 \in Int
    OBVIOUS
  <2> HIDE DEF w, BeginHandleMemory
  <2>2. \A b \in Addresses : mem'[b] = IF b = 0 THEN w ELSE mem[b]
    <3> SUFFICES ASSUME NEW b \in Addresses PROVE mem'[b] = IF b = 0 THEN w ELSE mem[b]
      OBVIOUS
    <3>1. Store(mem, 0, <<w>>)[b] = IF b = 0 THEN w ELSE mem[b]
      BY StoreOne
    <3>2. QED BY <2>1, <3>1
  <2>3. QED BY <2>2 DEF w
<1>4. TypeOK'
  <2>1. mem' \in [Addresses -> Words]
    <3>1. mem' = [b \in Addresses |-> mem'[b]]
      BY DEF Store
    <3>2. \A b \in Addresses : mem'[b] \in Words
      BY <1>2, <1>3, WordType DEF IInv, TypeOK
    <3>3. QED BY <3>1, <3>2
  <2>2. QED BY <1>2, <2>1 DEF IInv, TypeOK
<1>5. ASSUME maps = 0 \/ Apart
      PROVE  /\ Intact /\ MaxIndex' = Len(Entries)
             /\ \E k \in MemMaps : k \in 1 .. Len(info) /\ InMap(k)'
  <2>1. Intact /\ \E k \in 1 .. Len(info) + 1 : AtTag(k)
    BY <1>5 DEF IInv, LoopInv
  <2>2. PICK k \in 1 .. Len(info) + 1 : AtTag(k)
    BY <2>1
  <2>3. MultibootInfo = TagAt(k) /\ Len(info) \in Nat
    BY <1>1, <2>2, InfoAssumption DEF AtTag
  <2>4. k \in 1 .. Len(info)
    BY <1>1, <2>1, <2>3, ReadEnd DEF IsEnd
  <2>5. info[k].type = MEM_MAP /\ At(TagAt(k)).hi = info[k].size
    BY <1>1, <2>1, <2>3, <2>4, ReadTag DEF Type
  <2>6. k \in MemMaps /\ Entries = info[k].entries
    BY <1>1, <2>4, <2>5, TheMap DEF MemMaps
  <2>7. MaxIndex' = Len(Entries)
    <3>1. EntrySize = 24
      BY <1>1, <2>1, <2>3, <2>4, <2>5, ReadMap DEF EntrySize
    <3>2. PICK n \in Nat : n = Len(Entries)
      BY <1>1, EntriesFacts
    <3>3. info[k].size = 16 + 24 * n
      BY <1>1, <2>4, <2>5, <2>6, <3>2, TagFacts
    <3>4. (16 + 24 * n) \div 24 = n
      BY <3>2
    <3>5. MaxIndex' = info[k].size \div 24
      BY <2>3, <2>5, <3>1
    <3>6. QED BY <3>2, <3>3, <3>4, <3>5
  <2>8. Done(k)'
    <3>1. k \in Nat /\ k # 0 /\ Done(k - 1) /\ info[k].type # FRAME_BUFFER
      BY <2>2, <2>3, <2>5 DEF AtTag, MEM_MAP, FRAME_BUFFER
    <3>2. QED BY <1>1, <2>3, <3>1, DoneMore
  <2>9. InMap(k)'
    BY <1>1, <2>3, <2>5, <2>7, <2>8, Kept DEF InMap
  <2>10. QED BY <2>1, <2>4, <2>6, <2>7, <2>9
<1>6. maps' # 0 /\ pc' = "entries"
  OBVIOUS
<1>7. LoopInv'
  <2> SUFFICES ASSUME Apart
               PROVE  Intact' /\ \E k \in 1 .. Len(info) : InMap(k)'
    BY <1>1, <1>6, Kept DEF LoopInv
  <2>1. ~ (0 < 0) /\ ~ (0 >= RangeAt(Len(Entries)))
    BY <1>1, EntriesFacts DEF RangeAt
  <2>2. Intact'
    BY <1>1, <1>3, <1>5, <2>1, StaysIntact
  <2>3. QED BY <1>5, <2>2
<1>8. StartInv'
  BY <1>6 DEF StartInv
<1>9. TableInv'
  <2> SUFFICES ASSUME maps = 0, Below \/ Behind PROVE EntriesInv'
    BY <1>1, <1>6, Kept DEF TableInv
  <2>1. PICK k \in MemMaps : k \in 1 .. Len(info) /\ InMap(k)'
    BY <1>5
  <2>2. MultibootInfo' = TagAt(k) /\ MultibootInfo = TagAt(k) /\ info[k].type = MEM_MAP
    BY <1>1, <2>1, Kept DEF InMap
  <2>3. Entries = info[k].entries /\ Len(Entries) \in Nat /\ Intact /\ Index' = 0
        /\ MaxIndex' = Len(Entries)
    BY <1>1, <1>5, <2>1, TheMap, EntriesFacts
  <2>4. ASSUME NEW i \in 1 .. Len(Entries), NEW f \in 0 .. 2
        PROVE  At(EntryAt(TagAt(k), i - 1) + f)' = EntryWord(Entries[i], f)
    <3>1. i - 1 \in Nat /\ i - 1 < Len(Entries) /\ (i - 1) + 1 = i
      BY <2>3
    <3>2. At(EntryAt(TagAt(k), i - 1) + f) = EntryWord(Entries[i], f)
      BY <1>1, <2>1, <2>2, <2>3, <3>1, ReadMap DEF EntryAt
    <3>3. EntryAt(TagAt(k), i - 1) + f # 0
      BY <1>1, <3>1, EntryBeyond
    <3> DEFINE a == EntryAt(TagAt(k), i - 1) + f
    <3>4. At(a)' = At(a)
      <4>1. a' = a
        BY <1>1, Kept DEF EntryAt
      <4> HIDE DEF a
      <4>2. QED BY <1>3, <3>3, <4>1 DEF At, a
    <3>5. QED BY <3>2, <3>4
  <2>5. \A i \in Index' + 1 .. Len(Entries) : Unread(i)'
    BY <1>1, <2>2, <2>3, <2>4, Kept DEF Unread, EntryAt
  <2>6. Highest(0)'
    BY DEF Highest, IInv, StartInv
  <2>7. QED BY <1>1, <2>1, <2>2, <2>3, <2>5, <2>6, Kept DEF EntriesInv
<1>10. QED BY <1>1, <1>4, <1>7, <1>8, <1>9 DEF IInv

(* What a round of HandleMemory reads, and what it stores. *)
ReadStart == Value(At(EntryAt(MultibootInfo, Index)))
ReadLen == Value(At(EntryAt(MultibootInfo, Index) + 1))
NewEnd == Value(Word(ReadStart + ReadLen))
NewUsage == UsageOf(At(EntryAt(MultibootInfo, Index) + 2).lo)

(* The effect of a round on memory. *)
LEMMA EntryStores ==
    ASSUME IInv, HandleEntry
    PROVE  /\ \A b \in Addresses :
                mem'[b] = IF b = RangeAt(Index) + 1 THEN Word(ReadStart) ELSE
                          IF b = RangeAt(Index) + 2 THEN Word(NewEnd) ELSE
                          IF b = RangeAt(Index) THEN [mem[b] EXCEPT !.lo = NewUsage]
                          ELSE mem[b]
           /\ mem' \in [Addresses -> Words]
           /\ MaxAddress' = IF NewEnd > MaxAddress THEN NewEnd ELSE MaxAddress
           /\ NewEnd \in Nat /\ NewUsage \in Nat
<1> DEFINE r == RangeAt(Index)
           m == StoreLow(mem, r, NewUsage)
           w1 == Word(ReadStart)
           w2 == Word(NewEnd)
<1>1. /\ mem' = Store(m, r + 1, <<w1, w2>>)
      /\ MaxAddress' = IF NewEnd > MaxAddress THEN NewEnd ELSE MaxAddress
  BY DEF HandleEntry, ReadStart, ReadLen, NewEnd, NewUsage
<1>2. r \in Int /\ r + 1 \in Int /\ r + 1 + 1 = r + 2
  BY DEF IInv, TypeOK, RangeAt
<1>3. ReadStart \in Nat /\ ReadLen \in Nat
  BY AtType, ValueType DEF IInv, TypeOK, ReadStart, ReadLen
<1>4. NewEnd \in Nat
  <2>1. ReadStart + ReadLen \in Int
    BY <1>3
  <2>2. QED BY <2>1, WordType, ValueType DEF NewEnd
<1>5. NewUsage \in 0 .. HalfRange - 1
  BY Sizes DEF NewUsage, UsageOf, FREE_AREA, RESERVED_AREA, OTHER_AREA
<1>6. w1 \in Words /\ w2 \in Words
  BY <1>3, <1>4, WordType
<1> HIDE DEF r, m, w1, w2
<1>7. ASSUME NEW b \in Addresses
      PROVE  mem'[b] = IF b = r + 1 THEN w1 ELSE IF b = r + 2 THEN w2 ELSE
                       IF b = r THEN [mem[b] EXCEPT !.lo = NewUsage] ELSE mem[b]
  <2>1. Store(m, r + 1, <<w1, w2>>)[b] =
            IF b = r + 1 THEN w1 ELSE IF b = r + 1 + 1 THEN w2 ELSE m[b]
    BY <1>2, StoreTwo
  <2>2. m[b] = IF b = r THEN [mem[b] EXCEPT !.lo = NewUsage] ELSE mem[b]
    BY DEF m, StoreLow
  <2>3. QED BY <1>1, <1>2, <2>1, <2>2
<1>8. mem' \in [Addresses -> Words]
  <2>1. mem' = [b \in Addresses |-> mem'[b]]
    BY <1>1 DEF Store
  <2>2. ASSUME NEW b \in Addresses PROVE mem'[b] \in Words
    <3>1. mem[b] \in Words
      BY DEF IInv, TypeOK
    <3>2. [mem[b] EXCEPT !.lo = NewUsage] \in Words
      BY <1>5, <3>1 DEF Words
    <3>3. QED BY <1>6, <1>7, <3>1, <3>2
  <2>3. QED BY <2>1, <2>2
<1>9. NewUsage \in Nat
  BY <1>5, Sizes
<1>10. QED BY <1>1, <1>4, <1>7, <1>8, <1>9 DEF r, w1, w2

(* The entry is what the boot loader left, so the range is its. *)
LEMMA EntryRead ==
    ASSUME IInv, HandleEntry, EntriesInv
    PROVE  /\ ReadStart = Entries[Index + 1].addr
           /\ NewEnd = EndOf(Entries[Index + 1])
           /\ NewUsage = UsageOf(Entries[Index + 1].type)
           /\ Entries[Index + 1] \in MapEntries
           /\ Index \in Nat /\ Index < Len(Entries) /\ Len(Entries) \in Nat
<1>1. /\ Index \in Nat /\ Index < Len(Entries) /\ Len(Entries) \in Nat
      /\ Entries \in Seq(MapEntries)
  BY EntriesFacts DEF IInv, TypeOK, HandleEntry, MoreEntries, EntriesInv
<1>2. Index + 1 \in Index + 1 .. Len(Entries) /\ Index + 1 \in 1 .. Len(Entries)
      /\ (Index + 1) - 1 = Index
  BY <1>1
<1> DEFINE e == Entries[Index + 1]
           a == EntryAt(MultibootInfo, Index)
<1>3. e \in MapEntries
  BY <1>1, <1>2
<1>4. Unread(Index + 1)
  BY <1>2 DEF EntriesInv
<1>5. At(a + 0) = EntryWord(e, 0) /\ At(a + 1) = EntryWord(e, 1) /\ At(a + 2) = EntryWord(e, 2)
  BY <1>2, <1>4 DEF Unread
<1>6. a + 0 = a
  <2>1. a \in Int
    BY <1>1 DEF IInv, TypeOK, EntryAt
  <2> HIDE DEF a
  <2>2. QED BY <2>1
<1>7. At(a) = Word(e.addr) /\ At(a + 1) = Word(e.len) /\ At(a + 2) = Word(e.type)
  BY <1>5, <1>6 DEF EntryWord
<1>8. /\ Value(Word(e.addr)) = e.addr /\ Value(Word(e.len)) = e.len
      /\ Value(Word(e.addr + e.len)) = e.addr + e.len /\ Word(e.type).lo = e.type
  <2> HIDE DEF e
  <2>1. QED BY <1>3, EntryFacts, StoredValue, LowHalf
<1>9. QED BY <1>1, <1>3, <1>7, <1>8 DEF ReadStart, ReadLen, NewEnd, NewUsage, EndOf

(* One round of HandleMemory. *)
LEMMA HandleEntryOK == IInv /\ HandleEntry => IInv'
<1> SUFFICES ASSUME IInv, HandleEntry PROVE IInv'
  OBVIOUS
<1> DEFINE r == RangeAt(Index)
<1>1. /\ info' = info /\ place' = place /\ info \in Infos /\ place \in Places
      /\ Index' = Index + 1 /\ Index < MaxIndex /\ pc = "entries"
      /\ UNCHANGED <<pc, MultibootInfo, MaxIndex, NumMemoryRanges, Framebuffer,
                     MaximumPAddr, handled, maps>>
  BY DEF IInv, HandleEntry, MoreEntries
<1>2. /\ \A b \in Addresses : b \notin {r, r + 1, r + 2} => mem'[b] = mem[b]
      /\ mem' \in [Addresses -> Words]
      /\ MaxAddress' = IF NewEnd > MaxAddress THEN NewEnd ELSE MaxAddress
      /\ NewEnd \in Nat /\ NewUsage \in Nat
  BY EntryStores
<1>3. Index \in Nat /\ r = 1 + 3 * Index /\ MaxIndex \in Nat
  BY DEF IInv, TypeOK, RangeAt
<1>4. TypeOK'
  BY <1>1, <1>2, <1>3 DEF IInv, TypeOK
<1>5. maps # 0
  BY <1>1 DEF IInv, StartInv
<1>6. LoopInv'
  <2> SUFFICES ASSUME Apart
               PROVE  Intact' /\ \E k \in 1 .. Len(info) : InMap(k)'
    BY <1>1, <1>5, Kept DEF LoopInv
  <2>1. Intact /\ \E k \in 1 .. Len(info) : InMap(k)
    BY <1>1 DEF IInv, LoopInv
  <2>2. PICK k \in 1 .. Len(info) : InMap(k)
    BY <2>1
  <2>3. InMap(k)'
    BY <1>1, <2>2, Kept DEF InMap, Done
  <2>4. PICK n \in Nat : n = Len(Entries) /\ n = MaxIndex
    BY <1>3, <2>2 DEF InMap
  <2>5. ASSUME NEW b \in Addresses, b < 0 \/ b >= RangeAt(n) PROVE mem'[b] = mem[b]
    <3>1. b \in Int /\ b \notin {r, r + 1, r + 2}
      BY <1>1, <1>3, <2>4, <2>5, Sizes DEF RangeAt
    <3>2. QED BY <1>2, <3>1
  <2>6. Intact'
    BY <1>1, <2>1, <2>4, <2>5, StaysIntact
  <2>7. QED BY <2>3, <2>6
<1>7. StartInv'
  BY <1>1, <1>5 DEF StartInv
<1>8. TableInv'
  <2> SUFFICES ASSUME maps = 1, Below \/ Behind PROVE EntriesInv'
    BY <1>1, Kept DEF TableInv
  <2>1. EntriesInv
    BY <1>1 DEF IInv, TableInv
  <2>2. PICK I \in Nat, e \in MapEntries :
          /\ I = Index /\ e = Entries[Index + 1] /\ I < Len(Entries) /\ Len(Entries) \in Nat
          /\ ReadStart = e.addr /\ NewEnd = EndOf(e) /\ NewUsage = UsageOf(e.type)
    BY <2>1, EntryRead
  <2>3. RangeIs(I, e)'
    <3>1. PICK c \in Int : c = RangeAt(I) /\ c = r
      BY <1>3, <2>2 DEF RangeAt
    <3>2. c + 0 \in Addresses /\ c + 1 \in Addresses /\ c + 2 \in Addresses /\ c + 0 = c
      BY <1>1, <2>2, <3>1, FirstTable
    <3>3. c # c + 1 /\ c # c + 2 /\ c + 1 # c + 2
      OBVIOUS
    <3>4. /\ mem'[c] = [mem[c] EXCEPT !.lo = NewUsage]
          /\ mem'[c + 1] = Word(ReadStart) /\ mem'[c + 2] = Word(NewEnd)
      BY <3>1, <3>2, <3>3, EntryStores
    <3>5. mem'[c].lo = NewUsage
      <4>1. mem[c] \in Words
        BY <3>2 DEF IInv, TypeOK
      <4>2. QED BY <3>4, <4>1 DEF Words
    <3>6. Value(Word(e.addr)) = e.addr /\ Value(Word(e.addr + e.len)) = e.addr + e.len
      BY <2>2, EntryFacts, StoredValue
    <3>7. mem'[c].lo = UsageOf(e.type) /\ Value(mem'[c + 1]) = e.addr
          /\ Value(mem'[c + 2]) = e.addr + e.len
      BY <2>2, <3>4, <3>5, <3>6 DEF EndOf
    <3>8. At(c)' = mem'[c] /\ At(c + 1)' = mem'[c + 1] /\ At(c + 2)' = mem'[c + 2]
      BY <3>2 DEF At
    <3>9. QED BY <3>1, <3>7, <3>8 DEF RangeIs
  <2>4. ASSUME NEW i \in 1 .. Index PROVE RangeIs(i - 1, Entries[i])'
    <3>1. RangeIs(i - 1, Entries[i])
      BY <2>1 DEF EntriesInv
    <3>2. ASSUME NEW f \in 0 .. 2 PROVE RangeAt(i - 1) + f \notin {r, r + 1, r + 2}
      BY <1>3 DEF RangeAt
    <3>3. RangeAt(i - 1) + 0 = RangeAt(i - 1)
      BY <1>3 DEF RangeAt
    <3>4. /\ mem'[RangeAt(i - 1)] = mem[RangeAt(i - 1)] \/ RangeAt(i - 1) \notin Addresses
          /\ mem'[RangeAt(i - 1) + 1] = mem[RangeAt(i - 1) + 1] \/ RangeAt(i - 1) + 1 \notin Addresses
          /\ mem'[RangeAt(i - 1) + 2] = mem[RangeAt(i - 1) + 2] \/ RangeAt(i - 1) + 2 \notin Addresses
      BY <1>2, <3>2, <3>3
    <3> HIDE DEF r
    <3>5. QED BY <1>1, <3>1, <3>4, Kept DEF RangeIs, At, RangeAt
  <2>5. \A i \in 1 .. Index' : RangeIs(i - 1, Entries[i])'
    <3>1. \A i \in 1 .. I + 1 : i \in 1 .. I \/ (i = I + 1 /\ i - 1 = I)
      OBVIOUS
    <3>2. Entries' = Entries /\ Index' = I + 1 /\ Entries[I + 1] = e
      BY <1>1, <2>2, Kept
    <3>3. ASSUME NEW i \in 1 .. I + 1 PROVE RangeIs(i - 1, Entries[i])'
      <4>1. CASE i \in 1 .. I
        BY <2>2, <2>4, <4>1
      <4>2. CASE i = I + 1 /\ i - 1 = I
        BY <2>3, <3>2, <4>2 DEF RangeIs
      <4>3. QED BY <3>1, <4>1, <4>2
    <3>4. QED BY <3>2, <3>3
  <2>6. PICK k \in MemMaps : MultibootInfo = TagAt(k)
    BY <2>1 DEF EntriesInv
  <2>7. ASSUME NEW i \in Index' + 1 .. Len(Entries) PROVE Unread(i)'
    <3>1. i - 1 \in Nat /\ i - 1 < Len(Entries) /\ i - 1 >= Index + 1
          /\ i \in Index + 1 .. Len(Entries)
      BY <1>1, <1>3, <2>2
    <3>2. ASSUME NEW f \in 0 .. 2
          PROVE  At(EntryAt(MultibootInfo, i - 1) + f)' = EntryWord(Entries[i], f)
      <4> DEFINE a == EntryAt(MultibootInfo, i - 1) + f
      <4>1. At(a) = EntryWord(Entries[i], f)
        BY <2>1, <3>1 DEF EntriesInv, Unread
      <4>2. a \in Int /\ (a < 0 \/ a >= RangeAt(i - 1))
        BY <1>1, <2>6, <3>1, EntryBeyond
      <4>3. a \notin {r, r + 1, r + 2}
        BY <1>3, <3>1, <4>2 DEF RangeAt
      <4>4. a' = a
        BY <1>1 DEF EntryAt
      <4> HIDE DEF a, r
      <4>5. At(a)' = At(a)
        BY <1>2, <4>3, <4>4 DEF At
      <4>6. QED BY <4>1, <4>5 DEF a
    <3>3. QED BY <1>1, <3>2, Kept DEF Unread
  <2>8. Highest(I + 1)'
    <3>1. MaxAddress \in Nat /\ Highest(I) /\ EndOf(e) \in Nat
      BY <1>2, <2>1, <2>2 DEF IInv, TypeOK, EntriesInv
    <3>2. /\ MaxAddress' \in Nat /\ MaxAddress' >= MaxAddress /\ MaxAddress' >= EndOf(e)
          /\ MaxAddress' = MaxAddress \/ MaxAddress' = EndOf(e)
      BY <1>2, <2>2, <3>1
    <3>3. \A i \in 1 .. I + 1 : i \in 1 .. I \/ i = I + 1
      OBVIOUS
    <3>4. /\ I + 1 \in 1 .. I + 1 /\ Entries[I + 1] = e
          /\ \A i \in 1 .. I : i \in 1 .. I + 1 /\ Entries[i] \in MapEntries
      BY <1>1, <2>2, EntriesFacts
    <3>5. \A i \in 1 .. I : EndOf(Entries[i]) \in Nat
      BY <3>4, EntryFacts DEF EndOf
    <3>6. \A i \in 1 .. I + 1 : EndOf(Entries[i]) <= MaxAddress'
      <4>1. \A i \in 1 .. I : EndOf(Entries[i]) <= MaxAddress
        BY <3>1 DEF Highest
      <4>2. QED BY <3>1, <3>2, <3>3, <3>4, <3>5, <4>1
    <3>7. MaxAddress' = 0 \/ \E i \in 1 .. I + 1 : MaxAddress' = EndOf(Entries[i])
      <4>1. MaxAddress = 0 \/ \E i \in 1 .. I : MaxAddress = EndOf(Entries[i])
        BY <3>1 DEF Highest
      <4>2. QED BY <3>2, <3>4, <4>1
    <3>8. QED BY <1>1, <3>6, <3>7, Kept DEF Highest
  <2>9. Index' = I + 1
    BY <1>1, <2>2
  <2>10. QED BY <1>1, <2>1, <2>5, <2>6, <2>7, <2>8, <2>9, Kept DEF EntriesInv
<1>9. QED BY <1>1, <1>4, <1>6, <1>7, <1>8 DEF IInv

(* What a round of KiStartupSystem stores. *)
CopyType == STypeOf(At(RangeAt(Index)).lo, Value(At(RangeAt(Index) + 1)))
CopySize == Word(Value(At(RangeAt(Index) + 2)) - Value(At(RangeAt(Index) + 1)))

(* The effect of a round on memory. *)
LEMMA CopyStores ==
    ASSUME IInv, CopyRange, NEW c \in Int, c = RangesAt(NumMemoryRanges, Index)
    PROVE  /\ \A b \in Addresses :
                mem'[b] = IF b = c + 1 THEN Blank ELSE
                          IF b = c + 2 THEN At(RangeAt(Index) + 1) ELSE
                          IF b = c + 3 THEN At(RangeAt(Index) + 2) ELSE
                          IF b = c + 4 THEN CopySize ELSE
                          IF b = c THEN [mem[b] EXCEPT !.lo = CopyType] ELSE mem[b]
           /\ mem' \in [Addresses -> Words]
<1> DEFINE m == StoreLow(mem, c, CopyType)
           w1 == Blank
           w2 == At(RangeAt(Index) + 1)
           w3 == At(RangeAt(Index) + 2)
           w4 == CopySize
<1>1. mem' = Store(m, c + 1, <<w1, w2, w3, w4>>)
  BY DEF CopyRange, CopyType, CopySize
<1>2. c + 1 \in Int /\ c + 1 + 1 = c + 2 /\ c + 1 + 2 = c + 3 /\ c + 1 + 3 = c + 4
  OBVIOUS
<1>3. w2 \in Words /\ w3 \in Words /\ At(RangeAt(Index)) \in Words
  BY AtType DEF IInv, TypeOK
<1>4. w1 \in Words /\ w4 \in Words
  <2>1. Value(w3) - Value(w2) \in Int
    BY <1>3, ValueType
  <2>2. QED BY <2>1, WordType DEF Blank, CopySize
<1>5. CopyType \in 0 .. HalfRange - 1
  <2>1. At(RangeAt(Index)).lo \in 0 .. HalfRange - 1
    BY <1>3 DEF Words
  <2>2. QED BY <2>1, Sizes DEF CopyType, STypeOf, RESERVED_AREA
<1> HIDE DEF m, w1, w2, w3, w4
<1>6. ASSUME NEW b \in Addresses
      PROVE  mem'[b] = IF b = c + 1 THEN w1 ELSE IF b = c + 2 THEN w2 ELSE
                       IF b = c + 3 THEN w3 ELSE IF b = c + 4 THEN w4 ELSE
                       IF b = c THEN [mem[b] EXCEPT !.lo = CopyType] ELSE mem[b]
  <2>1. Store(m, c + 1, <<w1, w2, w3, w4>>)[b] =
            IF b = c + 1 THEN w1 ELSE IF b = c + 1 + 1 THEN w2 ELSE
            IF b = c + 1 + 2 THEN w3 ELSE IF b = c + 1 + 3 THEN w4 ELSE m[b]
    BY <1>2, StoreFour
  <2>2. m[b] = IF b = c THEN [mem[b] EXCEPT !.lo = CopyType] ELSE mem[b]
    BY DEF m, StoreLow
  <2>3. QED BY <1>1, <1>2, <2>1, <2>2
<1>7. mem' \in [Addresses -> Words]
  <2>1. mem' = [b \in Addresses |-> mem'[b]]
    BY <1>1 DEF Store
  <2>2. ASSUME NEW b \in Addresses PROVE mem'[b] \in Words
    <3>1. mem[b] \in Words
      BY DEF IInv, TypeOK
    <3>2. [mem[b] EXCEPT !.lo = CopyType] \in Words
      BY <1>5, <3>1 DEF Words
    <3>3. QED BY <1>3, <1>4, <1>6, <3>1, <3>2
  <2>3. QED BY <2>1, <2>2
<1>8. QED BY <1>6, <1>7 DEF w1, w2, w3, w4

(* One round of KiStartupSystem. *)
LEMMA CopyRangeOK == IInv /\ CopyRange => IInv'
<1> SUFFICES ASSUME IInv, CopyRange PROVE IInv'
  OBVIOUS
<1>1. /\ info' = info /\ place' = place /\ info \in Infos /\ place \in Places
      /\ Index' = Index + 1 /\ Index < NumMemoryRanges /\ pc = "ranges"
      /\ UNCHANGED <<pc, MultibootInfo, MaxIndex, MaxAddress, NumMemoryRanges,
                     Framebuffer, MaximumPAddr, handled, maps>>
  BY DEF IInv, CopyRange
<1>2. PICK I \in Nat, n \in Nat : I = Index /\ n = NumMemoryRanges
  BY DEF IInv, TypeOK
<1>3. PICK c \in Int : c = RangesAt(n, I) /\ c = 4 + 3 * n + 5 * I
  BY DEF RangesAt, RangeAt
<1>4. /\ \A b \in Addresses : b < c => mem'[b] = mem[b]
      /\ mem' \in [Addresses -> Words]
  <2>1. mem' \in [Addresses -> Words]
    BY <1>2, <1>3, CopyStores
  <2>2. ASSUME NEW b \in Addresses, b < c PROVE mem'[b] = mem[b]
    <3>1. b \in Int /\ b \notin {c, c + 1, c + 2, c + 3, c + 4}
      BY <2>2, Sizes
    <3>2. c = RangesAt(NumMemoryRanges, Index)
      BY <1>2, <1>3
    <3>3. mem'[b] = IF b = c + 1 THEN Blank ELSE
                    IF b = c + 2 THEN At(RangeAt(Index) + 1) ELSE
                    IF b = c + 3 THEN At(RangeAt(Index) + 2) ELSE
                    IF b = c + 4 THEN CopySize ELSE
                    IF b = c THEN [mem[b] EXCEPT !.lo = CopyType] ELSE mem[b]
      BY <3>2, CopyStores
    <3>4. QED BY <3>1, <3>3
  <2>3. QED BY <2>1, <2>2
<1>5. TypeOK'
  BY <1>1, <1>2, <1>4 DEF IInv, TypeOK
<1>6. LoopInv'
  BY <1>1, Kept DEF IInv, LoopInv, Done
<1>7. StartInv'
  BY <1>1 DEF IInv, StartInv
<1>8. TableInv'
  <2> SUFFICES ASSUME maps = 1, Below \/ Behind PROVE AfterInv'
    BY <1>1, Kept DEF TableInv
  <2>1. AfterInv /\ n = Len(Entries)
    BY <1>1, <1>2 DEF IInv, TableInv, AfterInv
  <2>2. ASSUME NEW i \in 1 .. n PROVE RangeIs(i - 1, Entries[i])'
    <3>1. RangeIs(i - 1, Entries[i])
      BY <2>1 DEF AfterInv
    <3>2. PICK a \in Int : a = RangeAt(i - 1) /\ a < c /\ a + 1 < c /\ a + 2 < c
      BY <1>3 DEF RangeAt
    <3>3. At(a)' = At(a) /\ At(a + 1)' = At(a + 1) /\ At(a + 2)' = At(a + 2)
      BY <1>4, <3>2 DEF At
    <3>4. QED BY <1>1, <3>1, <3>2, <3>3, Kept DEF RangeIs
  <2>3. ASSUME NEW i \in 1 .. I PROVE CopyIs(i - 1, Entries[i])'
    <3>1. CopyIs(i - 1, Entries[i])
      BY <1>1, <1>2, <2>1 DEF AfterInv
    <3>2. PICK a \in Int : a = RangesAt(n, i - 1) /\ a + 4 < c
      BY <1>3 DEF RangesAt, RangeAt
    <3>3. /\ At(a)' = At(a) /\ At(a + 2)' = At(a + 2)
          /\ At(a + 3)' = At(a + 3) /\ At(a + 4)' = At(a + 4)
      BY <1>4, <3>2 DEF At
    <3>4. QED BY <1>1, <2>1, <3>1, <3>2, <3>3, Kept DEF CopyIs
  <2>4. PICK e \in MapEntries : e = Entries[I + 1] /\ RangeIs(I, e)
    <3>1. I + 1 \in 1 .. n /\ (I + 1) - 1 = I
      BY <1>1, <1>2
    <3>2. Entries[I + 1] \in MapEntries /\ RangeIs(I, Entries[I + 1])
      BY <1>1, <2>1, <3>1, EntriesFacts DEF AfterInv
    <3>3. QED BY <3>2
  <2>5. CopyIs(I, e)'
    <3>1. c + 0 \in Addresses /\ c + 2 \in Addresses /\ c + 3 \in Addresses
          /\ c + 4 \in Addresses /\ c + 0 = c
      <4>1. I < Len(Entries) /\ c = RangesAt(Len(Entries), I)
        BY <1>1, <1>2, <1>3, <2>1
      <4>2. \A f \in 0 .. 4 : c + f \in Addresses
        BY <1>1, <4>1, SecondTable
      <4>3. QED BY <4>2
    <3>2. /\ c \notin {c + 1, c + 2, c + 3, c + 4} /\ c + 2 \notin {c, c + 1, c + 3, c + 4}
          /\ c + 3 \notin {c, c + 1, c + 2, c + 4} /\ c + 4 \notin {c, c + 1, c + 2, c + 3}
      OBVIOUS
    <3>3. /\ mem'[c] = [mem[c] EXCEPT !.lo = CopyType]
          /\ mem'[c + 2] = At(RangeAt(Index) + 1) /\ mem'[c + 3] = At(RangeAt(Index) + 2)
          /\ mem'[c + 4] = CopySize
      <4>1. c = RangesAt(NumMemoryRanges, Index)
        BY <1>2, <1>3
      <4>2. \A b \in Addresses :
                mem'[b] = IF b = c + 1 THEN Blank ELSE
                          IF b = c + 2 THEN At(RangeAt(Index) + 1) ELSE
                          IF b = c + 3 THEN At(RangeAt(Index) + 2) ELSE
                          IF b = c + 4 THEN CopySize ELSE
                          IF b = c THEN [mem[b] EXCEPT !.lo = CopyType] ELSE mem[b]
        BY <4>1, CopyStores
      <4>3. mem'[c] = [mem[c] EXCEPT !.lo = CopyType]
        BY <3>1, <3>2, <4>2
      <4>4. mem'[c + 2] = At(RangeAt(Index) + 1) /\ mem'[c + 3] = At(RangeAt(Index) + 2)
        BY <3>1, <3>2, <4>2
      <4>5. mem'[c + 4] = CopySize
        BY <3>1, <3>2, <4>2
      <4>6. QED BY <4>3, <4>4, <4>5
    <3>4. mem'[c].lo = CopyType
      <4>1. mem[c] \in Words
        BY <3>1 DEF IInv, TypeOK
      <4>2. QED BY <3>3, <4>1 DEF Words
    <3>5. /\ At(RangeAt(Index)).lo = UsageOf(e.type) /\ Value(At(RangeAt(Index) + 1)) = e.addr
          /\ Value(At(RangeAt(Index) + 2)) = e.addr + e.len
      BY <1>2, <2>4 DEF RangeIs
    <3>6. Value(CopySize) = e.len
      <4>1. e.addr \in Nat /\ e.len \in Nat /\ Value(Word(e.len)) = e.len
        BY EntryFacts, StoredValue
      <4>2. (e.addr + e.len) - e.addr = e.len
        BY <4>1
      <4>3. QED BY <3>5, <4>1, <4>2 DEF CopySize
    <3>7. /\ mem'[c].lo = IF e.addr < LowMemory THEN RESERVED_AREA ELSE UsageOf(e.type)
          /\ Value(mem'[c + 2]) = e.addr /\ Value(mem'[c + 3]) = e.addr + e.len
          /\ Value(mem'[c + 4]) = e.len
      BY <3>3, <3>4, <3>5, <3>6 DEF CopyType, STypeOf
    <3>8. /\ At(c)' = mem'[c] /\ At(c + 2)' = mem'[c + 2]
          /\ At(c + 3)' = mem'[c + 3] /\ At(c + 4)' = mem'[c + 4]
      BY <3>1 DEF At
    <3>9. QED BY <1>1, <1>3, <2>1, <3>7, <3>8, Kept DEF CopyIs
  <2>6. Entries' = Entries /\ Index' = I + 1 /\ NumMemoryRanges' = n
    BY <1>1, <1>2, Kept
  <2>7. ASSUME NEW i \in 1 .. I + 1 PROVE CopyIs(i - 1, Entries[i])'
    <3>1. i \in 1 .. I \/ (i = I + 1 /\ i - 1 = I)
      OBVIOUS
    <3>2. CASE i \in 1 .. I
      BY <2>3, <3>2
    <3>3. CASE i = I + 1 /\ i - 1 = I
      BY <2>4, <2>5, <2>6, <3>3 DEF CopyIs
    <3>4. QED BY <3>1, <3>2, <3>3
  <2>8. Highest(n)'
    BY <1>1, <2>1, Kept DEF AfterInv, Highest
  <2>9. QED BY <1>1, <2>1, <2>2, <2>6, <2>7, <2>8 DEF AfterInv
<1>9. QED BY <1>1, <1>5, <1>6, <1>7, <1>8 DEF IInv

-----------------------------------------------------------------------------
(* The theorems. *)

(* Every step keeps the invariant. *)
LEMMA NextIInv == IInv /\ [Next]_vars => IInv'
<1> SUFFICES ASSUME IInv, [Next]_vars PROVE IInv'
  OBVIOUS
<1>1. CASE UNCHANGED vars
  <2>1. /\ info' = info /\ place' = place /\ mem' = mem /\ info \in Infos /\ place \in Places
        /\ UNCHANGED <<pc, MultibootInfo, Index, MaxIndex, MaxAddress, NumMemoryRanges,
                       Framebuffer, MaximumPAddr, handled, maps>>
    BY <1>1 DEF vars, IInv
  <2>2. TypeOK' /\ StartInv'
    BY <2>1 DEF IInv, TypeOK, StartInv
  <2>3. LoopInv'
    <3>1. \A k : /\ Done(k)' <=> Done(k)
                 /\ AtTag(k)' <=> AtTag(k)
                 /\ InMap(k)' <=> InMap(k)
      BY <2>1, Kept DEF Done, AtTag, InMap
    <3>2. QED BY <2>1, <3>1, Kept, KeptMemory DEF IInv, LoopInv
  <2>4. TableInv'
    <3>1. \A k : Highest(k)' <=> Highest(k)
      BY <2>1, Kept DEF Highest
    <3>2. \A i : Unread(i)' <=> Unread(i)
      BY <2>1, Kept, KeptMemory DEF Unread
    <3>3. /\ EntriesInv' <=> EntriesInv
          /\ AfterInv' <=> AfterInv
      BY <2>1, <3>1, <3>2, Kept, KeptMemory DEF EntriesInv, AfterInv
    <3>4. QED BY <2>1, <3>3, Kept DEF IInv, TableInv
  <2>5. QED BY <2>1, <2>2, <2>3, <2>4 DEF IInv
<1>2. CASE Next
  BY <1>1, <1>2, HandleTagOK, BeginHandleMemoryOK, DivideErrorOK, HandleEntryOK,
     EndHandleMemoryOK, EndTagsOK, CopyRangeOK, KiInitializeMemMgrOK
     DEF Next, Step, Rest
<1>3. QED BY <1>1, <1>2

(* The invariant holds always. *)
LEMMA Invariant == Spec => []IInv
BY InitIInv, NextIInv, PTL DEF Spec

(* Every word keeps its halves and no loop of HandleMemory and             *)
(* KiStartupSystem leaves its table, even when HandleMemory runs on what   *)
(* is left of an overwritten tag.                                          *)
THEOREM TypeCorrect == Spec => []TypeOK
<1>1. IInv => TypeOK
  BY DEF IInv
<1>2. QED BY <1>1, Invariant, PTL

(* HandleMemory records every entry of the memory map, wherever the boot   *)
(* loader put its information: below kernel_end or on the table itself.    *)
THEOREM MapIsRecorded == Spec => []RangesRecorded
<1>1. IInv => RangesRecorded
  BY DEF IInv, TableInv, AfterInv, RangesRecorded
<1>2. QED BY <1>1, Invariant, PTL

(* kern_init handles every tag of information apart from the first table,  *)
(* whatever their sizes and their order.                                   *)
THEOREM TagsHandled == Spec => []EveryTagHandled
<1>1. IInv => EveryTagHandled
  BY DEF IInv, LoopInv, Done, EveryTagHandled
<1>2. QED BY <1>1, Invariant, PTL

(* KiInitializeMemMgr gets the machine's ranges from KiStartupSystem, low  *)
(* memory reserved, and finds the address that HandleMemory found.         *)
THEOREM MapIsHandedOver == Spec => []HandedOver
<1>1. IInv => HandedOver
  <2> SUFFICES ASSUME IInv, pc = "started", maps < 2, Below \/ Behind
               PROVE  /\ MaximumPAddr = MaxAddress
                      /\ NumMemoryRanges = Len(Entries)
                      /\ \A i \in 1 .. Len(Entries) : CopyIs(i - 1, Entries[i])
    BY DEF HandedOver
  <2>1. maps = 0 \/ maps = 1
    BY DEF IInv, TypeOK
  <2>2. CASE maps = 1
    BY <2>2 DEF IInv, TableInv, AfterInv
  <2>3. CASE maps = 0
    <3>1. MemMaps = {} /\ MaximumPAddr = 0 /\ MaxAddress = 0 /\ NumMemoryRanges = 0
      BY <2>3 DEF IInv, LoopInv, StartInv
    <3>2. Entries = <<>>
      BY <3>1 DEF Entries
    <3>3. QED BY <3>1, <3>2
  <2>4. QED BY <2>1, <2>2, <2>3
<1>2. QED BY <1>1, Invariant, PTL
=============================================================================
