---------------------------- MODULE Bbt_proofs -----------------------------
(***************************************************************************)
(* Proofs about Bbt for every size of the chip, every device tree whose    *)
(* remap ranges do not overlap, every set of bad blocks and any number of  *)
(* failures, power losses and writes.                                      *)
(*                                                                         *)
(* The first part is about get_mapping_block_index_bbt alone: the place of *)
(* a block among the good (or the bad) blocks of its range is a bijection, *)
(* so the two loops give every logic block a block of its own.  The second *)
(* part is the inductive invariant of the driver.                          *)
(***************************************************************************)
EXTENDS Bbt, Ranks_proofs, TLAPS, FiniteSetTheorems

-----------------------------------------------------------------------------
(* get_mapping_block_index_bbt. *)

\* The good and the bad blocks of a range.
GoodIn(B, start, end) == (start .. end - 1) \ B
PoorIn(B, start, end) == (start .. end - 1) \intersect B

\* The good and the bad blocks make up a range.
LEMMA RangeParts ==
  ASSUME NEW B, NEW start \in Nat, NEW end \in Nat, start <= end
  PROVE  /\ GoodIn(B, start, end) \in SUBSET Int /\ IsFiniteSet(GoodIn(B, start, end))
         /\ PoorIn(B, start, end) \in SUBSET Int /\ IsFiniteSet(PoorIn(B, start, end))
         /\ Cardinality(GoodIn(B, start, end)) \in Nat
         /\ Cardinality(PoorIn(B, start, end)) \in Nat
         /\ Cardinality(GoodIn(B, start, end)) + Cardinality(PoorIn(B, start, end))
              = end - start
<1> DEFINE R == start .. end - 1
<1>1. IsFiniteSet(R) /\ Cardinality(R) = end - start
  <2>1. IsFiniteSet(R) /\ Cardinality(R) = IF start > end - 1 THEN 0 ELSE end - 1 - start + 1
    BY FS_Interval
  <2> QED BY <2>1
<1>2. R \in SUBSET Int
  OBVIOUS
<1> HIDE DEF R
<1>3. /\ IsFiniteSet(R \ B) /\ Cardinality(R \ B) = Cardinality(R) - Cardinality(R \intersect B)
      /\ IsFiniteSet(R \intersect B)
  BY <1>1, FS_Difference, FS_Intersection
<1>4. Cardinality(R \ B) \in Nat /\ Cardinality(R \intersect B) \in Nat
  BY <1>3, FS_CardinalityType
<1>5. GoodIn(B, start, end) = R \ B /\ PoorIn(B, start, end) = R \intersect B
  BY DEF GoodIn, PoorIn, R
<1>6. R \ B \in SUBSET Int /\ R \intersect B \in SUBSET Int
  BY <1>2
<1>7. Cardinality(R \ B) + Cardinality(R \intersect B) = end - start
  BY <1>1, <1>3, <1>4
<1> QED BY <1>3, <1>4, <1>5, <1>6, <1>7

\* What the two loops of get_mapping_block_index_bbt compute: the good block
\* with as many good ones in front of it as the logic block is behind the start
\* of its range, or, when they are used up, the bad block with as many bad ones
\* in front of it as there are logic blocks left over before this one.
LEMMA MappingInFacts ==
  ASSUME NEW B, NEW start \in Nat, NEW end \in Nat,
         NEW lb \in start .. end - 1
  PROVE  LET m == MappingIn(B, lb, start, end)
             g == GoodIn(B, start, end)
             p == PoorIn(B, start, end)
         IN  \/ /\ lb - start < Cardinality(g)
                /\ m \in g /\ Below(g, m) = lb - start
             \/ /\ lb - start >= Cardinality(g)
                /\ m \in p /\ Below(p, m) = lb - start - Cardinality(g)
<1> DEFINE m == MappingIn(B, lb, start, end)
           g == GoodIn(B, start, end)
           p == PoorIn(B, start, end)
           hit == {i \in g : Below(g, i) = lb - start}
           ofs == lb - start - Cardinality(g)
           low == {i \in p : Below(p, i) <= ofs}
<1>1. /\ g \in SUBSET Int /\ IsFiniteSet(g) /\ Cardinality(g) \in Nat
      /\ p \in SUBSET Int /\ IsFiniteSet(p) /\ Cardinality(p) \in Nat
      /\ Cardinality(g) + Cardinality(p) = end - start
  <2>1. start <= end
    OBVIOUS
  <2> QED BY <2>1, RangeParts
<1>2. lb - start \in Nat /\ lb - start < end - start
  OBVIOUS
<1>3. m = IF hit # {} THEN Min(hit) ELSE IF p = {} THEN lb ELSE Max(low)
  BY DEF MappingIn, GoodIn, PoorIn
<1> HIDE DEF m, g, p
<1>4. CASE lb - start < Cardinality(g)
  <2>1. PICK i \in g : Below(g, i) = lb - start
    BY <1>1, <1>2, <1>4, BelowOnto
  <2>2. hit = {i}
    <3>1. ASSUME NEW j \in g, Below(g, j) = lb - start PROVE j = i
      BY <1>1, <2>1, <3>1, BelowInjective
    <3> QED BY <2>1, <3>1
  <2>3. Min(hit) = i
    BY <1>1, <2>2 DEF Min
  <2> QED BY <1>3, <1>4, <2>1, <2>2, <2>3 DEF m, g, p
<1>5. CASE lb - start >= Cardinality(g)
  <2>1. hit = {}
    <3> SUFFICES ASSUME NEW i \in g, Below(g, i) = lb - start PROVE FALSE
      OBVIOUS
    <3>1. Below(g, i) < Cardinality(g)
      BY <1>1, BelowBound
    <3> QED BY <1>1, <1>2, <1>5, <3>1
  <2>2. ofs \in Nat /\ ofs < Cardinality(p)
    BY <1>1, <1>2, <1>5
  <2>3. PICK i \in p : Below(p, i) = ofs
    BY <1>1, <2>2, BelowOnto
  <2>4. \A j \in low : j <= i
    <3> SUFFICES ASSUME NEW j \in p, Below(p, j) <= ofs, i < j PROVE FALSE
      BY <1>1
    <3>1. Below(p, i) < Below(p, j) /\ Below(p, j) \in Nat
      BY <1>1, BelowMonotone, BelowBound
    <3> QED BY <2>2, <2>3, <3>1
  <2>5. i \in low
    BY <2>2, <2>3
  <2>6. Max(low) = i
    <3>1. \A j \in low : j \in Int /\ i >= j
      BY <1>1, <2>4
    <3>2. \A j \in low : (\A c \in low : j >= c) => j = i
      BY <2>5, <3>1
    <3> HIDE DEF low
    <3> QED BY <2>5, <3>1, <3>2 DEF Max
  <2>7. m = i
    BY <1>3, <2>1, <2>3, <2>6
  <2> QED BY <1>5, <2>3, <2>7 DEF m, g, p
<1> QED BY <1>1, <1>2, <1>4, <1>5

\* Within a range every logic block has a block of its own, and all of them
\* are blocks of the range.
LEMMA MappingInOneToOne ==
  ASSUME NEW B, NEW start \in Nat, NEW end \in Nat,
         NEW i \in start .. end - 1, NEW j \in start .. end - 1,
         MappingIn(B, i, start, end) = MappingIn(B, j, start, end)
  PROVE  i = j
<1> DEFINE m == MappingIn(B, i, start, end)
           g == GoodIn(B, start, end)
           p == PoorIn(B, start, end)
<1>1. /\ Cardinality(g) \in Nat
      /\ i - start \in Int /\ j - start \in Int /\ start \in Int /\ i \in Int /\ j \in Int
  <2>1. start <= end
    OBVIOUS
  <2>2. Cardinality(g) \in Nat
    BY <2>1, RangeParts
  <2> QED BY <2>2
<1>2. g \intersect p = {}
  BY DEF GoodIn, PoorIn
<1>3. \/ i - start < Cardinality(g) /\ m \in g /\ Below(g, m) = i - start
      \/ i - start >= Cardinality(g) /\ m \in p /\ Below(p, m) = i - start - Cardinality(g)
  BY MappingInFacts
<1>4. \/ j - start < Cardinality(g) /\ m \in g /\ Below(g, m) = j - start
      \/ j - start >= Cardinality(g) /\ m \in p /\ Below(p, m) = j - start - Cardinality(g)
  BY MappingInFacts
<1> HIDE DEF m, g, p
<1> QED BY <1>1, <1>2, <1>3, <1>4

\* Marking the block of the logic block lb moves none in front of lb.
LEMMA MarkMovesUp ==
  ASSUME NEW B, NEW start \in Nat, NEW end \in Nat,
         NEW lb \in start .. end - 1, NEW k \in start .. end - 1, k < lb
  PROVE  MappingIn(B \union {MappingIn(B, lb, start, end)}, k, start, end)
           = MappingIn(B, k, start, end)
<1> DEFINE m == MappingIn(B, lb, start, end)
           x == MappingIn(B, k, start, end)
           C == B \union {m}
           y == MappingIn(C, k, start, end)
           g == GoodIn(B, start, end)
           h == GoodIn(C, start, end)
<1>1. /\ g \in SUBSET Int /\ IsFiniteSet(g) /\ Cardinality(g) \in Nat
      /\ h \in SUBSET Int /\ IsFiniteSet(h) /\ Cardinality(h) \in Nat
  <2>1. start <= end
    OBVIOUS
  <2> HIDE DEF m
  <2> QED BY <2>1, RangeParts
<1>2. \/ /\ lb - start < Cardinality(g) /\ m \in g /\ Below(g, m) = lb - start
      \/ m \in PoorIn(B, start, end)
  BY MappingInFacts
<1>3. CASE m \in B
  BY <1>3, C = B
<1>4. CASE m \notin B
  <2>1. lb - start < Cardinality(g) /\ m \in g /\ Below(g, m) = lb - start
    BY <1>2, <1>4 DEF PoorIn
  <2>2. x \in g /\ Below(g, x) = k - start
    <3>1. k - start < Cardinality(g)
      BY <1>1, <2>1
    <3> QED BY <1>1, <3>1, MappingInFacts
  <2>3. h = g \ {m}
    BY DEF GoodIn
  <2> HIDE DEF m, x, y, g, h, C
  <2>4. x < m
    <3>1. m < x => Below(g, m) < Below(g, x)
      BY <1>1, <2>1, <2>2, BelowMonotone
    <3> QED BY <1>1, <2>1, <2>2, <3>1
  <2>5. x \in h /\ Below(h, x) = k - start
    <3>1. {c \in h : c < x} = {c \in g : c < x}
      BY <1>1, <2>1, <2>2, <2>3, <2>4
    <3> QED BY <1>1, <2>1, <2>2, <2>3, <2>4, <3>1 DEF Below
  <2>6. k - start < Cardinality(h)
    BY <1>1, <2>5, BelowBound
  <2>7. y \in h /\ Below(h, y) = k - start
    BY <1>1, <2>6, MappingInFacts DEF y, h
  <2>8. x = y
    BY <1>1, <2>5, <2>7, BelowInjective
  <2> QED BY <2>8 DEF x, y, C, m
<1> QED BY <1>3, <1>4

RangeSets == SUBSET ((0 .. NB) \X (0 .. NB))

\* A logic block is in no range and keeps its number, or it is in one range
\* only, which says where it goes.
LEMMA RangeCases ==
  ASSUME NEW ranges \in RangeSets, RangesApart(ranges), NEW lb \in ULBlocks
  PROVE  \/ /\ \A r \in ranges : lb \notin r[1] .. r[2] - 1
            /\ \A B : MappingBy(ranges, B, lb) = lb
         \/ \E r \in ranges :
              /\ r[1] \in Nat /\ r[2] \in Nat /\ r[2] <= NB - 4
              /\ lb \in r[1] .. r[2] - 1
              /\ RangeIn(ranges, lb) = {r}
              /\ \A B : MappingBy(ranges, B, lb) = MappingIn(B, lb, r[1], r[2])
<1>1. lb \in Nat /\ NB \in Nat
  BY BbtAssumption DEF ULBlocks
<1>2. CASE ranges = {}
  <2>1. \A B : MappingBy(ranges, B, lb) = MappingIn(B, lb, 0, 0)
    BY <1>2 DEF MappingBy, RangeIn, Shifted
  <2>2. ASSUME NEW B PROVE MappingIn(B, lb, 0, 0) = lb
    <3>1. 0 .. 0 - 1 = {}
      OBVIOUS
    <3>2. {i \in {} : Below({}, i) = lb - 0} = {} /\ {} \ B = {} /\ {} \intersect B = {}
      OBVIOUS
    <3> QED BY <3>1, <3>2 DEF MappingIn
  <2> QED BY <1>2, <2>1, <2>2
<1>3. CASE ranges # {} /\ \A r \in ranges : ~(r[1] <= lb /\ lb < r[2])
  <2>1. RangeIn(ranges, lb) = {}
    BY <1>3 DEF RangeIn
  <2>2. \A B : MappingBy(ranges, B, lb) = lb
    BY <2>1 DEF MappingBy
  <2>3. \A r \in ranges : r[1] \in Nat /\ r[2] \in Nat
    BY <1>1 DEF RangeSets
  <2>4. \A r \in ranges : lb \notin r[1] .. r[2] - 1
    BY <1>1, <1>3, <2>3
  <2> QED BY <2>2, <2>4
<1>4. ASSUME NEW r \in ranges, r[1] <= lb, lb < r[2]
      PROVE  /\ r[1] \in Nat /\ r[2] \in Nat /\ r[2] <= NB - 4
             /\ lb \in r[1] .. r[2] - 1
             /\ RangeIn(ranges, lb) = {r}
             /\ \A B : MappingBy(ranges, B, lb) = MappingIn(B, lb, r[1], r[2])
  <2>1. \A q \in ranges : q[1] \in Nat /\ q[2] \in Nat
    BY <1>1 DEF RangeSets
  <2>2. lb \in r[1] .. r[2] - 1 /\ r[2] <= NB - 4
    BY <1>1, <1>4, <2>1 DEF RangesApart
  <2>3. ASSUME NEW q \in ranges, q[1] <= lb, lb < q[2] PROVE q = r
    <3>1. lb \in q[1] .. q[2] - 1
      BY <1>1, <2>1, <2>3
    <3> QED BY <2>2, <3>1 DEF RangesApart
  <2>4. RangeIn(ranges, lb) = {r}
    BY <1>4, <2>3 DEF RangeIn
  <2>5. (CHOOSE q \in RangeIn(ranges, lb) : TRUE) = r /\ ranges # {}
    BY <2>4
  <2>6. \A B : MappingBy(ranges, B, lb) = MappingIn(B, lb, r[1], r[2])
    BY <2>4, <2>5 DEF MappingBy, Shifted
  <2> QED BY <2>1, <2>2, <2>4, <2>6
<1> QED BY <1>2, <1>3, <1>4

\* Logic blocks go to blocks below the table, whatever is bad.
LEMMA MappingStays ==
  ASSUME NEW ranges \in RangeSets, RangesApart(ranges), NEW lb \in ULBlocks, NEW B
  PROVE  /\ MappingBy(ranges, B, lb) \in ULBlocks
         /\ \A r \in ranges :
              lb \in r[1] .. r[2] - 1 <=> MappingBy(ranges, B, lb) \in r[1] .. r[2] - 1
<1> DEFINE m == MappingBy(ranges, B, lb)
<1>1. CASE /\ \A r \in ranges : lb \notin r[1] .. r[2] - 1
           /\ m = lb
  BY <1>1
<1>2. ASSUME NEW r \in ranges,
             r[1] \in Nat, r[2] \in Nat, r[2] <= NB - 4,
             lb \in r[1] .. r[2] - 1,
             m = MappingIn(B, lb, r[1], r[2])
      PROVE  /\ m \in ULBlocks
             /\ \A q \in ranges : lb \in q[1] .. q[2] - 1 <=> m \in q[1] .. q[2] - 1
  <2>1. m \in r[1] .. r[2] - 1
    <3>1. m \in GoodIn(B, r[1], r[2]) \/ m \in PoorIn(B, r[1], r[2])
      BY <1>2, MappingInFacts
    <3> HIDE DEF m
    <3> QED BY <3>1 DEF GoodIn, PoorIn
  <2>2. m \in ULBlocks
    BY <1>2, <2>1, BbtAssumption DEF ULBlocks
  <2>3. \A q \in ranges : q # r => (r[1] .. r[2] - 1) \intersect (q[1] .. q[2] - 1) = {}
    BY DEF RangesApart
  <2> HIDE DEF m
  <2> QED BY <1>2, <2>1, <2>2, <2>3
<1> HIDE DEF m
<1>3. \/ /\ \A r \in ranges : lb \notin r[1] .. r[2] - 1
         /\ m = lb
      \/ \E r \in ranges :
           /\ r[1] \in Nat /\ r[2] \in Nat /\ r[2] <= NB - 4
           /\ lb \in r[1] .. r[2] - 1
           /\ m = MappingIn(B, lb, r[1], r[2])
  BY RangeCases DEF m
<1> QED BY <1>1, <1>2, <1>3 DEF m

\* Whatever blocks are bad, two logic blocks never share a block.
THEOREM MappingOneToOne ==
  ASSUME NEW ranges \in RangeSets, RangesApart(ranges), NEW B,
         NEW i \in ULBlocks, NEW j \in ULBlocks,
         MappingBy(ranges, B, i) = MappingBy(ranges, B, j)
  PROVE  i = j
<1> DEFINE m == MappingBy(ranges, B, i)
<1>1. \A r \in ranges : i \in r[1] .. r[2] - 1 <=> j \in r[1] .. r[2] - 1
  <2>1. \A r \in ranges : i \in r[1] .. r[2] - 1 <=> m \in r[1] .. r[2] - 1
    BY MappingStays
  <2>2. \A r \in ranges : j \in r[1] .. r[2] - 1 <=> m \in r[1] .. r[2] - 1
    BY MappingStays
  <2> HIDE DEF m
  <2> QED BY <2>1, <2>2
<1>2. CASE \A r \in ranges : i \notin r[1] .. r[2] - 1
  <2>1. m = i
    BY <1>2, RangeCases
  <2>2. m = j
    BY <1>1, <1>2, RangeCases
  <2> QED BY <2>1, <2>2
<1>3. ASSUME NEW r \in ranges, i \in r[1] .. r[2] - 1 PROVE i = j
  <2>1. /\ r[1] \in Nat /\ r[2] \in Nat
        /\ m = MappingIn(B, i, r[1], r[2])
    BY <1>3, RangeCases DEF RangesApart
  <2>2. j \in r[1] .. r[2] - 1
    BY <1>1, <1>3
  <2>3. m = MappingIn(B, j, r[1], r[2])
    BY <2>2, RangeCases DEF RangesApart
  <2> QED BY <1>3, <2>1, <2>2, <2>3, MappingInOneToOne
<1> QED BY <1>2, <1>3

\* A logic block of a range has a bad block only if the logic blocks in front
\* of it use up the good ones.
LEMMA BadOnlyWhenUsedUp ==
  ASSUME NEW ranges \in RangeSets, RangesApart(ranges), NEW B, NEW lb \in ULBlocks,
         MappingBy(ranges, B, lb) \in B, ranges # {}, NEW r \in RangeIn(ranges, lb)
  PROVE  Cardinality((r[1] .. r[2] - 1) \ B) <= lb - r[1]
<1>1. r \in ranges /\ r[1] <= lb /\ lb < r[2]
  BY DEF RangeIn
<1>2. r[1] \in Nat /\ r[2] \in Nat /\ lb \in Nat
  BY <1>1, BbtAssumption DEF RangeSets, ULBlocks
<1>3. lb \in r[1] .. r[2] - 1
  BY <1>1, <1>2
<1>4. MappingBy(ranges, B, lb) = MappingIn(B, lb, r[1], r[2])
  BY <1>1, <1>3, RangeCases DEF RangesApart
<1>5. MappingIn(B, lb, r[1], r[2]) \notin GoodIn(B, r[1], r[2])
  BY <1>4 DEF GoodIn
<1>6. lb - r[1] >= Cardinality(GoodIn(B, r[1], r[2]))
  <2> DEFINE m == MappingIn(B, lb, r[1], r[2])
             g == GoodIn(B, r[1], r[2])
  <2>1. \/ lb - r[1] < Cardinality(g) /\ m \in g
        \/ lb - r[1] >= Cardinality(g)
    BY <1>2, <1>3, MappingInFacts
  <2> QED BY <1>5, <2>1
<1>7. Cardinality(GoodIn(B, r[1], r[2])) \in Nat
  <2>1. r[1] <= r[2]
    BY <1>1, <1>2
  <2> QED BY <1>2, <2>1, RangeParts
<1> QED BY <1>2, <1>6, <1>7 DEF GoodIn

\* Marking the block of lb moves no logic block in front of lb and none of
\* another range.
LEMMA MarkMovesBehind ==
  ASSUME NEW ranges \in RangeSets, RangesApart(ranges), NEW B \in SUBSET Blocks,
         NEW lb \in ULBlocks, NEW k \in ULBlocks, RangeIn(ranges, lb) # {},
         MappingBy(ranges, B \union {MappingBy(ranges, B, lb)}, k) # MappingBy(ranges, B, k)
  PROVE  k >= lb /\ RangeIn(ranges, k) = RangeIn(ranges, lb)
<1> DEFINE m == MappingBy(ranges, B, lb)
           C == B \union {m}
<1>1. PICK r \in ranges :
        /\ r[1] \in Nat /\ r[2] \in Nat /\ r[2] <= NB - 4
        /\ k \in r[1] .. r[2] - 1
        /\ RangeIn(ranges, k) = {r}
        /\ \A D : MappingBy(ranges, D, k) = MappingIn(D, k, r[1], r[2])
  BY RangeCases
<1>2. MappingIn(C, k, r[1], r[2]) # MappingIn(B, k, r[1], r[2])
  BY <1>1
<1>3. lb \in r[1] .. r[2] - 1
  <2> SUFFICES ASSUME lb \notin r[1] .. r[2] - 1 PROVE FALSE
    OBVIOUS
  <2>1. m \notin r[1] .. r[2] - 1
    BY MappingStays
  <2> HIDE DEF m
  <2>2. /\ (r[1] .. r[2] - 1) \ C = (r[1] .. r[2] - 1) \ B
        /\ (r[1] .. r[2] - 1) \intersect C = (r[1] .. r[2] - 1) \intersect B
    BY <2>1
  <2> HIDE DEF C
  <2>3. MappingIn(C, k, r[1], r[2]) = MappingIn(B, k, r[1], r[2])
    BY <2>2 DEF MappingIn
  <2> QED BY <1>2, <2>3
<1>4. RangeIn(ranges, lb) = {r} /\ m = MappingIn(B, lb, r[1], r[2])
  BY <1>3, RangeCases DEF RangesApart
<1>5. ~(k < lb)
  BY <1>1, <1>2, <1>3, <1>4, MarkMovesUp
<1>6. k \in Nat /\ lb \in Nat
  BY BbtAssumption DEF ULBlocks
<1> QED BY <1>1, <1>4, <1>5, <1>6

-----------------------------------------------------------------------------
(* The invariant of the driver: where the table is, and where the data is. *)

\* The blocks an operation works on are blocks of the data area.
PlacesApart == pc.lb \in ULBlocks /\ pc.old \in ULBlocks /\ pc.new \in ULBlocks

\* No block of the data area looks like a table, and none above the one in use.
TableInUse ==
  /\ \A b \in ULBlocks : flash[b].kind # "table"
  /\ Attached => /\ tbl \in NB - 4 .. NB - 1
                 /\ \A b \in tbl + 1 .. NB - 1 : flash[b].kind # "table"

\* Once it is written, the table on the flash is the one in memory.
TableCurrent == pc.at \in {"idle", "new_erase", "copy"} => flash[tbl] = Table(bad)

TableInv == TypeOK /\ PlacesApart /\ TableInUse /\ TableCurrent

\* The data of lb where the blocks of B are bad.
Held(B, lb) == flash[Mapping(B, lb)] = Data(lb, want[lb])

\* The logic blocks whose data is there to be kept.
Kept == {lb \in ULBlocks \ moved : want[lb] # 0}

Updating == pc.at \in {"tbl_erase", "tbl_write"}
Moving   == pc.at \in {"new_erase", "copy"}

\* All of them are in place but the one an operation works on, whose data is
\* in the old block as long as it has to be copied.
DataHeld ==
  /\ Attached => \A lb \in Kept : pc.at = "idle" \/ lb # pc.lb => Held(bad, lb)
  /\ Updating /\ pc.lb \in Kept =>
       IF HasNew THEN /\ flash[pc.old] = Data(pc.lb, want[pc.lb])
                      /\ pc.old # Mapping(bad, pc.lb)
       ELSE Held(bad, pc.lb)
  /\ Moving => pc.new = Mapping(bad, pc.lb)
  /\ Moving /\ pc.lb \in Kept => /\ flash[pc.old] = Data(pc.lb, want[pc.lb])
                                 /\ pc.old # pc.new
  /\ (Updating \/ Moving) /\ pc.op = "erase" => want[pc.lb] = 0

\* What the next attach will load agrees with the data: there is one table,
\* and while it is rewritten it maps the data that stays as the new one does.
DiskHeld ==
  /\ "rewrite" \notin env.files =>
       /\ \A a, b \in Candidates : a = b
       /\ Attached => Candidates \subseteq {tbl}
  /\ ~Attached => \A b \in Candidates : \A lb \in Kept : Held(flash[b].bad, lb)
  /\ Updating /\ tbl \in Candidates /\ "rewrite" \notin env.files =>
       \A lb \in Kept \ {pc.lb} : Mapping(flash[tbl].bad, lb) = Mapping(bad, lb)

DataInv == TableInv /\ DataHeld /\ DiskHeld

\* The constants in a form the provers use.
LEMMA Sizes == /\ NB \in Nat /\ NB > 5
               /\ ULBlocks \subseteq Blocks /\ 0 \in ULBlocks
               /\ \A b \in Blocks : b \in Int /\ (b \in ULBlocks <=> b <= NB - 5)
BY BbtAssumption DEF ULBlocks, Blocks

\* Only tables have the kind of a table.
LEMMA Kinds ==
  /\ Erased \in Contents /\ Junk \in Contents
  /\ Erased.kind # "table" /\ Junk.kind # "table"
  /\ \A lb \in Blocks, v \in Nat : Data(lb, v) \in Contents /\ Data(lb, v).kind # "table"
  /\ \A B \in SUBSET Blocks : /\ Table(B) \in Contents
                              /\ Table(B).kind = "table" /\ Table(B).bad = B
  /\ \A c \in Contents : c.kind = "table" => c.bad \in SUBSET Blocks
BY DEF Erased, Junk, Data, Table, Contents

\* The ranges in use are those of a setting.
LEMMA RangesInUse ==
  ASSUME TypeOK
  PROVE  env.ranges \in RangeSets /\ RangesApart(env.ranges)
<1>1. env.ranges \in RangeSets
  BY DEF TypeOK, SettingRecords, RangeSets
<1>2. PICK s \in Settings : env.ranges = s.ranges
  BY DEF TypeOK
<1> QED BY <1>1, <1>2, BbtAssumption

\* No step changes the ranges or the files of the setting.
LEMMA EnvStep ==
  ASSUME TypeOK, [Next]_vars
  PROVE  /\ env'.ranges = env.ranges /\ env'.files = env.files
         /\ env' \in SettingRecords
         /\ \E s \in Settings :
              /\ env'.ranges = s.ranges /\ env'.fail = s.fail /\ env'.files = s.files
              /\ env'.faults <= s.faults /\ env'.crashes <= s.crashes
              /\ env'.writes <= s.writes
<1>1. \/ env' = env
      \/ env' = [env EXCEPT !.faults = @ - 1] /\ env.faults > 0
      \/ env' = [env EXCEPT !.crashes = @ - 1] /\ env.crashes > 0
      \/ env' = [env EXCEPT !.writes = @ - 1] /\ env.writes > 0
  BY DEF Next, vars, Driver, User, AttachLoad, AttachFails, TableErase, TableWrite,
         NewErase, Copy, UserWrite, Remap, AccessFails, Unmap, Rewrite, Crash,
         OneFault, MayFail
<1>2. env \in SettingRecords
  BY DEF TypeOK
<1>3. /\ env' \in SettingRecords
      /\ env'.ranges = env.ranges /\ env'.files = env.files /\ env'.fail = env.fail
      /\ env'.faults <= env.faults /\ env'.crashes <= env.crashes
      /\ env'.writes <= env.writes
  BY <1>1, <1>2 DEF SettingRecords
<1>4. PICK s \in Settings :
        /\ env.ranges = s.ranges /\ env.fail = s.fail /\ env.files = s.files
        /\ env.faults <= s.faults /\ env.crashes <= s.crashes
        /\ env.writes <= s.writes
  BY DEF TypeOK
<1>5. /\ s.faults \in Nat /\ s.crashes \in Nat /\ s.writes \in Nat
      /\ env.faults \in Nat /\ env.crashes \in Nat /\ env.writes \in Nat
      /\ env'.faults \in Nat /\ env'.crashes \in Nat /\ env'.writes \in Nat
  BY <1>2, <1>3, BbtAssumption DEF SettingRecords
<1>6. /\ env'.ranges = s.ranges /\ env'.fail = s.fail /\ env'.files = s.files
      /\ env'.faults <= s.faults /\ env'.crashes <= s.crashes
      /\ env'.writes <= s.writes
  BY <1>3, <1>4, <1>5
<1> QED BY <1>3, <1>6

\* Attaching finds the highest table.
LEMMA HighestTable ==
  ASSUME TableInv, Candidates # {}
  PROVE  /\ Max(Candidates) \in Candidates
         /\ Max(Candidates) \in NB - 4 .. NB - 1
         /\ \A b \in Candidates : b <= Max(Candidates)
         /\ \A b \in Max(Candidates) + 1 .. NB - 1 : flash[b].kind # "table"
<1>1. NB \in Nat /\ NB > 5
  BY Sizes
<1>2. NB - 5 \notin Candidates
  BY <1>1 DEF TableInv, TableInUse, ULBlocks, Candidates
<1>3. Candidates \subseteq {NB - 4, NB - 3, NB - 2, NB - 1}
  <2>1. Candidates \subseteq NB - 5 .. NB - 1
    BY DEF Candidates
  <2> QED BY <1>1, <1>2, <2>1
<1>4. \E m \in Candidates : \A b \in Candidates : m >= b
  <2>1. CASE NB - 1 \in Candidates
    BY <1>1, <1>3, <2>1
  <2>2. CASE NB - 1 \notin Candidates /\ NB - 2 \in Candidates
    BY <1>1, <1>3, <2>2
  <2>3. CASE NB - 1 \notin Candidates /\ NB - 2 \notin Candidates /\ NB - 3 \in Candidates
    BY <1>1, <1>3, <2>3
  <2>4. CASE /\ NB - 1 \notin Candidates /\ NB - 2 \notin Candidates
             /\ NB - 3 \notin Candidates
    <3>1. NB - 4 \in Candidates
      BY <1>3, <2>4
    <3> QED BY <1>1, <1>3, <2>4, <3>1
  <2> QED BY <2>1, <2>2, <2>3, <2>4
<1>5. Max(Candidates) \in Candidates /\ \A b \in Candidates : Max(Candidates) >= b
  BY <1>4 DEF Max
<1> DEFINE m == Max(Candidates)
<1> HIDE DEF m
<1>6. m \in NB - 4 .. NB - 1 /\ \A b \in Candidates : b \in Int
  <2>1. \A b \in {NB - 4, NB - 3, NB - 2, NB - 1} : b \in NB - 4 .. NB - 1
    BY <1>1
  <2>2. m \in Candidates
    BY <1>5 DEF m
  <2> QED BY <1>1, <1>3, <2>1, <2>2
<1>7. \A b \in m + 1 .. NB - 1 : flash[b].kind # "table"
  <2> SUFFICES ASSUME NEW b \in m + 1 .. NB - 1, flash[b].kind = "table" PROVE FALSE
    OBVIOUS
  <2>1. b \in Candidates
    BY <1>1, <1>6 DEF Candidates
  <2> QED BY <1>1, <1>5, <1>6, <2>1 DEF m
<1> QED BY <1>5, <1>6, <1>7 DEF m

-----------------------------------------------------------------------------
(* The table. *)

\* What the boot loader leaves has one table, in the last four blocks.
LEMMA TableInit == Init => TableInv
<1> SUFFICES ASSUME Init PROVE TableInv
  OBVIOUS
<1>0. PICK s \in Settings : \E m \in s.bad, b \in NB - 4 .. NB - 1 :
        /\ env = [s EXCEPT !.bad = {}]
        /\ flash = [[x \in Blocks |-> Erased] EXCEPT ![b] = Table(m)]
  BY DEF Init
<1>1. PICK m \in s.bad, b \in NB - 4 .. NB - 1 :
        /\ env = [s EXCEPT !.bad = {}]
        /\ flash = [[x \in Blocks |-> Erased] EXCEPT ![b] = Table(m)]
  BY <1>0
<1>2. s \in SettingRecords
  BY BbtAssumption
<1>3. m \in SUBSET Blocks
  BY <1>1, <1>2 DEF SettingRecords, Blocks
<1>4. /\ flash \in [Blocks -> Contents]
      /\ \A x \in ULBlocks : flash[x].kind # "table"
  <2>1. \A x \in ULBlocks : x \in Blocks /\ x # b
    BY <1>1, Sizes DEF ULBlocks
  <2>2. b \in Blocks
    BY <1>1, Sizes DEF Blocks
  <2> QED BY <1>1, <1>3, <2>1, <2>2, Kinds
<1>5. /\ env \in SettingRecords
      /\ env.ranges = s.ranges /\ env.fail = s.fail /\ env.files = s.files
      /\ env.faults <= s.faults /\ env.crashes <= s.crashes /\ env.writes <= s.writes
  BY <1>1, <1>2 DEF SettingRecords
<1>6. pc \in Places /\ PlacesApart /\ ~Attached /\ pc.at = "off"
  BY Sizes DEF Init, Rest, Places, PlacesApart, Attached
<1>7. bad = {} /\ tbl \in Blocks /\ want \in [ULBlocks -> Nat] /\ moved = {}
  BY Sizes DEF Init
<1>8. TypeOK
  BY <1>4, <1>5, <1>6, <1>7 DEF TypeOK
<1> QED BY <1>4, <1>6, <1>8 DEF TableInv, TableInUse, TableCurrent

\* A step that starts an operation leaves the flash and the table alone.
LEMMA TableStart ==
  ASSUME TableInv, [Next]_vars, pc.at = "idle",
         pc'.at = "tbl_erase", pc' \in Places, PlacesApart',
         tbl' = tbl, flash' = flash, bad' \in SUBSET Blocks,
         want' \in [ULBlocks -> Nat], moved' \in SUBSET ULBlocks
  PROVE  TableInv'
<1>1. TypeOK'
  <2>1. TypeOK
    BY DEF TableInv
  <2>2. tbl' \in Blocks /\ flash' \in [Blocks -> Contents]
    BY <2>1 DEF TypeOK
  <2> QED BY <2>1, <2>2, EnvStep DEF TypeOK
<1>2. TableInUse' /\ TableCurrent'
  BY DEF TableInv, TableInUse, TableCurrent, Attached
<1> QED BY <1>1, <1>2 DEF TableInv

\* remap_block_bbt starts with a block of the data area.
LEMMA RemapTable ==
  ASSUME TableInv, [Next]_vars, NEW lb \in ULBlocks, NEW op \in {"remap", "erase"},
         Remap(lb, op)
  PROVE  TableInv'
<1> DEFINE old == Mapping(bad, lb)
<1>1. TypeOK
  BY DEF TableInv
<1>2. old \in ULBlocks /\ old \in Blocks
  BY <1>1, RangesInUse, MappingStays, Sizes DEF Mapping
<1>3. pc' = [Rest("tbl_erase") EXCEPT !.op = op, !.lb = lb, !.old = old]
  BY DEF Remap
<1>4. /\ bad' = bad \union {old}
      /\ want' = IF op = "erase" THEN [want EXCEPT ![lb] = 0] ELSE want
      /\ pc.at = "idle" /\ tbl' = tbl /\ flash' = flash
  BY DEF Remap
<1>5. moved' \in SUBSET ULBlocks
  <2>1. Moves(bad, bad') \in SUBSET ULBlocks
    BY DEF Moves
  <2>2. moved' \subseteq moved \union Moves(bad, bad') \union {lb}
    BY DEF Remap
  <2> QED BY <1>1, <2>1, <2>2 DEF TypeOK
<1> HIDE DEF old
<1>6. pc'.at = "tbl_erase" /\ pc' \in Places /\ PlacesApart'
  BY <1>2, <1>3, Sizes DEF Places, PlacesApart, Rest
<1>7. bad' \in SUBSET Blocks /\ want' \in [ULBlocks -> Nat]
  BY <1>1, <1>2, <1>4 DEF TypeOK
<1> QED BY <1>4, <1>5, <1>6, <1>7, TableStart

\* unmap_block_bbt does, too, although it unmarks any block.
LEMMA UnmapTable ==
  ASSUME TableInv, [Next]_vars, NEW b \in ULBlocks, NEW op \in {"mark_good", "repair"},
         Unmap(b, op)
  PROVE  TableInv'
<1> DEFINE old == Mapping(bad, b)
<1>1. TypeOK
  BY DEF TableInv
<1>2. old \in ULBlocks /\ old \in Blocks
  BY <1>1, RangesInUse, MappingStays, Sizes DEF Mapping
<1>3. pc' = [Rest("tbl_erase") EXCEPT !.op = op, !.lb = b, !.old = old]
  BY DEF Unmap
<1>4. bad' = bad \ {b} /\ want' = want /\ pc.at = "idle" /\ tbl' = tbl /\ flash' = flash
  BY DEF Unmap
<1>5. moved' \in SUBSET ULBlocks
  <2>1. Moves(bad, bad') \in SUBSET ULBlocks
    BY DEF Moves
  <2>2. moved' \subseteq moved \union Moves(bad, bad')
    BY DEF Unmap
  <2> QED BY <1>1, <2>1, <2>2 DEF TypeOK
<1> HIDE DEF old
<1>6. pc'.at = "tbl_erase" /\ pc' \in Places /\ PlacesApart'
  BY <1>2, <1>3, Sizes DEF Places, PlacesApart, Rest
<1>7. bad' \in SUBSET Blocks /\ want' \in [ULBlocks -> Nat]
  BY <1>1, <1>4 DEF TypeOK
<1> QED BY <1>4, <1>5, <1>6, <1>7, TableStart

\* A step that changes one block of the data area, to no table.
LEMMA DataBlockStep ==
  ASSUME TableInv, [Next]_vars, Attached,
         NEW b \in ULBlocks, NEW c \in Contents, c.kind # "table",
         flash' = [flash EXCEPT ![b] = c],
         bad' = bad, tbl' = tbl, pc' \in Places, PlacesApart',
         pc.at \in {"idle", "new_erase", "copy"},
         want' \in [ULBlocks -> Nat], moved' \in SUBSET ULBlocks
  PROVE  TableInv'
<1>1. TypeOK /\ TableInUse /\ TableCurrent
  BY DEF TableInv
<1>2. /\ flash \in [Blocks -> Contents] /\ b \in Blocks /\ tbl \in Blocks
      /\ tbl \in NB - 4 .. NB - 1
      /\ flash[tbl] = Table(bad)
  BY <1>1, Sizes DEF TypeOK, TableInUse, TableCurrent
<1>3. b # tbl /\ b < tbl
  BY <1>2, Sizes
<1>4. flash' \in [Blocks -> Contents]
  BY <1>2
<1>5. TypeOK'
  BY <1>1, <1>4, EnvStep DEF TypeOK
<1>6. flash'[tbl] = Table(bad)
  BY <1>2, <1>3
<1>7. \A x \in ULBlocks : flash'[x].kind # "table"
  BY <1>1, <1>2, Sizes DEF TableInUse
<1>8. \A x \in tbl + 1 .. NB - 1 : flash'[x].kind # "table"
  <2>1. \A x \in tbl + 1 .. NB - 1 : x # b /\ x \in Blocks
    BY <1>2, <1>3, Sizes DEF Blocks
  <2> QED BY <1>1, <1>2, <2>1 DEF TableInUse
<1> QED BY <1>2, <1>5, <1>6, <1>7, <1>8 DEF TableInv, TableInUse, TableCurrent

\* mtk_bmt_read_bbt loads the highest table, or the driver gives up.
LEMMA AttachTable ==
  ASSUME TableInv, [Next]_vars, AttachLoad \/ AttachFails
  PROVE  TableInv'
<1>1. TypeOK /\ TableInUse
  BY DEF TableInv
<1>2. CASE AttachLoad
  <2> DEFINE m == Max(Candidates)
  <2>1. /\ m \in Candidates /\ m \in NB - 4 .. NB - 1
        /\ \A b \in m + 1 .. NB - 1 : flash[b].kind # "table"
    BY <1>2, HighestTable DEF AttachLoad
  <2>2. /\ tbl' = m /\ bad' = flash[m].bad /\ pc' = Rest("idle")
        /\ UNCHANGED <<flash, want, moved, env>>
    BY <1>2 DEF AttachLoad
  <2> HIDE DEF m
  <2>3. m \in Blocks /\ flash[m] \in Contents /\ flash[m].kind = "table"
    BY <1>1, <2>1, Sizes DEF TypeOK, Candidates, Blocks
  <2>4. bad' \in SUBSET Blocks /\ flash'[tbl'] = Table(bad')
    <3>1. flash[m].bad \in SUBSET Blocks
      BY <2>3, Kinds
    <3>2. flash[m] = Table(flash[m].bad)
      BY <2>3 DEF Contents, Table, Erased, Junk
    <3> QED BY <2>2, <3>1, <3>2
  <2>5. pc' \in Places /\ PlacesApart'
    BY <2>2, Sizes DEF Places, PlacesApart, Rest
  <2>6. TypeOK'
    BY <1>1, <2>2, <2>3, <2>4, <2>5, EnvStep DEF TypeOK
  <2>7. TableInUse'
    BY <1>1, <2>1, <2>2 DEF TableInUse
  <2> QED BY <2>4, <2>5, <2>6, <2>7 DEF TableInv, TableCurrent
<1>3. CASE AttachFails
  <2>1. pc' = Rest("dead") /\ UNCHANGED <<bad, tbl, flash, want, moved, env>>
    BY <1>3 DEF AttachFails
  <2>2. pc' \in Places /\ PlacesApart' /\ ~Attached' /\ pc'.at = "dead"
    BY <2>1, Sizes DEF Places, PlacesApart, Rest, Attached
  <2>3. TypeOK'
    BY <1>1, <2>1, <2>2 DEF TypeOK
  <2>4. TableInUse'
    BY <1>1, <2>1, <2>2 DEF TableInUse
  <2> QED BY <2>2, <2>3, <2>4 DEF TableInv, TableCurrent
<1> QED BY <1>2, <1>3

\* bbt_set_block_state writes the table where it was, or a rewrite in the last
\* block.
LEMMA WriteTable ==
  ASSUME TableInv, [Next]_vars, TableErase \/ TableWrite \/ Rewrite
  PROVE  TableInv'
<1>1. TypeOK /\ TableInUse /\ PlacesApart
  BY DEF TableInv
<1>2. /\ flash \in [Blocks -> Contents] /\ tbl \in Blocks /\ bad \in SUBSET Blocks
      /\ pc \in Places
  BY <1>1 DEF TypeOK
<1>3. ASSUME NEW c \in Contents, flash' = [flash EXCEPT ![tbl] = c], tbl' = tbl,
             Attached
      PROVE  /\ flash' \in [Blocks -> Contents] /\ flash'[tbl] = c
             /\ TableInUse'
  <2>1. tbl \in NB - 4 .. NB - 1
    BY <1>1, <1>3 DEF TableInUse
  <2>2. \A x \in ULBlocks : x \in Blocks /\ x # tbl
    BY <2>1, Sizes DEF ULBlocks
  <2>3. \A x \in tbl + 1 .. NB - 1 : x \in Blocks /\ x # tbl
    BY <2>1, Sizes DEF Blocks
  <2> QED BY <1>1, <1>2, <1>3, <2>1, <2>2, <2>3 DEF TableInUse
<1>4. CASE TableErase
  <2>1. /\ pc.at = "tbl_erase" /\ flash' = [flash EXCEPT ![tbl] = Erased]
        /\ pc' = [pc EXCEPT !.at = "tbl_write"]
        /\ UNCHANGED <<bad, tbl, want, moved, env>>
    BY <1>4 DEF TableErase
  <2>2. pc' \in Places /\ PlacesApart' /\ pc'.at = "tbl_write" /\ Attached
    BY <1>1, <1>2, <2>1 DEF Places, PlacesApart, Attached
  <2>3. flash' \in [Blocks -> Contents] /\ TableInUse'
    BY <1>3, <2>1, <2>2, Kinds
  <2>4. TypeOK'
    BY <1>1, <2>1, <2>2, <2>3, EnvStep DEF TypeOK
  <2> QED BY <2>2, <2>3, <2>4 DEF TableInv, TableCurrent
<1>5. CASE TableWrite
  <2>1. /\ pc.at = "tbl_write" /\ flash' = [flash EXCEPT ![tbl] = Table(bad)]
        /\ pc' = IF HasNew THEN [pc EXCEPT !.at = "new_erase", !.new = Mapping(bad, pc.lb)]
                  ELSE Rest("idle")
        /\ UNCHANGED <<bad, tbl, want, moved, env>>
    BY <1>5 DEF TableWrite
  <2>2. Mapping(bad, pc.lb) \in ULBlocks
    BY <1>1, RangesInUse, MappingStays DEF Mapping, PlacesApart
  <2>3. pc' \in Places /\ PlacesApart' /\ Attached
    BY <1>1, <1>2, <2>1, <2>2, Sizes DEF Places, PlacesApart, Rest, Attached
  <2>4. flash' \in [Blocks -> Contents] /\ TableInUse' /\ flash'[tbl] = Table(bad)
    BY <1>2, <1>3, <2>1, <2>3, Kinds
  <2>5. TypeOK'
    BY <1>1, <2>1, <2>3, <2>4, EnvStep DEF TypeOK
  <2> QED BY <2>1, <2>3, <2>4, <2>5 DEF TableInv, TableCurrent
<1>6. CASE Rewrite
  <2>1. /\ pc.at = "idle" /\ tbl' = NB - 1
        /\ pc' = [Rest("tbl_erase") EXCEPT !.op = "rewrite"]
        /\ UNCHANGED <<bad, flash, want, moved, env>>
    BY <1>6 DEF Rewrite
  <2>2. pc' \in Places /\ PlacesApart' /\ pc'.at = "tbl_erase"
    BY <2>1, Sizes DEF Places, PlacesApart, Rest
  <2>3. tbl' \in Blocks /\ tbl' \in NB - 4 .. NB - 1 /\ tbl' + 1 .. NB - 1 = {}
    BY <2>1, Sizes DEF Blocks
  <2>4. TypeOK'
    BY <1>1, <2>1, <2>2, <2>3, EnvStep DEF TypeOK
  <2>5. TableInUse'
    BY <1>1, <2>1, <2>3 DEF TableInUse
  <2> QED BY <2>2, <2>4, <2>5 DEF TableInv, TableCurrent
<1> QED BY <1>4, <1>5, <1>6

\* Erasing, copying and writing data touches no table.
LEMMA DataTable ==
  ASSUME TableInv, [Next]_vars,
         \/ NewErase \/ Copy
         \/ \E lb \in ULBlocks : UserWrite(lb) \/ AccessFails(lb)
  PROVE  TableInv'
<1>1. TypeOK /\ TableInUse /\ PlacesApart
  BY DEF TableInv
<1>2. /\ flash \in [Blocks -> Contents] /\ pc \in Places
      /\ want \in [ULBlocks -> Nat] /\ moved \in SUBSET ULBlocks
      /\ env.writes \in Nat
  BY <1>1 DEF TypeOK, SettingRecords
<1>3. CASE NewErase
  <2>1. /\ pc.at = "new_erase" /\ flash' = [flash EXCEPT ![pc.new] = Erased]
        /\ pc' = IF pc.op = "erase" THEN Rest("idle") ELSE [pc EXCEPT !.at = "copy"]
        /\ UNCHANGED <<bad, tbl, want, moved, env>>
    BY <1>3 DEF NewErase
  <2>2. pc' \in Places /\ PlacesApart' /\ Attached /\ pc.new \in ULBlocks
    BY <1>1, <1>2, <2>1, Sizes DEF Places, PlacesApart, Rest, Attached
  <2> QED BY <1>2, <2>1, <2>2, Kinds, DataBlockStep
<1>4. CASE Copy
  <2> DEFINE c == IF flash[pc.old] \in {Junk, Erased} THEN flash[pc.new] ELSE flash[pc.old]
  <2>1. /\ pc.at = "copy" /\ flash' = [flash EXCEPT ![pc.new] = c]
        /\ pc' = Rest("idle")
        /\ UNCHANGED <<bad, tbl, want, moved, env>>
    BY <1>4 DEF Copy
  <2>2. pc' \in Places /\ PlacesApart' /\ Attached
    BY <1>1, <1>2, <2>1, Sizes DEF Places, PlacesApart, Rest, Attached
  <2>3. pc.new \in ULBlocks /\ pc.old \in ULBlocks
    BY <1>1 DEF PlacesApart
  <2>4. c \in Contents /\ c.kind # "table"
    BY <1>1, <1>2, <2>3, Sizes DEF TableInUse
  <2> HIDE DEF c
  <2> QED BY <1>2, <2>1, <2>2, <2>3, <2>4, DataBlockStep
<1>5. ASSUME NEW lb \in ULBlocks, UserWrite(lb) PROVE TableInv'
  <2> DEFINE b == Mapping(bad, lb)
             c == Data(lb, env.writes)
  <2>1. /\ pc.at = "idle" /\ flash' = [flash EXCEPT ![b] = c]
        /\ want' = [want EXCEPT ![lb] = env.writes]
        /\ moved' = moved \ {lb}
        /\ UNCHANGED <<bad, tbl, pc>>
    BY <1>5 DEF UserWrite
  <2>2. b \in ULBlocks
    BY <1>1, RangesInUse, MappingStays DEF Mapping
  <2>3. c \in Contents /\ c.kind # "table"
    BY <1>2, Kinds, Sizes
  <2> HIDE DEF b, c
  <2>4. pc' \in Places /\ PlacesApart' /\ Attached
    BY <1>1, <1>2, <2>1 DEF PlacesApart, Attached
  <2>5. want' \in [ULBlocks -> Nat] /\ moved' \in SUBSET ULBlocks
    BY <1>2, <2>1
  <2> QED BY <2>1, <2>2, <2>3, <2>4, <2>5, DataBlockStep
<1>6. ASSUME NEW lb \in ULBlocks, AccessFails(lb) PROVE TableInv'
  <2>1. /\ pc.at = "idle" /\ flash' = [flash EXCEPT ![lb] = Junk]
        /\ want' = [want EXCEPT ![lb] = 0]
        /\ UNCHANGED <<bad, tbl, pc, moved>>
    BY <1>6 DEF AccessFails
  <2>2. pc' \in Places /\ PlacesApart' /\ Attached
    BY <1>1, <1>2, <2>1 DEF PlacesApart, Attached
  <2>3. want' \in [ULBlocks -> Nat] /\ moved' \in SUBSET ULBlocks
    BY <1>2, <2>1
  <2> QED BY <2>1, <2>2, <2>3, Kinds, DataBlockStep
<1> QED BY <1>3, <1>4, <1>5, <1>6

\* A power loss can only turn the table that is being written into junk.
LEMMA CrashTable ==
  ASSUME TableInv, [Next]_vars, Crash
  PROVE  TableInv'
<1>1. TypeOK /\ TableInUse /\ PlacesApart
  BY DEF TableInv
<1>2. PICK torn : flash' = [b \in Blocks |-> IF b \in torn THEN Junk ELSE flash[b]]
  BY DEF Crash
<1>3. /\ bad' = {} /\ tbl' = 0 /\ pc' = Rest("off") /\ want' = want
      /\ moved' \subseteq moved \union {pc.lb}
  BY DEF Crash
<1>4. flash' \in [Blocks -> Contents] /\ \A x \in ULBlocks : flash'[x].kind # "table"
  BY <1>1, <1>2, Kinds, Sizes DEF TypeOK, TableInUse
<1>5. pc' \in Places /\ PlacesApart' /\ ~Attached' /\ pc'.at = "off"
  BY <1>3, Sizes DEF Places, PlacesApart, Rest, Attached
<1>6. TypeOK'
  BY <1>1, <1>3, <1>4, <1>5, EnvStep, Sizes DEF TypeOK, PlacesApart
<1> QED BY <1>4, <1>5, <1>6 DEF TableInv, TableInUse, TableCurrent

\* Every step keeps the table where the driver looks for it.
LEMMA TableStep == TableInv /\ [Next]_vars => TableInv'
<1> SUFFICES ASSUME TableInv, [Next]_vars PROVE TableInv'
  OBVIOUS
<1>1. CASE AttachLoad \/ AttachFails
  BY <1>1, AttachTable
<1>2. CASE TableErase \/ TableWrite \/ Rewrite
  BY <1>2, WriteTable
<1>3. CASE NewErase \/ Copy \/ \E lb \in ULBlocks : UserWrite(lb) \/ AccessFails(lb)
  BY <1>3, DataTable
<1>4. CASE \E lb \in ULBlocks : \E op \in {"remap", "erase"} : Remap(lb, op)
  BY <1>4, RemapTable
<1>5. CASE \E lb \in ULBlocks : \E op \in {"mark_good", "repair"} : Unmap(lb, op)
  BY <1>5, UnmapTable
<1>6. CASE Crash
  BY <1>6, CrashTable
<1>7. CASE UNCHANGED vars
  BY <1>7 DEF vars, TableInv, TypeOK, PlacesApart, TableInUse, TableCurrent, Attached
<1> QED BY <1>1, <1>2, <1>3, <1>4, <1>5, <1>6, <1>7 DEF Next, Driver, User

\* The table is where the driver looks for it, wherever the power goes.
THEOREM TableInvariant == Spec => []TableInv
BY TableInit, TableStep, PTL DEF Spec

\* The state keeps its type.
THEOREM TypeCorrect == Spec => []TypeOK
<1>1. TableInv => TypeOK
  BY DEF TableInv
<1> QED BY <1>1, TableInvariant, PTL

\* Between operations the highest table on the flash is the one in memory: what
\* mtk_bmt_read_bbt loads after a power loss is what bbt_set_block_state wrote.
THEOREM TablePersisted == Spec => []Persisted
<1>1. TableInv => Persisted
  <2> SUFFICES ASSUME TableInv, pc.at = "idle"
               PROVE  flash[tbl] = Table(bad) /\ tbl = Max(Candidates)
    BY DEF Persisted
  <2>1. /\ flash[tbl] = Table(bad) /\ tbl \in NB - 4 .. NB - 1
        /\ \A b \in tbl + 1 .. NB - 1 : flash[b].kind # "table"
    BY DEF TableInv, TableCurrent, TableInUse, Attached
  <2>2. bad \in SUBSET Blocks
    BY DEF TableInv, TypeOK
  <2>3. tbl \in Candidates
    BY <2>1, <2>2, Kinds, Sizes DEF Candidates
  <2>4. /\ Max(Candidates) \in Candidates /\ Max(Candidates) \in NB - 4 .. NB - 1
        /\ \A b \in Candidates : b <= Max(Candidates)
    BY <2>3, HighestTable
  <2> DEFINE m == Max(Candidates)
  <2> HIDE DEF m
  <2>5. ~(tbl < m)
    <3>1. flash[m].kind = "table"
      BY <2>4 DEF m, Candidates
    <3> QED BY <2>1, <2>4, <3>1, Sizes DEF m
  <2>6. tbl <= m
    BY <2>3, <2>4 DEF m
  <2>7. tbl \in Int /\ m \in Int
    BY <2>1, <2>4, Sizes DEF m
  <2> QED BY <2>1, <2>5, <2>6, <2>7 DEF m
<1> QED BY <1>1, TableInvariant, PTL

\* Whatever the history of marks, unmarks and power losses, the mapping that
\* get_mapping_block_index_bbt computes gives every logic block a block of its
\* own, never the one of the table, and a bad one only if the good ones of the
\* range are used up.
THEOREM MappingIsSound == Spec => []MappingSound
<1>1. TableInv => MappingSound
  <2> SUFFICES ASSUME TableInv, Attached PROVE MappingSound
    BY DEF MappingSound, OneOwner, BadSkipped
  <2>1. env.ranges \in RangeSets /\ RangesApart(env.ranges)
    BY RangesInUse DEF TableInv
  <2>2. ASSUME NEW i \in ULBlocks
        PROVE  /\ \A j \in ULBlocks \ {i} : Mapping(bad, i) # Mapping(bad, j)
               /\ Mapping(bad, i) # tbl
    <3>1. \A j \in ULBlocks \ {i} : Mapping(bad, i) # Mapping(bad, j)
      BY <2>1, MappingOneToOne DEF Mapping
    <3>2. Mapping(bad, i) \in ULBlocks
      BY <2>1, MappingStays DEF Mapping
    <3>3. tbl \in NB - 4 .. NB - 1
      BY DEF TableInv, TableInUse
    <3> QED BY <3>1, <3>2, <3>3, Sizes DEF ULBlocks
  <2>3. BadSkipped
    BY <2>1, BadOnlyWhenUsedUp DEF BadSkipped, Mapping, RangeOf
  <2> QED BY <2>2, <2>3 DEF MappingSound, OneOwner
<1> QED BY <1>1, TableInvariant, PTL

\* Marking a block in remap_block_bbt moves no logic block in front of the one
\* that failed and none of another range.
THEOREM OnlyUpwards == Spec => MovesUpOnly
<1> DEFINE Starts == pc.at = "idle" /\ pc'.at = "tbl_erase" /\ pc'.op \in {"remap", "erase"}
           Upwards == Starts => \A lb \in Moves(bad, bad') :
                        lb >= pc'.lb /\ RangeOf(lb) = RangeOf(pc'.lb)
<1>1. TableInv /\ [Next]_vars => [Upwards]_vars
  <2> SUFFICES ASSUME TableInv, Next, Starts,
                      NEW k \in Moves(bad, bad')
               PROVE  k >= pc'.lb /\ RangeOf(k) = RangeOf(pc'.lb)
    OBVIOUS
  <2>1. PICK lb \in ULBlocks, op \in {"remap", "erase"} : Remap(lb, op)
    <3>1. ~Driver
      BY DEF Driver, AttachLoad, AttachFails, TableErase, TableWrite, NewErase, Copy
    <3>2. ~Crash /\ ~Rewrite
      BY DEF Crash, Rewrite, Rest
    <3>3. \A lb \in ULBlocks : ~UserWrite(lb) /\ ~AccessFails(lb)
      BY DEF UserWrite, AccessFails
    <3>4. \A lb \in ULBlocks : \A op \in {"mark_good", "repair"} : ~Unmap(lb, op)
      BY DEF Unmap, Rest
    <3> QED BY <3>1, <3>2, <3>3, <3>4 DEF Next, User
  <2>2. pc'.lb = lb /\ bad' = bad \union {Mapping(bad, lb)} /\ RangeOf(lb) # {}
    BY <2>1 DEF Remap, Rest
  <2>3. k \in ULBlocks /\ Mapping(bad, k) # Mapping(bad', k)
    BY DEF Moves
  <2>4. bad \in SUBSET Blocks /\ env.ranges \in RangeSets /\ RangesApart(env.ranges)
    BY RangesInUse DEF TableInv, TypeOK
  <2> QED BY <2>2, <2>3, <2>4, MarkMovesBehind DEF Mapping, RangeOf
<1>2. MovesUpOnly <=> [][Upwards]_vars
  BY DEF MovesUpOnly
<1> QED BY <1>1, <1>2, TableInvariant, PTL DEF Spec

-----------------------------------------------------------------------------
(* The data. *)

\* The debugfs file that moves the table, and leaves the old one behind, is not
\* used where the power can go away.
RewriteSafe == \A s \in Settings : "rewrite" \in s.files => s.crashes = 0

\* The mapping in use is one to one into the data area.
LEMMA Owners ==
  ASSUME TypeOK
  PROVE  \A B : \A i \in ULBlocks :
           /\ MappingBy(env.ranges, B, i) \in ULBlocks
           /\ MappingBy(env.ranges, B, i) \in Blocks
           /\ \A j \in ULBlocks :
                MappingBy(env.ranges, B, i) = MappingBy(env.ranges, B, j) => i = j
BY RangesInUse, MappingStays, MappingOneToOne, Sizes

\* At first there is no data, and one table.
LEMMA DataInit == Init => DataInv
<1> SUFFICES ASSUME Init PROVE DataInv
  OBVIOUS
<1>1. TableInv
  BY TableInit
<1>2. Kept = {} /\ ~Attached /\ ~Updating /\ ~Moving
  BY DEF Init, Kept, Rest, Attached, Updating, Moving
<1>3. \A a, b \in Candidates : a = b
  <2>1. PICK s \in Settings : \E m \in s.bad, b \in NB - 4 .. NB - 1 :
          flash = [[x \in Blocks |-> Erased] EXCEPT ![b] = Table(m)]
    BY DEF Init
  <2>2. PICK m \in s.bad, b \in NB - 4 .. NB - 1 :
          flash = [[x \in Blocks |-> Erased] EXCEPT ![b] = Table(m)]
    BY <2>1
  <2>3. Candidates \subseteq {b}
    BY <2>2, Kinds, Sizes DEF Candidates, Blocks
  <2> QED BY <2>3
<1> QED BY <1>1, <1>2, <1>3 DEF DataInv, DataHeld, DiskHeld

\* The table that is loaded maps the data to where it is.
LEMMA AttachData ==
  ASSUME DataInv, TableInv', [Next]_vars, AttachLoad \/ AttachFails
  PROVE  DataInv'
<1>1. TypeOK /\ DiskHeld /\ TableInv
  BY DEF DataInv, TableInv
<1>2. /\ UNCHANGED <<flash, want, moved, env>> /\ pc.at = "off" /\ ~Attached
      /\ Candidates' = Candidates /\ Kept' = Kept /\ ~Updating' /\ ~Moving'
  BY DEF AttachLoad, AttachFails, Attached, Kept, Candidates, Updating, Moving, Rest
<1>3. CASE AttachLoad
  <2> DEFINE m == Max(Candidates)
  <2>1. tbl' = m /\ bad' = flash[m].bad /\ pc'.at = "idle" /\ m \in Candidates
    BY <1>1, <1>3, HighestTable DEF AttachLoad, Rest
  <2> HIDE DEF m
  <2>2. \A lb \in Kept : Held(bad', lb)
    BY <1>1, <1>2, <2>1 DEF DiskHeld
  <2>3. DataHeld'
    BY <1>2, <2>1, <2>2 DEF DataHeld, Held, Mapping
  <2>4. DiskHeld'
    BY <1>1, <1>2, <2>1 DEF DiskHeld, Attached
  <2> QED BY <2>3, <2>4 DEF DataInv
<1>4. CASE AttachFails
  <2>1. ~Attached' /\ Candidates = {}
    BY <1>4 DEF AttachFails, Attached, Rest
  <2> QED BY <1>2, <2>1 DEF DataInv, DataHeld, DiskHeld
<1> QED BY <1>3, <1>4

\* An operation starts: what it does not move stays where it is.
LEMMA StartData ==
  ASSUME DataInv, TableInv', [Next]_vars, pc.at = "idle", pc'.at = "tbl_erase",
         UNCHANGED <<flash, tbl>>, env'.ranges = env.ranges, env'.files = env.files,
         \A lb \in Kept' \ {pc'.lb} :
           lb \in Kept /\ Mapping(bad', lb) = Mapping(bad, lb) /\ want'[lb] = want[lb],
         pc'.lb \in Kept' =>
           /\ pc'.lb \in Kept /\ want'[pc'.lb] = want[pc'.lb]
           /\ IF HasNew' THEN /\ pc'.old = Mapping(bad, pc'.lb)
                              /\ pc'.old # Mapping(bad', pc'.lb)
              ELSE Mapping(bad', pc'.lb) = Mapping(bad, pc'.lb),
         pc'.op = "erase" => want'[pc'.lb] = 0
  PROVE  DataInv'
<1>1. DataHeld /\ DiskHeld /\ TableInv
  BY DEF DataInv
<1>2. /\ \A lb \in Kept : flash[Mapping(bad, lb)] = Data(lb, want[lb])
      /\ flash[tbl] = Table(bad) /\ Table(bad).bad = bad
      /\ Attached /\ Attached' /\ Updating' /\ ~Moving'
  BY <1>1, Kinds DEF DataHeld, TableInv, TypeOK, TableCurrent, Attached, Updating, Moving, Held
<1>3. \A lb \in Kept' : lb # pc'.lb => Held(bad, lb)'
  BY <1>2 DEF Held, Mapping
<1>4. pc'.lb \in Kept' =>
        IF HasNew' THEN /\ flash'[pc'.old] = Data(pc'.lb, want'[pc'.lb])
                        /\ pc'.old # Mapping(bad, pc.lb)'
        ELSE Held(bad, pc.lb)'
  BY <1>2 DEF Held, Mapping
<1>5. DataHeld'
  BY <1>2, <1>3, <1>4 DEF DataHeld
<1>6. DiskHeld'
  <2>1. Candidates' = Candidates
    BY DEF Candidates
  <2>2. \A lb \in Kept' \ {pc'.lb} : Mapping(flash[tbl].bad, lb)' = Mapping(bad, lb)'
    BY <1>2 DEF Mapping
  <2> QED BY <1>1, <1>2, <2>1, <2>2 DEF DiskHeld
<1> QED BY <1>5, <1>6 DEF DataInv

\* Marking the block of lb: the data of lb is in the old block until it is
\* copied, what else moves is counted as moved.
LEMMA RemapData ==
  ASSUME DataInv, TableInv', [Next]_vars, NEW lb \in ULBlocks,
         NEW op \in {"remap", "erase"}, Remap(lb, op)
  PROVE  DataInv'
<1>1. TypeOK
  BY DEF DataInv, TableInv
<1>2. /\ pc.at = "idle" /\ UNCHANGED <<flash, tbl>>
      /\ pc'.at = "tbl_erase" /\ pc'.lb = lb /\ pc'.op = op /\ pc'.old = Mapping(bad, lb)
      /\ want' = IF op = "erase" THEN [want EXCEPT ![lb] = 0] ELSE want
      /\ env'.ranges = env.ranges /\ env'.files = env.files
  BY <1>1, EnvStep DEF Remap, Rest
<1>3. moved' = (moved \union Moves(bad, bad') \union {lb})
                 \ (IF Mapping(bad', lb) # Mapping(bad, lb) THEN {lb} \ moved ELSE {})
  BY DEF Remap
<1>4. /\ want \in [ULBlocks -> Nat]
      /\ \A k \in ULBlocks : want'[k] # 0 => want'[k] = want[k]
      /\ op = "erase" => want'[lb] = 0
  BY <1>1, <1>2 DEF TypeOK
<1>5. ASSUME NEW k \in Kept', k # lb
      PROVE  k \in Kept /\ Mapping(bad', k) = Mapping(bad, k) /\ want'[k] = want[k]
  BY <1>3, <1>4, <1>5 DEF Kept, Moves
<1>6. ASSUME lb \in Kept'
      PROVE  /\ lb \in Kept /\ want'[lb] = want[lb]
             /\ Mapping(bad', lb) # Mapping(bad, lb)
             /\ HasNew'
  BY <1>2, <1>3, <1>4, <1>6 DEF Kept, HasNew
<1> QED BY <1>2, <1>4, <1>5, <1>6, StartData

\* Unmarking a block: the same for the debugfs files.
LEMMA UnmapData ==
  ASSUME DataInv, TableInv', [Next]_vars, NEW b \in ULBlocks,
         NEW op \in {"mark_good", "repair"}, Unmap(b, op)
  PROVE  DataInv'
<1>1. TypeOK
  BY DEF DataInv, TableInv
<1>2. /\ pc.at = "idle" /\ UNCHANGED <<flash, tbl, want>>
      /\ pc'.at = "tbl_erase" /\ pc'.lb = b /\ pc'.op = op /\ pc'.old = Mapping(bad, b)
      /\ env'.ranges = env.ranges /\ env'.files = env.files
  BY <1>1, EnvStep DEF Unmap, Rest
<1>3. moved' = moved \union (Moves(bad, bad') \ IF op = "repair" THEN {b} ELSE {})
  BY DEF Unmap
<1>4. ASSUME NEW k \in Kept', k # b
      PROVE  k \in Kept /\ Mapping(bad', k) = Mapping(bad, k) /\ want'[k] = want[k]
  BY <1>2, <1>3, <1>4 DEF Kept, Moves
<1>5. ASSUME b \in Kept'
      PROVE  /\ b \in Kept /\ want'[b] = want[b]
             /\ IF HasNew' THEN /\ pc'.old = Mapping(bad, b) /\ pc'.old # Mapping(bad', b)
                ELSE Mapping(bad', b) = Mapping(bad, b)
  <2>1. b \in Kept
    BY <1>2, <1>3, <1>5 DEF Kept
  <2>2. HasNew' <=> op = "repair" /\ Mapping(bad', b) # pc'.old
    BY <1>2 DEF HasNew, Mapping
  <2>3. op = "mark_good" => Mapping(bad', b) = Mapping(bad, b)
    BY <1>3, <1>5 DEF Kept, Moves
  <2> QED BY <1>2, <2>1, <2>2, <2>3
<1> QED BY <1>2, <1>4, <1>5, StartData

\* The table goes to the last block; the data stays.
LEMMA RewriteData ==
  ASSUME DataInv, TableInv', [Next]_vars, Rewrite
  PROVE  DataInv'
<1>1. /\ pc.at = "idle" /\ "rewrite" \in env.files /\ UNCHANGED <<bad, flash, want, moved, env>>
      /\ pc'.at = "tbl_erase" /\ pc'.op = "rewrite"
      /\ Attached /\ Attached' /\ ~Moving' /\ ~HasNew' /\ Kept' = Kept
  BY DEF Rewrite, Rest, Attached, Moving, HasNew, Kept
<1>2. \A lb \in Kept : Held(bad, lb)' 
  BY <1>1 DEF DataInv, DataHeld, Held, Mapping
<1>3. DataHeld'
  BY <1>1, <1>2 DEF DataHeld
<1>4. DiskHeld'
  BY <1>1 DEF DiskHeld
<1> QED BY <1>3, <1>4 DEF DataInv

\* Writing the table does not touch the data.
LEMMA WriteData ==
  ASSUME DataInv, TableInv', [Next]_vars, TableErase \/ TableWrite
  PROVE  DataInv'
<1>1. TypeOK /\ TableInUse /\ PlacesApart /\ DataHeld /\ DiskHeld
  BY DEF DataInv, TableInv
<1>2. /\ Updating /\ Attached /\ Attached'
      /\ UNCHANGED <<bad, tbl, want, moved, env>> /\ Kept' = Kept
      /\ flash \in [Blocks -> Contents] /\ tbl \in Blocks /\ bad \in SUBSET Blocks
      /\ tbl \in NB - 4 .. NB - 1
  <2>1. /\ pc.at \in {"tbl_erase", "tbl_write"} /\ pc \in Places
        /\ UNCHANGED <<bad, tbl, want, moved, env>>
    BY <1>1 DEF TableErase, TableWrite, TypeOK
  <2>2. Updating /\ Attached /\ Kept' = Kept
    BY <2>1 DEF Updating, Attached, Kept
  <2>3. pc'.at \in {"tbl_write", "new_erase", "idle"}
    <3>1. CASE TableErase
      BY <2>1, <3>1 DEF TableErase, Places
    <3>2. CASE TableWrite
      <4>1. pc' = [pc EXCEPT !.at = "new_erase", !.new = Mapping(bad, pc.lb)] \/ pc' = Rest("idle")
        BY <3>2 DEF TableWrite
      <4>2. [pc EXCEPT !.at = "new_erase", !.new = Mapping(bad, pc.lb)].at = "new_erase"
        BY <2>1 DEF Places
      <4>3. Rest("idle").at = "idle"
        BY DEF Rest
      <4> QED BY <4>1, <4>2, <4>3
    <3> QED BY <3>1, <3>2
  <2>4. Attached'
    BY <2>3 DEF Attached
  <2>5. flash \in [Blocks -> Contents] /\ tbl \in Blocks /\ bad \in SUBSET Blocks
    BY <1>1 DEF TypeOK
  <2>6. tbl \in NB - 4 .. NB - 1
    BY <1>1, <2>2 DEF TableInUse
  <2> QED BY <2>1, <2>2, <2>4, <2>5, <2>6
<1>3. \A b \in Blocks : b # tbl => flash'[b] = flash[b]
  BY <1>2 DEF TableErase, TableWrite
<1>4. \A b \in ULBlocks : flash'[b] = flash[b]
  BY <1>2, <1>3, Sizes DEF ULBlocks
<1>5. \A B, lb : lb \in ULBlocks => MappingBy(env.ranges, B, lb) \in ULBlocks
  BY <1>1, Owners
<1>6. \A lb \in Kept : Held(bad, lb) => Held(bad, lb)'
  BY <1>2, <1>4, <1>5 DEF Held, Mapping, Kept
<1>7. \A lb \in Kept : lb # pc.lb => Held(bad, lb)'
  BY <1>1, <1>2, <1>6 DEF DataHeld
<1>8. pc.lb \in Kept =>
        IF HasNew THEN /\ flash'[pc.old] = Data(pc.lb, want[pc.lb])
                       /\ pc.old # Mapping(bad, pc.lb)
        ELSE flash'[Mapping(bad, pc.lb)] = Data(pc.lb, want[pc.lb])
  BY <1>1, <1>2, <1>4, <1>5 DEF DataHeld, Held, Mapping, PlacesApart
<1>9. "rewrite" \notin env.files => /\ Candidates' \subseteq {tbl}
                                    /\ \A a, b \in Candidates' : a = b
  <2>1. Candidates' \subseteq Candidates \union {tbl}
    BY <1>2, <1>3, Sizes DEF Candidates, Blocks
  <2> QED BY <1>1, <1>2, <2>1 DEF DiskHeld
<1>10. CASE TableErase
  <2>1. /\ pc' = [pc EXCEPT !.at = "tbl_write"] /\ pc \in Places
        /\ flash' = [flash EXCEPT ![tbl] = Erased]
    BY <1>1, <1>10 DEF TableErase, TypeOK
  <2>2. /\ pc'.at = "tbl_write" /\ pc'.lb = pc.lb /\ pc'.op = pc.op /\ pc'.old = pc.old
        /\ pc'.new = pc.new
    BY <2>1 DEF Places
  <2>3. /\ HasNew' = HasNew /\ Mapping(bad, pc.lb)' = Mapping(bad, pc.lb)
        /\ Held(bad, pc.lb)' = (flash'[Mapping(bad, pc.lb)] = Data(pc.lb, want[pc.lb]))
    BY <1>2, <2>2 DEF HasNew, Mapping, Held
  <2>4. tbl \notin Candidates'
    BY <1>2, <2>1, Kinds DEF Candidates
  <2>5. DataHeld'
    BY <1>1, <1>2, <1>7, <1>8, <2>2, <2>3 DEF DataHeld, Updating, Moving
  <2>6. DiskHeld'
    BY <1>2, <1>9, <2>4 DEF DiskHeld
  <2> QED BY <2>5, <2>6 DEF DataInv
<1>11. CASE TableWrite
  <2>1. /\ pc \in Places
        /\ pc' = IF HasNew THEN [pc EXCEPT !.at = "new_erase", !.new = Mapping(bad, pc.lb)]
                 ELSE Rest("idle")
    BY <1>1, <1>11 DEF TableWrite, TypeOK
  <2>2. DiskHeld'
    <3>1. ~Updating'
      BY <2>1 DEF Updating, Places, Rest
    <3> QED BY <1>2, <1>9, <3>1 DEF DiskHeld
  <2>3. CASE HasNew
    <3>1. /\ pc'.at = "new_erase" /\ pc'.lb = pc.lb /\ pc'.op = pc.op /\ pc'.old = pc.old
          /\ pc'.new = Mapping(bad, pc.lb)
      BY <2>1, <2>3 DEF Places
    <3>2. Mapping(bad, pc.lb)' = Mapping(bad, pc.lb)
      BY <1>2, <3>1 DEF Mapping
    <3>3. DataHeld'
      BY <1>1, <1>2, <1>7, <1>8, <2>3, <3>1, <3>2 DEF DataHeld, Updating, Moving
    <3> QED BY <2>2, <3>3 DEF DataInv
  <2>4. CASE ~HasNew
    <3>1. pc'.at = "idle"
      BY <2>1, <2>4 DEF Rest
    <3>2. \A lb \in Kept : Held(bad, lb)'
      <4>1. pc.lb \in Kept => flash'[MappingBy(env.ranges, bad, pc.lb)] = Data(pc.lb, want[pc.lb])
        BY <1>8, <2>4 DEF Mapping
      <4>2. \A lb \in Kept : Held(bad, lb)' =
              (flash'[MappingBy(env.ranges, bad, lb)] = Data(lb, want[lb]))
        BY <1>2 DEF Held, Mapping
      <4> QED BY <1>7, <4>1, <4>2
    <3>3. DataHeld'
      BY <1>2, <3>1, <3>2 DEF DataHeld, Updating, Moving
    <3> QED BY <2>2, <3>3 DEF DataInv
  <2> QED BY <2>3, <2>4
<1> QED BY <1>10, <1>11

\* A block of the data area changes: the tables on the flash stay.
LEMMA CandidatesStay ==
  ASSUME DataInv, TableInv', NEW b \in ULBlocks, NEW c, flash' = [flash EXCEPT ![b] = c]
  PROVE  Candidates' = Candidates
<1>1. flash \in [Blocks -> Contents] /\ TableInUse /\ TableInUse'
  BY DEF DataInv, TableInv, TypeOK
<1>2. ASSUME NEW x \in NB - 5 .. NB - 1
      PROVE  flash'[x].kind = "table" <=> flash[x].kind = "table"
  <2>1. x \in Blocks
    BY Sizes DEF Blocks
  <2>2. CASE x = b
    BY <1>1, <2>2 DEF TableInUse
  <2>3. CASE x # b
    BY <1>1, <2>1, <2>3
  <2> QED BY <2>2, <2>3
<1> QED BY <1>2 DEF Candidates

\* Erasing and writing the new block touches only the logic block it is for.
LEMMA MoveData ==
  ASSUME DataInv, TableInv', [Next]_vars, NewErase \/ Copy
  PROVE  DataInv'
<1>1. TypeOK /\ PlacesApart /\ DataHeld /\ DiskHeld
  BY DEF DataInv, TableInv
<1>2. /\ Moving /\ Attached /\ Attached' /\ pc \in Places
      /\ UNCHANGED <<bad, tbl, want, moved, env>> /\ Kept' = Kept
      /\ flash \in [Blocks -> Contents] /\ pc.new \in Blocks
      /\ ~Updating'
  BY <1>1, Sizes DEF NewErase, Copy, Moving, Updating, Attached, Kept, TypeOK, Rest, Places
<1>3. PICK c : flash' = [flash EXCEPT ![pc.new] = c]
  BY DEF NewErase, Copy
<1>4. DiskHeld'
  <2>1. Candidates' = Candidates
    BY <1>1, <1>3, CandidatesStay DEF PlacesApart
  <2> QED BY <1>1, <1>2, <2>1 DEF DiskHeld
<1>5. pc.new = MappingBy(env.ranges, bad, pc.lb) /\ pc.lb \in ULBlocks
  BY <1>1, <1>2 DEF DataHeld, Mapping, PlacesApart
<1>6. ASSUME NEW lb \in Kept, lb # pc.lb PROVE Held(bad, lb)'
  <2>1. lb \in ULBlocks /\ Held(bad, lb)
    BY <1>1, <1>2, <1>6 DEF DataHeld, Kept
  <2>2. MappingBy(env.ranges, bad, lb) \in Blocks /\ MappingBy(env.ranges, bad, lb) # pc.new
    BY <1>1, <1>5, <1>6, <2>1, Owners
  <2> QED BY <1>2, <1>3, <2>1, <2>2 DEF Held, Mapping
<1>7. CASE NewErase
  <2>1. pc' = IF pc.op = "erase" THEN Rest("idle") ELSE [pc EXCEPT !.at = "copy"]
    BY <1>7 DEF NewErase
  <2>2. CASE pc.op = "erase"
    <3>1. pc'.at = "idle" /\ pc.lb \notin Kept
      BY <1>1, <1>2, <2>1, <2>2 DEF Rest, DataHeld, Kept
    <3>2. DataHeld'
      BY <1>2, <1>6, <3>1 DEF DataHeld, Moving
    <3> QED BY <1>4, <3>2 DEF DataInv
  <2>3. CASE pc.op # "erase"
    <3>1. /\ pc'.at = "copy" /\ pc'.lb = pc.lb /\ pc'.op = pc.op /\ pc'.old = pc.old
          /\ pc'.new = pc.new
      BY <1>2, <2>1, <2>3 DEF Places
    <3>2. Mapping(bad, pc.lb)' = Mapping(bad, pc.lb)
      BY <1>2, <3>1 DEF Mapping
    <3>3. pc.lb \in Kept => flash'[pc.old] = Data(pc.lb, want[pc.lb]) /\ pc.old # pc.new
      BY <1>1, <1>2, <1>3, Sizes DEF DataHeld, PlacesApart
    <3>4. DataHeld'
      BY <1>1, <1>2, <1>6, <2>3, <3>1, <3>2, <3>3 DEF DataHeld, Moving
    <3> QED BY <1>4, <3>4 DEF DataInv
  <2> QED BY <2>2, <2>3
<1>8. CASE Copy
  <2>1. /\ pc'.at = "idle"
        /\ flash' = [flash EXCEPT ![pc.new] =
             IF flash[pc.old] \in {Junk, Erased} THEN flash[pc.new] ELSE flash[pc.old]]
    BY <1>8 DEF Copy, Rest
  <2>2. pc.lb \in Kept =>
          flash'[MappingBy(env.ranges, bad, pc.lb)] = Data(pc.lb, want[pc.lb])
    <3> SUFFICES ASSUME pc.lb \in Kept
                 PROVE  flash'[MappingBy(env.ranges, bad, pc.lb)] = Data(pc.lb, want[pc.lb])
      OBVIOUS
    <3>1. flash[pc.old] = Data(pc.lb, want[pc.lb])
      BY <1>1, <1>2 DEF DataHeld
    <3>2. flash[pc.old] \notin {Junk, Erased}
      BY <3>1 DEF Data, Junk, Erased
    <3> QED BY <1>2, <1>5, <2>1, <3>1, <3>2
  <2>3. \A lb \in Kept : Held(bad, lb)'
    <3>1. \A lb \in Kept : Held(bad, lb)' =
            (flash'[MappingBy(env.ranges, bad, lb)] = Data(lb, want[lb]))
      BY <1>2 DEF Held, Mapping
    <3> QED BY <1>6, <2>2, <3>1
  <2>4. DataHeld'
    BY <1>2, <2>1, <2>3 DEF DataHeld, Moving
  <2> QED BY <1>4, <2>4 DEF DataInv
<1> QED BY <1>7, <1>8

\* A write changes the block of its logic block, which no other one has.
LEMMA UserData ==
  ASSUME DataInv, TableInv', [Next]_vars, NEW lb \in ULBlocks,
         UserWrite(lb) \/ AccessFails(lb)
  PROVE  DataInv'
<1>1. TypeOK /\ PlacesApart /\ DataHeld /\ DiskHeld
  BY DEF DataInv, TableInv
<1> DEFINE b == MappingBy(env.ranges, bad, lb)
<1>2. /\ pc.at = "idle" /\ UNCHANGED <<bad, tbl, pc>>
      /\ env'.ranges = env.ranges /\ env'.files = env.files
      /\ Attached /\ ~Updating' /\ ~Moving' /\ Attached'
      /\ flash \in [Blocks -> Contents] /\ want \in [ULBlocks -> Nat]
      /\ env.writes \in Nat
  BY <1>1, EnvStep DEF UserWrite, AccessFails, Updating, Moving, Attached, TypeOK, SettingRecords
<1>3. b \in ULBlocks /\ b \in Blocks
  BY <1>1, Owners
<1>4. PICK c, v : /\ flash' = [flash EXCEPT ![b] = c]
                  /\ want' = [want EXCEPT ![lb] = v]
                  /\ moved' \in {moved, moved \ {lb}}
                  /\ v # 0 => c = Data(lb, v)
  <2>1. CASE UserWrite(lb)
    BY <2>1 DEF UserWrite, Mapping
  <2>2. CASE AccessFails(lb)
    <3>1. b = lb
      BY <2>2 DEF AccessFails, RangeOf, MappingBy
    <3> QED BY <2>2, <3>1 DEF AccessFails
  <2> QED BY <2>1, <2>2
<1> HIDE DEF b
<1>5. ASSUME NEW k \in Kept' PROVE Held(bad, k)'
  <2>1. CASE k = lb
    <3>1. v # 0
      BY <1>2, <1>4, <1>5, <2>1 DEF Kept
    <3> QED BY <1>2, <1>3, <1>4, <2>1, <3>1 DEF Held, Mapping, b
  <2>2. CASE k # lb
    <3>1. k \in Kept /\ k \in ULBlocks /\ want'[k] = want[k]
      BY <1>2, <1>4, <1>5, <2>2 DEF Kept
    <3>2. flash[MappingBy(env.ranges, bad, k)] = Data(k, want[k])
      BY <1>1, <1>2, <3>1 DEF DataHeld, Held, Mapping
    <3>3. MappingBy(env.ranges, bad, k) \in Blocks /\ MappingBy(env.ranges, bad, k) # b
      BY <1>1, <2>2, <3>1, Owners DEF b
    <3> QED BY <1>2, <1>4, <3>1, <3>2, <3>3 DEF Held, Mapping
  <2> QED BY <2>1, <2>2
<1>6. DataHeld'
  BY <1>2, <1>5 DEF DataHeld
<1>7. Candidates' = Candidates
  BY <1>3, <1>4, CandidatesStay
<1>8. DiskHeld'
  BY <1>1, <1>2, <1>7 DEF DiskHeld
<1> QED BY <1>6, <1>8 DEF DataInv

\* After a power loss the table on the flash, if it is whole, maps the data
\* that did not move to where it is.
LEMMA CrashData ==
  ASSUME RewriteSafe, DataInv, TableInv', [Next]_vars, Crash
  PROVE  DataInv'
<1>1. TypeOK /\ PlacesApart /\ DataHeld /\ DiskHeld /\ TableCurrent /\ TableInUse
  BY DEF DataInv, TableInv
<1>2. /\ pc.at # "off" /\ env.crashes > 0 /\ want' = want /\ pc'.at = "off"
      /\ env'.ranges = env.ranges /\ env'.files = env.files
      /\ moved' = IF pc.at \in {"idle", "dead"} THEN moved ELSE moved \union {pc.lb}
      /\ ~Attached' /\ ~Updating' /\ ~Moving'
  BY <1>1, EnvStep DEF Crash, Rest, Attached, Updating, Moving
<1>3. "rewrite" \notin env.files
  <2>1. PICK s \in Settings : env.files = s.files /\ env.crashes <= s.crashes
    BY <1>1 DEF TypeOK
  <2>2. s.crashes \in Nat /\ env.crashes \in Nat
    BY <1>1, BbtAssumption DEF TypeOK, SettingRecords
  <2> QED BY <1>2, <2>1, <2>2 DEF RewriteSafe
<1>4. PICK torn \in SUBSET InFlight :
        flash' = [b \in Blocks |-> IF b \in torn THEN Junk ELSE flash[b]]
  BY DEF Crash
<1>5. /\ Candidates' \subseteq Candidates
      /\ \A b \in Candidates' : flash'[b] = flash[b] /\ b \notin torn /\ b \in Blocks
  <2>1. \A b \in NB - 5 .. NB - 1 : b \in Blocks
    BY Sizes DEF Blocks
  <2>2. \A b \in Blocks : flash'[b].kind = "table" => b \notin torn /\ flash'[b] = flash[b]
    BY <1>4, Kinds
  <2> QED BY <2>1, <2>2 DEF Candidates
<1>6. Kept' \subseteq Kept
  BY <1>2 DEF Kept
<1>7. ASSUME NEW b \in Candidates', NEW lb \in Kept'
      PROVE  flash'[MappingBy(env.ranges, flash[b].bad, lb)] = Data(lb, want[lb])
  <2>1. lb \in ULBlocks /\ lb \in Kept /\ b \in Candidates
    BY <1>5, <1>6 DEF Kept
  <2> DEFINE x == MappingBy(env.ranges, flash[b].bad, lb)
  <2>2. x \in ULBlocks /\ x \in Blocks
    BY <1>1, <2>1, Owners
  <2>3. CASE pc.at = "dead"
    <3>1. torn = {}
      BY <1>4, <2>3 DEF InFlight
    <3>2. flash[x] = Data(lb, want[lb])
      BY <1>1, <2>1, <2>3 DEF DiskHeld, Attached, Held, Mapping
    <3> QED BY <1>4, <2>2, <3>1, <3>2
  <2>4. CASE pc.at # "dead"
    <3>1. Attached /\ b = tbl /\ (pc.at = "idle" \/ lb # pc.lb)
      BY <1>1, <1>2, <1>3, <1>7, <2>1, <2>4 DEF DiskHeld, Attached, Kept
    <3>2. flash[MappingBy(env.ranges, bad, lb)] = Data(lb, want[lb])
      BY <1>1, <2>1, <3>1 DEF DataHeld, Held, Mapping
    <3>3. x = MappingBy(env.ranges, bad, lb)
      <4>1. CASE Updating
        <5>1. lb # pc.lb
          BY <3>1, <4>1 DEF Updating
        <5> QED BY <1>1, <1>3, <2>1, <3>1, <4>1, <5>1 DEF DiskHeld, Mapping
      <4>2. CASE ~Updating
        <5>1. pc.at \in {"idle", "new_erase", "copy"}
          BY <1>1, <1>2, <2>4, <4>2 DEF TypeOK, Places, Updating
        <5>2. flash[tbl] = Table(bad) /\ bad \in SUBSET Blocks
          BY <1>1, <5>1 DEF TableCurrent, TypeOK
        <5> QED BY <3>1, <5>2, Kinds
      <4> QED BY <4>1, <4>2
    <3>4. x \notin torn
      <4>1. CASE Updating
        <5>1. torn \subseteq {tbl} /\ tbl \in NB - 4 .. NB - 1
          BY <1>1, <1>4, <3>1, <4>1 DEF InFlight, Updating, TableInUse
        <5> QED BY <2>2, <5>1, Sizes DEF ULBlocks
      <4>2. CASE Moving
        <5>1. torn \subseteq {MappingBy(env.ranges, bad, pc.lb)} /\ lb # pc.lb /\ pc.lb \in ULBlocks
          BY <1>1, <1>4, <3>1, <4>2 DEF InFlight, Moving, DataHeld, Mapping, PlacesApart
        <5> QED BY <1>1, <2>1, <3>3, <5>1, Owners
      <4>3. CASE ~Updating /\ ~Moving
        BY <1>4, <4>3 DEF InFlight, Updating, Moving
      <4> QED BY <4>1, <4>2, <4>3
    <3> QED BY <1>4, <2>2, <3>2, <3>3, <3>4
  <2> QED BY <2>3, <2>4
<1>8. DiskHeld'
  <2>1. \A b \in Candidates' : \A lb \in Kept' : Held(flash[b].bad, lb)'
    BY <1>2, <1>5, <1>7 DEF Held, Mapping
  <2>2. \A a, b \in Candidates' : a = b
    BY <1>1, <1>3, <1>5 DEF DiskHeld
  <2> QED BY <1>2, <2>1, <2>2 DEF DiskHeld
<1>9. DataHeld'
  BY <1>2 DEF DataHeld
<1> QED BY <1>8, <1>9 DEF DataInv

\* Every step keeps the data within reach.
LEMMA DataStep ==
  ASSUME RewriteSafe, DataInv, [Next]_vars
  PROVE  DataInv'
<1>0. TableInv'
  BY TableStep DEF DataInv
<1>1. CASE AttachLoad \/ AttachFails
  BY <1>0, <1>1, AttachData
<1>2. CASE TableErase \/ TableWrite
  BY <1>0, <1>2, WriteData
<1>3. CASE NewErase \/ Copy
  BY <1>0, <1>3, MoveData
<1>4. CASE \E lb \in ULBlocks : UserWrite(lb) \/ AccessFails(lb)
  BY <1>0, <1>4, UserData
<1>5. CASE \E lb \in ULBlocks : \E op \in {"remap", "erase"} : Remap(lb, op)
  BY <1>0, <1>5, RemapData
<1>6. CASE \E lb \in ULBlocks : \E op \in {"mark_good", "repair"} : Unmap(lb, op)
  BY <1>0, <1>6, UnmapData
<1>7. CASE Rewrite
  BY <1>0, <1>7, RewriteData
<1>8. CASE Crash
  BY <1>0, <1>8, CrashData
<1>9. CASE UNCHANGED vars
  <2>1. DataHeld /\ DiskHeld
    BY DEF DataInv
  <2>2. UNCHANGED <<bad, tbl, pc, flash, want, moved, env>>
    BY <1>9 DEF vars
  <2>3. DataHeld'
    BY <2>1, <2>2 DEF DataHeld, Attached, Updating, Moving, Kept, Held, HasNew, Mapping
  <2>4. DiskHeld'
    BY <2>1, <2>2 DEF DiskHeld, Attached, Updating, Moving, Kept, Held, Candidates, Mapping
  <2> QED BY <1>0, <2>3, <2>4 DEF DataInv
<1> QED BY <1>1, <1>2, <1>3, <1>4, <1>5, <1>6, <1>7, <1>8, <1>9 DEF Next, Driver, User

\* On a device that is attached, what a logic block holds stays reachable through
\* any sequence of failures, marks, unmarks and power losses, unless a mark has
\* moved the logic block away from it, as it does with all later ones of a range:
\* the erase and the copy of remap_block_bbt hit no one else.
THEOREM DataIsSafe ==
  ASSUME RewriteSafe
  PROVE  Spec => []DataSafe
<1>1. DataInv /\ [Next]_vars => DataInv'
  BY DataStep
<1>2. DataInv => DataSafe
  <2> SUFFICES ASSUME DataInv, Attached, pc.at \notin {"new_erase", "copy"},
                      NEW lb \in ULBlocks \ moved, want[lb] # 0,
                      ~(pc.at \in {"tbl_erase", "tbl_write"} /\ pc.lb = lb)
               PROVE  flash[Mapping(bad, lb)] = Data(lb, want[lb])
    BY DEF DataSafe
  <2>1. lb \in Kept
    BY DEF Kept
  <2>2. pc.at = "idle" \/ pc.lb # lb
    BY DEF Attached, DataInv, TableInv, TypeOK, Places
  <2> QED BY <2>1, <2>2 DEF DataInv, DataHeld, Held
<1> QED BY <1>1, <1>2, DataInit, PTL DEF Spec
=============================================================================
