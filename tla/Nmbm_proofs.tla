----------------------------- MODULE Nmbm_proofs -----------------------------
(***************************************************************************)
(* Proofs about Nmbm for chips of every size, any number of spare blocks,  *)
(* failures and power losses.                                              *)
(*                                                                         *)
(* The types are kept under all settings.  The rest rests on one invariant *)
(* of the tables: what is on the flash before and after every single erase *)
(* and program operation of an update, a rescue or a rebuild, since that   *)
(* is what the next attach finds if the power goes.  It holds as long as   *)
(* nmbm_map_block never skips a bad block of the pool (TakesTop).  While   *)
(* there are two tables (TwoTables) it makes the driver an implementation  *)
(* of DurableMap.  The data survive if, besides, the new block of a remap  *)
(* works (NewBlockWorks) and the tables are write protected for a full     *)
(* pool only (ProtectedWhenFull).                                          *)
(*                                                                         *)
(* The flash f and the bad marks bm, the instance n and the place p are    *)
(* parameters of the definitions, so that what a function of the driver    *)
(* does with them can be stated without reference to a step.               *)
(***************************************************************************)
EXTENDS Nmbm, Ranks_proofs, TLAPS, FiniteSetTheorems

-----------------------------------------------------------------------------
(* Hypotheses. *)

\* nmbm_map_block finds the block at mapping_blocks_top_ba good, or no good block
\* in the pool: it never skips one, which its decrement of mapping_blocks_top_ba
\* does not account for.
TakesTop == pc.at \in {"idle", "create_map"} => Spare(ni) \in {ni.top, None}

\* The main table is only updated while there is a backup table.
TwoTables == pc.at = "update_main" => ni.backup # None

\* The block a logic block is remapped to can be erased and programmed: nobody
\* looks at the results.
NewBlockWorks ==
  pc.at \in {"remap_erase", "remap_copy"} => ~MayFail(ni.map[pc.lb])

\* The tables are write protected only because the pool is used up.
ProtectedWhenFull == pc.at = "idle" /\ ni.protected => ni.mba = ni.top

-----------------------------------------------------------------------------
(* The flash, as the next attach will find it. *)

Area == MgmtStart .. NB - 1

\* The blocks with a readable table, and those with a signature.
Tabs(f, bm)  == {b \in Area : b \notin bm /\ f[b].kind = "table"}
Signs(f, bm) == {b \in Blocks : b \notin bm /\ f[b] = Signature}

\* A mapping without sharing, whose blocks in the management area are between lo
\* and the signature.
MapFits(m, lo, sig) ==
  /\ \A i, j \in LBlocks : m[i] # Unmapped /\ m[i] = m[j] => i = j
  /\ \A i \in LBlocks : m[i] >= MgmtStart => lo < m[i] /\ m[i] < sig

\* As low as a goes in the management area, b goes as well.
Low(a, b) ==
  \A i \in LBlocks : a[i] >= MgmtStart =>
    \E k \in LBlocks : MgmtStart <= b[k] /\ b[k] <= a[i]

\* The table s is t or an earlier one.
Older(s, t) ==
  /\ s.wc <= t.wc
  /\ s.wc = t.wc => s = t
  /\ \A b \in Blocks : t.st[b] => s.st[b]
  /\ Low(s.map, t.map)

\* The table in block x has left no block in front of it that could be used.
Tight(f, bm, x) == \A c \in MgmtStart .. x - 1 : c \in bm \/ ~f[x].st[c]

TablesFit(f, bm, sig) ==
  \A s, t \in Tabs(f, bm) :
    /\ s + 1 < sig /\ f[s].st[t]
    /\ MapFits(f[s].map, t + 1, sig)
    /\ Older(f[s], f[t]) \/ Older(f[t], f[s])
    /\ s < t => Tight(f, bm, s)

\* A new chip, or one with a signature and up to two tables.
DiskOK(f, bm) ==
  \/ Signs(f, bm) = {} /\ Tabs(f, bm) = {}
  \/ /\ \E sig \in Blocks : Signs(f, bm) = {sig} /\ TablesFit(f, bm, sig)
     /\ \E x, y \in Area : Tabs(f, bm) \subseteq {x, y}

-----------------------------------------------------------------------------
(* The memory, and what the flash holds at each step. *)

\* The table in t is one the memory has outgrown, at most.
Fits(f, n, t) ==
  /\ t < n.top /\ n.st[t] /\ f[t].wc <= n.wc
  /\ \A b \in Blocks : n.st[b] => f[t].st[b]
  /\ MapFits(f[t].map, n.top, n.sig)
  /\ Low(f[t].map, n.map)

Covers(f, bm, n) ==
  /\ Signs(f, bm) = {n.sig}
  /\ n.top < n.sig
  /\ MapFits(n.map, n.top, n.sig)
  /\ \A t \in Tabs(f, bm) : Fits(f, n, t)

\* The order of the tables and the pool.
Ordered(n) ==
  /\ MgmtStart < n.mba /\ n.mba <= n.top
  /\ n.main # None => MgmtStart <= n.main /\ n.main < n.mba
  /\ n.backup # None => n.main # None /\ n.main < n.backup /\ n.backup < n.mba

\* The block mtk_bmt_block_markbad is going to mark is no longer in use.
OldSafe(n, p) ==
  p.mark => p.old < MgmtStart \/ (n.top < p.old /\ p.old < n.sig)

\* What the table t takes for good and the memory does not is marked bad.
KnowsBad(bm, n, t) == \A b \in Blocks : t.st[b] /\ ~n.st[b] => b \in bm

CacheReady(f, bm, n) ==
  /\ n.cache.wc = n.wc /\ n.cache.map = n.map
  /\ \A b \in Blocks : n.st[b] => n.cache.st[b]
  /\ KnowsBad(bm, n, n.cache)
  /\ \A t \in Tabs(f, bm) : Older(f[t], n.cache)

\* No block from the management area up to b can be used.
UsedUp(bm, n, b) == \A c \in MgmtStart .. b - 1 : c \in bm \/ ~n.st[c]

SameMaps(f, bm) == \A s, t \in Tabs(f, bm) : f[s].map = f[t].map
Synced(f, bm, n) == \A t \in Tabs(f, bm) : f[t].map = n.map

\* The table in block b is being replaced.
Replaces(f, bm, p, b) ==
  /\ b # None /\ b <= p.ba
  /\ b \in Tabs(f, bm) => p.ba = b /\ ~p.prog

AtUpdateBackup(f, bm, n, p) ==
  /\ n.main \in Tabs(f, bm) /\ Tabs(f, bm) \subseteq {n.main, n.backup}
  /\ Tight(f, bm, n.main)
  /\ Replaces(f, bm, p, n.backup) /\ p.limit = n.top
  /\ SameMaps(f, bm)
  /\ p.ret \in Updates

AtUpdateMain(f, bm, n, p) ==
  /\ Tabs(f, bm) \subseteq {n.main, n.backup}
  /\ Replaces(f, bm, p, n.main) /\ UsedUp(bm, n, p.ba)
  /\ p.limit = IF n.backup = None THEN n.top ELSE n.backup
  /\ n.backup # None => n.backup \in Tabs(f, bm) /\ f[n.backup] = n.cache
  /\ p.ret \in Updates

AtRebuildMain(f, bm, n, p) ==
  /\ Tabs(f, bm) = {} /\ n.main = None /\ n.backup = None
  /\ MgmtStart <= p.ba /\ UsedUp(bm, n, p.ba) /\ p.limit = n.top
  /\ p.ret # "load"

AtRebuildBackup(f, bm, n, p) ==
  /\ Tabs(f, bm) = {n.main} /\ n.backup = None
  /\ Tight(f, bm, n.main) /\ Synced(f, bm, n)
  /\ p.tmp = n.main + 1 /\ p.tmp <= p.ba /\ p.limit = n.top
  /\ p.ret # "load"

AtEraseBetween(f, bm, n, p) ==
  /\ Tabs(f, bm) = {n.main, n.backup} /\ n.backup # None /\ Synced(f, bm, n)
  /\ n.main < p.ba /\ p.limit = n.backup

AtRescueFront(f, bm, n, p) ==
  /\ Tabs(f, bm) = {n.main} /\ n.backup = None /\ Synced(f, bm, n)
  /\ MgmtStart <= p.ba /\ UsedUp(bm, n, p.ba) /\ p.limit = n.main
  /\ \A c \in MgmtStart .. n.main - 1 : f[n.main].st[c] /\ ~n.st[c] => c \in bm
  /\ p.ret = "load"

AtRescueBehind(f, bm, n, p) ==
  /\ Tabs(f, bm) = {n.main} /\ n.backup = None /\ Synced(f, bm, n)
  /\ Tight(f, bm, n.main)
  /\ n.mba <= p.wba /\ p.wba <= p.ba /\ p.limit = n.top
  /\ p.ret = "load"

AtEraseBehind(f, bm, n, p) ==
  /\ Tabs(f, bm) = {n.main, p.tmp} /\ n.backup = None /\ Synced(f, bm, n)
  /\ n.mba <= p.ba /\ n.mba <= p.tmp /\ p.limit = p.tmp
  /\ p.ret = "load"

AtSingleMain(f, bm, n, p) ==
  /\ n.backup \in Tabs(f, bm) /\ Tabs(f, bm) \subseteq {n.main, n.backup}
  /\ Replaces(f, bm, p, n.main) /\ UsedUp(bm, n, p.ba) /\ p.limit = n.backup
  /\ f[n.backup].map = n.map /\ KnowsBad(bm, n, f[n.backup])
  /\ n.main \in Tabs(f, bm) => f[n.main].wc < f[n.backup].wc
  /\ p.ret = "load"

AtSingleBackup(f, bm, n, p) ==
  /\ n.main \in Tabs(f, bm) /\ Tabs(f, bm) \subseteq {n.main, n.backup}
  /\ Tight(f, bm, n.main)
  /\ Replaces(f, bm, p, n.backup) /\ p.limit = n.top
  /\ f[n.main].map = n.map
  /\ n.backup \in Tabs(f, bm) => f[n.backup].wc < f[n.main].wc
  /\ p.ret = "load"

AtRescueTmp(f, bm, n, p) ==
  /\ Tabs(f, bm) = {n.backup} /\ Synced(f, bm, n) /\ n.backup # None
  /\ UsedUp(bm, n, n.backup) /\ Tight(f, bm, n.backup)
  /\ n.mba <= p.wba /\ p.wba <= p.ba /\ p.limit = n.top
  /\ p.ret \in Updates

AtRescueMain(f, bm, n, p) ==
  /\ p.tmp \in Tabs(f, bm) /\ Tabs(f, bm) \subseteq {n.backup, p.tmp}
  /\ Synced(f, bm, n) /\ f[p.tmp] = n.cache
  /\ n.backup # None /\ n.backup < p.tmp /\ n.mba = p.tmp + 1
  /\ UsedUp(bm, n, n.backup)
  /\ n.backup \in Tabs(f, bm) => p.ba <= n.backup /\ ~p.prog
  /\ MgmtStart <= p.ba /\ UsedUp(bm, n, p.ba) /\ p.limit = p.tmp
  /\ p.ret \in Updates

Site(f, bm, n, p) ==
  /\ p.at = "update_backup"  => AtUpdateBackup(f, bm, n, p)
  /\ p.at = "update_main"    => AtUpdateMain(f, bm, n, p)
  /\ p.at = "rebuild_main"   => AtRebuildMain(f, bm, n, p)
  /\ p.at = "rebuild_backup" => AtRebuildBackup(f, bm, n, p)
  /\ p.at = "erase_rebuild"  => AtEraseBetween(f, bm, n, p) /\ p.ret # "load"
  /\ p.at = "erase_front"    => AtEraseBetween(f, bm, n, p) /\ p.ret = "load"
  /\ p.at = "rescue_front"   => AtRescueFront(f, bm, n, p)
  /\ p.at = "rescue_behind"  => AtRescueBehind(f, bm, n, p)
  /\ p.at = "erase_behind"   => AtEraseBehind(f, bm, n, p)
  /\ p.at = "single_main"    => AtSingleMain(f, bm, n, p)
  /\ p.at = "single_backup"  => AtSingleBackup(f, bm, n, p)
  /\ p.at = "rescue_tmp"     => AtRescueTmp(f, bm, n, p)
  /\ p.at = "rescue_main"    => AtRescueMain(f, bm, n, p)

TableSites == (Writers \union Erasers) \ {"signature"}
RestSites  == {"idle", "return", "create_map", "remap_erase", "remap_copy"}

Writing(f, bm, n, p) ==
  /\ CacheReady(f, bm, n)
  /\ p.prog => p.ba \notin Tabs(f, bm) /\ p.ba \notin bm /\ n.st[p.ba]
  /\ Site(f, bm, n, p)
  /\ ~n.protected /\ p.ok
  /\ p.ret \notin Updates => ~p.mark

Resting(f, bm, n, p) ==
  /\ Tabs(f, bm) \subseteq {n.main, n.backup}
  /\ SameMaps(f, bm)
  /\ ~n.protected => n.main \in Tabs(f, bm)
  /\ n.main \in Tabs(f, bm) => Tight(f, bm, n.main)
  /\ p.at = "idle" /\ ~n.protected => Synced(f, bm, n)
  /\ p.at = "return" /\ p.ret \in Updates =>
       (p.ok \/ n.protected) /\ (~n.protected /\ ~n.dirty => Synced(f, bm, n))
  /\ p.at = "return" /\ p.ret \notin Updates =>
       ~p.mark /\ (p.ok => ~n.protected /\ Synced(f, bm, n))
  /\ p.at = "create_map" => ~n.protected /\ (~n.dirty => Synced(f, bm, n))
  /\ p.at \in {"remap_erase", "remap_copy"} => n.dirty

\* Before the signature is written.
Unsigned(f, bm, n, p) ==
  /\ Signs(f, bm) = {} /\ Tabs(f, bm) = {}
  /\ MapFits(n.map, NB, NB) /\ p.limit = MgmtStart
  /\ p.prog => p.ba \notin bm
  /\ ~n.protected /\ ~p.mark /\ p.ok

Fine(f, bm, n, p) ==
  /\ p.at = "signature" => Unsigned(f, bm, n, p)
  /\ p.at \in TableSites \union RestSites =>
       Covers(f, bm, n) /\ Ordered(n) /\ OldSafe(n, p)
  /\ p.at \in TableSites => Writing(f, bm, n, p)
  /\ p.at \in RestSites => Resting(f, bm, n, p)

Inv == DiskOK(flash, badmark) /\ Fine(flash, badmark, ni, pc)

-----------------------------------------------------------------------------
(* The constants and the setting. *)

\* The constants, for the provers.
LEMMA Sizes ==
  /\ NB \in Nat /\ MgmtStart \in Nat /\ MgmtStart > 0 /\ NB > MgmtStart
  /\ SpareBlocks \in Nat /\ MaxVersion \in Nat
  /\ 0 \in Blocks /\ 0 \in LBlocks /\ MgmtStart \in Blocks /\ NB - 1 \in Blocks
  /\ LBlocks \subseteq Blocks /\ Blocks \subseteq Nat /\ Area \subseteq Blocks
  /\ None = 0 /\ Unmapped = -1
BY NmbmAssumption DEF Blocks, LBlocks, Area, None, Unmapped

EnvOK(e) ==
  \E s \in Settings :
    \E f \in 0 .. s.faults, c \in 0 .. s.crashes : e = Left(s, f, c)

\* env is one of the settings with fewer failures and power losses to come.
LEMMA EnvLater ==
  ASSUME NEW e, EnvOK(e)
  PROVE  /\ e.fail \subseteq Blocks /\ e.faults \in Nat /\ e.crashes \in Nat
         /\ e.faults > 0 => EnvOK([e EXCEPT !.faults = @ - 1])
         /\ e.crashes > 0 => EnvOK([e EXCEPT !.crashes = @ - 1])
<1>1. PICK s \in Settings :
        \E f \in 0 .. s.faults, c \in 0 .. s.crashes : e = Left(s, f, c)
  BY DEF EnvOK
<1>2. s \in SettingRecords
  BY <1>1, NmbmAssumption
<1>3. PICK f \in 0 .. s.faults, c \in 0 .. s.crashes : e = Left(s, f, c)
  BY <1>1
<1>4. s.faults \in Nat /\ s.crashes \in Nat /\ s.fail \subseteq Blocks
  BY <1>2 DEF SettingRecords
<1>5. e.fail = s.fail /\ e.faults = f /\ e.crashes = c
  BY <1>2, <1>3 DEF SettingRecords, Left
<1>6. ASSUME e.faults > 0 PROVE EnvOK([e EXCEPT !.faults = @ - 1])
  <2>1. f - 1 \in 0 .. s.faults
    BY <1>4, <1>5, <1>6
  <2>2. [e EXCEPT !.faults = @ - 1] = Left(s, f - 1, c)
    BY <1>2, <1>3 DEF SettingRecords, Left
  <2> QED BY <2>1, <2>2 DEF EnvOK
<1>7. ASSUME e.crashes > 0 PROVE EnvOK([e EXCEPT !.crashes = @ - 1])
  <2>1. c - 1 \in 0 .. s.crashes
    BY <1>4, <1>5, <1>7
  <2>2. [e EXCEPT !.crashes = @ - 1] = Left(s, f, c - 1)
    BY <1>2, <1>3 DEF SettingRecords, Left
  <2> QED BY <2>1, <2>2 DEF EnvOK
<1> QED BY <1>4, <1>5, <1>6, <1>7

\* At first all failures and power losses are still to come.
LEMMA EnvFirst ==
  ASSUME NEW s \in Settings
  PROVE  EnvOK([s EXCEPT !.bad = {}])
<1>1. s \in SettingRecords
  BY NmbmAssumption
<1>2. s.faults \in 0 .. s.faults /\ s.crashes \in 0 .. s.crashes
  BY <1>1 DEF SettingRecords
<1>3. [s EXCEPT !.bad = {}] = Left(s, s.faults, s.crashes)
  BY <1>1 DEF SettingRecords, Left
<1> QED BY <1>2, <1>3 DEF EnvOK

-----------------------------------------------------------------------------
(* What the walks over the block state table find. *)

\* The good blocks of a range are a finite set of numbers.
LEMMA GoodFinite ==
  ASSUME NEW n, NEW lo \in Nat, NEW hi \in Int
  PROVE  /\ Good(n, lo, hi) \in SUBSET Nat /\ Good(n, lo, hi) \in SUBSET Int
         /\ IsFiniteSet(Good(n, lo, hi)) /\ Cardinality(Good(n, lo, hi)) \in Nat
         /\ \A b \in Good(n, lo, hi) : lo <= b /\ b <= hi /\ n.st[b]
<1>1. Good(n, lo, hi) \subseteq lo .. hi /\ \A b \in Good(n, lo, hi) : n.st[b]
  BY DEF Good
<1>2. IsFiniteSet(lo .. hi)
  BY FS_Interval
<1>3. IsFiniteSet(Good(n, lo, hi))
  BY <1>1, <1>2, FS_Subset
<1>4. Cardinality(Good(n, lo, hi)) \in Nat
  BY <1>3, FS_CardinalityType
<1>5. \A b \in lo .. hi : b \in Nat /\ lo <= b /\ b <= hi
  OBVIOUS
<1> QED BY <1>1, <1>3, <1>4, <1>5

\* nmbm_block_walk_desc finds a good block above the limit, below ba if it skips one.
LEMMA WalkFound ==
  ASSUME NEW n, NEW ba \in Int, NEW count \in Nat, NEW limit \in Nat,
         NEW r, r = WalkDesc(n, ba, count, limit)
  PROVE  r = None \/ (/\ r \in Nat /\ limit < r /\ r <= ba /\ n.st[r]
                      /\ count > 0 => r < ba)
<1> DEFINE G == Good(n, limit + 1, ba)
           k == Cardinality(G) - 1 - count
<1>1. /\ G \in SUBSET Int /\ G \in SUBSET Nat /\ IsFiniteSet(G) /\ Cardinality(G) \in Nat
      /\ \A b \in G : limit + 1 <= b /\ b <= ba /\ n.st[b]
  <2>1. limit + 1 \in Nat
    OBVIOUS
  <2> QED BY <2>1, GoodFinite
<1>2. r = IF Cardinality(G) > count THEN Nth(G, k) ELSE None
  BY DEF WalkDesc
<1> HIDE DEF G
<1>3. CASE Cardinality(G) > count
  <2>1. k \in Nat /\ k < Cardinality(G)
    BY <1>1, <1>3
  <2>2. r = Nth(G, k)
    BY <1>2, <1>3
  <2>3. r \in G /\ Below(G, r) = k
    BY <1>1, <2>1, <2>2, NthFound
  <2>4. ASSUME count > 0 PROVE r < ba
    <3>1. k + 1 \in Nat /\ k < k + 1 /\ k + 1 < Cardinality(G)
      BY <1>1, <1>3, <2>1, <2>4
    <3>2. Nth(G, k) < Nth(G, k + 1)
      BY <1>1, <2>1, <3>1, NthIncreasing
    <3>3. Nth(G, k + 1) \in G
      BY <1>1, <3>1, NthFound
    <3>4. r \in Nat /\ Nth(G, k + 1) \in Nat /\ Nth(G, k + 1) <= ba
      BY <1>1, <2>3, <3>3
    <3>5. r < Nth(G, k + 1)
      BY <2>2, <3>2
    <3> HIDE DEF k
    <3> QED BY <3>4, <3>5
  <2> QED BY <1>1, <2>3, <2>4
<1> QED BY <1>2, <1>3

\* nmbm_try_reserve_blocks finds a block with room for one more below the top.
LEMMA ReserveFound ==
  ASSUME NEW n, NEW ba \in Nat, n.top \in Nat, NEW r, r = TryReserve(n, ba)
  PROVE  r = None \/ (r \in Nat /\ ba <= r /\ r + 2 <= n.top)
<1> DEFINE G == Good(n, ba, n.top - 2)
           k == Min({SpareBlocks, Cardinality(G) - 1})
<1>1. /\ G \in SUBSET Int /\ G \in SUBSET Nat /\ IsFiniteSet(G) /\ Cardinality(G) \in Nat
      /\ \A b \in G : ba <= b /\ b <= n.top - 2
  <2>1. n.top - 2 \in Int
    OBVIOUS
  <2> QED BY <2>1, GoodFinite
<1>2. r = IF G = {} THEN None ELSE Nth(G, k)
  BY DEF TryReserve
<1> HIDE DEF G
<1>3. CASE G # {}
  <2>1. Cardinality(G) # 0
    BY <1>1, <1>3, FS_EmptySet
  <2>2. {SpareBlocks, Cardinality(G) - 1} \in SUBSET Nat
    BY <1>1, <2>1, Sizes
  <2>3. k \in {SpareBlocks, Cardinality(G) - 1} /\ k <= Cardinality(G) - 1
    BY <2>2, MinFound
  <2>4. k \in Nat /\ k < Cardinality(G)
    BY <1>1, <2>1, <2>2, <2>3
  <2>5. r \in G
    BY <1>1, <1>2, <1>3, <2>4, NthFound
  <2>6. r \in Nat /\ ba <= r /\ r <= n.top - 2
    BY <1>1, <2>5
  <2> QED BY <2>6
<1> QED BY <1>2, <1>3

\* nmbm_build_mapping_table maps the logic blocks in order to good blocks of the
\* data area.
LEMMA BuildMaps ==
  ASSUME NEW n \in Instances
  PROVE  LET m == BuildMapping(n)
         IN  /\ m \in Instances
             /\ m.st = n.st /\ m.main = n.main /\ m.backup = n.backup /\ m.sig = n.sig
             /\ m.mba = n.mba /\ m.top = n.top /\ m.wc = n.wc /\ m.cache = n.cache
             /\ m.dirty = n.dirty /\ m.protected = n.protected
             /\ MapFits(m.map, NB, NB)
<1> DEFINE G == Good(n, 0, MgmtStart - 1)
           c == Cardinality(G)
           map == [lb \in LBlocks |-> IF lb < c THEN Nth(G, lb) ELSE Unmapped]
           m == BuildMapping(n)
<1>1. /\ G \in SUBSET Int /\ G \in SUBSET Nat /\ IsFiniteSet(G) /\ c \in Nat
      /\ \A b \in G : 0 <= b /\ b <= MgmtStart - 1
  <2>1. MgmtStart - 1 \in Int /\ 0 \in Nat
    BY Sizes
  <2> QED BY <2>1, GoodFinite
<1>2. m = [n EXCEPT !.dcount = c, !.map = map]
  BY DEF BuildMapping
<1>3. c <= MgmtStart
  <2>1. G \subseteq 0 .. MgmtStart - 1
    BY <1>1
  <2>2. /\ IsFiniteSet(0 .. MgmtStart - 1)
        /\ Cardinality(0 .. MgmtStart - 1) = IF 0 > MgmtStart - 1 THEN 0 ELSE MgmtStart - 1 - 0 + 1
    <3>1. MgmtStart - 1 \in Int /\ 0 \in Int
      BY Sizes
    <3> QED BY <3>1, FS_Interval
  <2>3. Cardinality(0 .. MgmtStart - 1) = MgmtStart
    BY <2>2, Sizes
  <2>4. c <= Cardinality(0 .. MgmtStart - 1)
    <3> HIDE DEF G
    <3> QED BY <2>1, <2>2, FS_Subset
  <2> QED BY <2>3, <2>4
<1> HIDE DEF G, c, m
<1>4. ASSUME NEW lb \in LBlocks, lb < c PROVE Nth(G, lb) \in G
  <2>1. lb \in Nat /\ lb < Cardinality(G)
    BY <1>4, Sizes DEF c
  <2> QED BY <1>1, <2>1, NthFound
<1>5. ASSUME NEW lb \in LBlocks
      PROVE  /\ map[lb] \in Blocks \union {Unmapped}
             /\ map[lb] < MgmtStart
             /\ map[lb] # Unmapped => lb < c /\ map[lb] = Nth(G, lb)
  <2>1. CASE lb < c
    <3>1. Nth(G, lb) \in Nat /\ Nth(G, lb) <= MgmtStart - 1
      BY <1>1, <1>4, <2>1
    <3> QED BY <2>1, <3>1, Sizes DEF Blocks
  <2>2. CASE ~(lb < c)
    BY <2>2, Sizes
  <2> QED BY <2>1, <2>2
<1>6. map \in Mappings
  <2>1. \A lb \in LBlocks : map[lb] \in Blocks \union {Unmapped}
    BY <1>5
  <2> QED BY <2>1 DEF Mappings
<1>7. c \in 0 .. MgmtStart
  BY <1>1, <1>3
<1>8. ASSUME NEW i \in LBlocks, NEW j \in LBlocks, map[i] # Unmapped, map[i] = map[j]
      PROVE  i = j
  <2>1. i < c /\ j < c /\ Nth(G, i) = Nth(G, j)
    BY <1>5, <1>8
  <2>2. i \in Nat /\ j \in Nat /\ i < Cardinality(G) /\ j < Cardinality(G)
    BY <2>1, Sizes DEF c
  <2>3. Nth(G, i) \in G /\ Below(G, Nth(G, i)) = i
    BY <1>1, <2>2, NthFound
  <2>4. Below(G, Nth(G, j)) = j
    BY <1>1, <2>2, NthFound
  <2> QED BY <2>1, <2>3, <2>4
<1>9. MapFits(map, NB, NB)
  <2>1. \A i \in LBlocks : ~(map[i] >= MgmtStart)
    <3>1. \A i \in LBlocks : map[i] \in Int
      <4>1. \A b \in Blocks \union {Unmapped} : b \in Int
        BY Sizes
      <4> HIDE DEF map
      <4> QED BY <1>5, <4>1
    <3> QED BY <1>5, <3>1, Sizes
  <2> QED BY <1>8, <2>1 DEF MapFits
<1> HIDE DEF map
<1>10. m.map = map
  BY <1>2 DEF Instances
<1>11. m \in Instances /\ m.st = n.st /\ m.main = n.main /\ m.backup = n.backup /\ m.sig = n.sig
       /\ m.mba = n.mba /\ m.top = n.top /\ m.wc = n.wc /\ m.cache = n.cache
       /\ m.dirty = n.dirty /\ m.protected = n.protected
  BY <1>2, <1>6, <1>7 DEF Instances
<1> QED BY <1>9, <1>10, <1>11 DEF m

-----------------------------------------------------------------------------
(* The functions of the driver, one result after the other. *)

\* What follows a range without a block for the table.
LEMMA FailedNext ==
  ASSUME NEW n, NEW p
  PROVE  /\ p.at = "update_backup" =>
              WriteNext(n, p, FALSE, None) =
                WriteMain([n EXCEPT !.mba = n.backup, !.backup = None], p, n.top)
         /\ p.at = "update_main" =>
              WriteNext(n, p, FALSE, None) =
                IF n.backup = None THEN RebuildInfoTable(n, p) ELSE RescueMain(n, p)
         /\ p.at = "rebuild_main" =>
              WriteNext(n, p, FALSE, None) = Return([n EXCEPT !.protected = TRUE], p, FALSE)
         /\ p.at = "rebuild_backup" =>
              WriteNext(n, p, FALSE, None) = Return(n, p, TRUE)
         /\ p.at = "rescue_front" =>
              LET r == TryReserve(n, n.mba)
              IN  WriteNext(n, p, FALSE, None) =
                    IF r = None THEN Return(n, p, FALSE) ELSE WriteBehind(n, p, "rescue_behind", r)
         /\ p.at = "rescue_behind" =>
              WriteNext(n, p, FALSE, None) =
                IF p.wba > n.mba THEN WriteBehind(n, p, "rescue_behind", p.wba - 1)
                ELSE Return(n, p, FALSE)
         /\ p.at = "single_main" =>
              WriteNext(n, p, FALSE, None) =
                RescueSingle([n EXCEPT !.main = n.backup, !.backup = None], p)
         /\ p.at = "single_backup" =>
              WriteNext(n, p, FALSE, None) =
                Return([n EXCEPT !.mba = n.backup, !.backup = None], p, FALSE)
         /\ p.at = "rescue_tmp" =>
              WriteNext(n, p, FALSE, None) =
                IF p.wba > n.mba THEN WriteBehind(n, p, "rescue_tmp", p.wba - 1)
                ELSE Return(BackupBecomesMain(n), p, TRUE)
         /\ p.at = "rescue_main" =>
              WriteNext(n, p, FALSE, None) =
                Return(Clean([n EXCEPT !.main = p.tmp, !.backup = None]), p, TRUE)
         /\ p.at = "signature" =>
              WriteNext(n, p, FALSE, None) = Step(n, Rest("dead"))
BY DEF WriteNext, UpdateOnceNext, RebuildNext, RescueSingleNext, UpdateSingleNext,
       RescueMainNext, SignatureNext

\* A place with nothing under way.
LEMMA RestIs ==
  ASSUME NEW site \in Sites
  PROVE  /\ Rest(site) \in Places /\ Rest(site).at = site
         /\ ~Rest(site).prog /\ Rest(site).ok /\ ~Rest(site).mark
         /\ Rest(site).ret = "load"
BY Sizes DEF Rest, Places, Updates

SameCaller(q, p) ==
  /\ q.ret = p.ret /\ q.lb = p.lb /\ q.old = p.old /\ q.copy = p.copy /\ q.mark = p.mark

\* A call of nmbm_write_info_table or nmbm_erase_range.
LEMMA WriteIs ==
  ASSUME NEW n, NEW p \in Places, NEW site \in Sites, NEW ba \in 0 .. NB, NEW limit \in Blocks
  PROVE  LET s == Write(n, p, site, ba, limit)
         IN  /\ s.ni = n /\ s.pc \in Places
             /\ s.pc.at = site /\ s.pc.ba = ba /\ s.pc.limit = limit /\ ~s.pc.prog
             /\ s.pc.wba = p.wba /\ s.pc.tmp = p.tmp /\ s.pc.ok = p.ok
             /\ SameCaller(s.pc, p)
BY DEF Write, Step, Places, SameCaller

\* nmbm_write_info_table behind wba: where it starts, and that it leaves the instance alone.
LEMMA WriteBehindIs ==
  ASSUME NEW n, NEW p \in Places, NEW site \in Sites, NEW wba \in Blocks, n.top \in Blocks
  PROVE  LET s == WriteBehind(n, p, site, wba)
         IN  /\ s.ni = n /\ s.pc \in Places
             /\ s.pc.at = site /\ s.pc.ba = wba /\ s.pc.limit = n.top /\ ~s.pc.prog
             /\ s.pc.wba = wba /\ s.pc.tmp = p.tmp /\ s.pc.ok = p.ok
             /\ SameCaller(s.pc, p)
<1> DEFINE q == [p EXCEPT !.wba = wba, !.at = site, !.ba = wba, !.limit = n.top, !.prog = FALSE]
<1>1. WriteBehind(n, p, site, wba).ni = n /\ WriteBehind(n, p, site, wba).pc = q
  BY DEF WriteBehind, Write, Step, Places
<1>2. wba \in 0 .. NB
  BY Sizes DEF Blocks
<1>3. q \in Places
  BY <1>2 DEF Places
<1>4. /\ q.at = site /\ q.ba = wba /\ q.limit = n.top /\ ~q.prog
      /\ q.wba = wba /\ q.tmp = p.tmp /\ q.ok = p.ok /\ SameCaller(q, p)
  BY DEF Places, SameCaller
<1> HIDE DEF q
<1> QED BY <1>1, <1>3, <1>4

\* The function that writes tables returns.
LEMMA ReturnIs ==
  ASSUME NEW n, NEW p \in Places, NEW ok \in BOOLEAN
  PROVE  LET s == Return(n, p, ok)
         IN  /\ s.ni = n /\ s.pc \in Places
             /\ s.pc.at = "return" /\ s.pc.ok = ok /\ ~s.pc.prog
             /\ SameCaller(s.pc, p)
<1> DEFINE q == [p EXCEPT !.at = "return", !.ba = 0, !.limit = 0, !.prog = FALSE,
                          !.wba = 0, !.tmp = 0, !.ok = ok]
<1>1. Return(n, p, ok).ni = n /\ Return(n, p, ok).pc = q
  BY DEF Return, Step
<1>2. 0 \in 0 .. NB /\ 0 \in Blocks /\ "return" \in Sites
  BY Sizes DEF Sites
<1>3. q \in Places
  BY <1>2 DEF Places
<1>4. q.at = "return" /\ q.ok = ok /\ ~q.prog /\ SameCaller(q, p)
  BY DEF Places, SameCaller
<1> HIDE DEF q
<1> QED BY <1>1, <1>3, <1>4

-----------------------------------------------------------------------------
(* The instance after an assignment. *)

\* m differs from n in the places of the tables only.
SameCore(m, n) ==
  /\ m.st = n.st /\ m.map = n.map /\ m.wc = n.wc /\ m.top = n.top /\ m.sig = n.sig
  /\ m.cache = n.cache /\ m.protected = n.protected

Moved(m, n, main, backup, mba) ==
  /\ m \in Instances /\ SameCore(m, n)
  /\ m.main = main /\ m.backup = backup /\ m.mba = mba

\* The assignments to main_table_ba, backup_table_ba and mapping_blocks_ba.
LEMMA Moves ==
  ASSUME NEW n \in Instances, NEW x \in Blocks, NEW y \in Blocks
  PROVE  /\ Moved(Clean([n EXCEPT !.backup = x, !.mba = y]), n, n.main, x, y)
         /\ Moved(Clean([n EXCEPT !.main = x, !.mba = IF n.backup = None THEN y ELSE @]), n,
                  x, n.backup, IF n.backup = None THEN y ELSE n.mba)
         /\ Moved(Clean([n EXCEPT !.main = x, !.mba = y]), n, x, n.backup, y)
         /\ Moved([n EXCEPT !.backup = x, !.mba = y], n, n.main, x, y)
         /\ Moved(Clean([n EXCEPT !.main = x, !.backup = n.main]), n, x, n.main, n.mba)
         /\ Moved(Clean([n EXCEPT !.main = x]), n, x, n.backup, n.mba)
         /\ Moved([n EXCEPT !.mba = y], n, n.main, n.backup, y)
         /\ Moved(Clean([n EXCEPT !.main = x, !.backup = y]), n, x, y, n.mba)
         /\ Moved(Clean([n EXCEPT !.main = x, !.backup = None]), n, x, None, n.mba)
         /\ Moved([n EXCEPT !.mba = n.backup, !.backup = None], n, n.main, None, n.backup)
         /\ Moved([n EXCEPT !.main = n.backup, !.backup = None], n, n.backup, None, n.mba)
         /\ Moved([n EXCEPT !.main = None, !.backup = None, !.mba = n.top], n, None, None, n.top)
<1>1. /\ Moved([n EXCEPT !.backup = x, !.mba = y], n, n.main, x, y)
      /\ Moved([n EXCEPT !.mba = y], n, n.main, n.backup, y)
      /\ Moved([n EXCEPT !.mba = n.backup, !.backup = None], n, n.main, None, n.backup)
      /\ Moved([n EXCEPT !.main = n.backup, !.backup = None], n, n.backup, None, n.mba)
      /\ Moved([n EXCEPT !.main = None, !.backup = None, !.mba = n.top], n, None, None, n.top)
  BY Sizes DEF Instances, Moved, SameCore
<1>2. /\ Moved(Clean([n EXCEPT !.backup = x, !.mba = y]), n, n.main, x, y)
      /\ Moved(Clean([n EXCEPT !.main = x, !.mba = IF n.backup = None THEN y ELSE @]), n,
               x, n.backup, IF n.backup = None THEN y ELSE n.mba)
      /\ Moved(Clean([n EXCEPT !.main = x, !.mba = y]), n, x, n.backup, y)
  BY Sizes DEF Instances, Moved, SameCore, Clean
<1>3. /\ Moved(Clean([n EXCEPT !.main = x, !.backup = n.main]), n, x, n.main, n.mba)
      /\ Moved(Clean([n EXCEPT !.main = x]), n, x, n.backup, n.mba)
      /\ Moved(Clean([n EXCEPT !.main = x, !.backup = y]), n, x, y, n.mba)
      /\ Moved(Clean([n EXCEPT !.main = x, !.backup = None]), n, x, None, n.mba)
  BY Sizes DEF Instances, Moved, SameCore, Clean
<1> QED BY <1>1, <1>2, <1>3

\* nmbm_set_block_state.
LEMMA SetBadIs ==
  ASSUME NEW n \in Instances, NEW S
  PROVE  LET m == SetBad(n, S)
         IN  /\ m \in Instances
             /\ \A b \in Blocks : m.st[b] <=> n.st[b] /\ b \notin S
             /\ m.map = n.map /\ m.wc = n.wc /\ m.top = n.top /\ m.sig = n.sig
             /\ m.cache = n.cache /\ m.main = n.main /\ m.backup = n.backup
             /\ m.mba = n.mba /\ m.protected = n.protected /\ m.dcount = n.dcount
             /\ n.dirty => m.dirty
<1> DEFINE st == [b \in Blocks |-> n.st[b] /\ b \notin S]
           d  == n.dirty \/ \E b \in S : n.st[b]
<1>1. SetBad(n, S) = [n EXCEPT !.st = st, !.dirty = d]
  BY DEF SetBad, Instances
<1>2. st \in GoodBlocks
  <2>1. \A b \in Blocks : n.st[b] \in BOOLEAN
    BY DEF Instances, GoodBlocks
  <2> QED BY <2>1 DEF GoodBlocks
<1>3. d \in BOOLEAN /\ (n.dirty => d)
  OBVIOUS
<1>4. \A b \in Blocks : st[b] <=> n.st[b] /\ b \notin S
  <2>1. \A b \in Blocks : n.st[b] \in BOOLEAN
    BY DEF Instances, GoodBlocks
  <2> QED BY <2>1
<1> HIDE DEF st, d
<1> QED BY <1>1, <1>2, <1>3, <1>4 DEF Instances

\* nmbm_generate_info_table_cache.
LEMMA GenCacheIs ==
  ASSUME NEW n \in Instances
  PROVE  LET m == GenCache(n)
         IN  /\ m \in Instances
             /\ m.st = n.st /\ m.map = n.map /\ m.top = n.top /\ m.sig = n.sig
             /\ m.main = n.main /\ m.backup = n.backup /\ m.mba = n.mba
             /\ m.protected = n.protected /\ m.dcount = n.dcount /\ m.dirty = n.dirty
             /\ m.wc = IF n.dirty THEN n.wc + 1 ELSE n.wc
             /\ m.cache = Table(m.wc, n.map, n.st)
             /\ m.cache.wc = m.wc /\ m.cache.map = n.map /\ m.cache.st = n.st
<1> DEFINE wc == IF n.dirty THEN n.wc + 1 ELSE n.wc
<1>1. GenCache(n) = [n EXCEPT !.wc = wc, !.cache = Table(wc, n.map, n.st)]
  BY DEF GenCache
<1>2. wc \in Nat
  BY DEF Instances
<1> HIDE DEF wc
<1>3. Table(wc, n.map, n.st) \in Tables
  BY <1>2 DEF Table, Tables, Instances
<1>4. /\ Table(wc, n.map, n.st).wc = wc /\ Table(wc, n.map, n.st).map = n.map
      /\ Table(wc, n.map, n.st).st = n.st
  BY DEF Table
<1> QED BY <1>1, <1>2, <1>3, <1>4 DEF Instances, wc

\* The instance of a driver that is not attached.
LEMMA FreshIs ==
  /\ Fresh \in Instances
  /\ Fresh.st = [b \in Blocks |-> TRUE]
  /\ Fresh.main = None /\ Fresh.backup = None /\ ~Fresh.protected /\ Fresh.wc = 0
  /\ ~Fresh.dirty
<1>1. [b \in Blocks |-> TRUE] \in GoodBlocks /\ [lb \in LBlocks |-> Unmapped] \in Mappings
  BY DEF GoodBlocks, Mappings
<1>2. Table(0, [lb \in LBlocks |-> Unmapped], [b \in Blocks |-> TRUE]) \in Tables
  BY <1>1 DEF Table, Tables
<1>3. 0 \in 0 .. MgmtStart
  BY Sizes
<1> QED BY <1>1, <1>2, <1>3, Sizes DEF Fresh, Instances

-----------------------------------------------------------------------------
(* Types. *)

\* A block that is being programmed is one of the chip, and a table is not in the
\* last one.
InRange(p) ==
  /\ p.prog => p.at \in Writers
  /\ p.prog /\ p.at # "signature" => p.ba < p.limit
  /\ p.at = "signature" => p.ba \in Blocks
  /\ p.at = "erase_behind" => p.tmp + 1 \in Blocks

TypeInv == TypeOK /\ InRange(pc)

Typed(s) == s.ni \in Instances /\ s.pc \in Places /\ ~s.pc.prog /\ InRange(s.pc)

\* Starting to write a table is a well-typed step.
LEMMA WriteTyped ==
  ASSUME NEW n \in Instances, NEW p \in Places, NEW site \in Sites, NEW ba \in 0 .. NB,
         NEW limit \in Blocks,
         site = "signature" => ba \in Blocks, site = "erase_behind" => p.tmp + 1 \in Blocks
  PROVE  Typed(Write(n, p, site, ba, limit))
BY WriteIs DEF Typed, InRange

\* Returning from a table operation is a well-typed step.
LEMMA ReturnTyped ==
  ASSUME NEW n \in Instances, NEW p \in Places, NEW ok \in BOOLEAN
  PROVE  Typed(Return(n, p, ok))
BY ReturnIs DEF Typed, InRange

\* A step to a place between two operations of the flash is well typed.
LEMMA StepTyped ==
  ASSUME NEW n \in Instances, NEW p \in Places, ~p.prog, InRange(p)
  PROVE  Typed(Step(n, p)) /\ Step(n, p).ni = n /\ Step(n, p).pc = p
BY DEF Step, Typed

\* So is a step to a place where no table is being written.
LEMMA RestTyped ==
  ASSUME NEW n \in Instances, NEW site \in Sites \ {"signature", "erase_behind"}
  PROVE  Typed(Step(n, Rest(site)))
<1>1. Rest(site) \in Places /\ ~Rest(site).prog /\ InRange(Rest(site))
  BY RestIs DEF InRange
<1> QED BY <1>1, StepTyped

\* Blocks are addresses a write can begin at.
LEMMA BlockBounds ==
  /\ \A b \in Blocks : b \in 0 .. NB /\ b \in Nat /\ b >= 0
  /\ \A b \in Nat, c \in Blocks : b <= c => b \in Blocks
  /\ \A b \in Nat, c \in Blocks : b < c => b \in Blocks /\ b + 1 \in Blocks
  /\ \A b \in Blocks : b + 1 \in 0 .. NB
BY Sizes DEF Blocks

\* nmbm_rebuild_info_table starts in a well-typed state.
LEMMA RebuildTyped ==
  ASSUME NEW n \in Instances, NEW p \in Places
  PROVE  Typed(RebuildInfoTable(n, p))
<1> DEFINE m == [n EXCEPT !.main = None, !.backup = None, !.mba = n.top]
<1>1. m \in Instances
  BY Moves, Sizes DEF Moved
<1>2. RebuildInfoTable(n, p) = Write(m, p, "rebuild_main", MgmtStart, m.top)
  BY DEF RebuildInfoTable
<1>3. m.top \in Blocks /\ MgmtStart \in 0 .. NB /\ "rebuild_main" \in Sites
  BY <1>1, Sizes, BlockBounds DEF Instances, Sites, Writers
<1> HIDE DEF m
<1> QED BY <1>1, <1>2, <1>3, WriteTyped

\* So does the writing of the main table.
LEMMA WriteMainTyped ==
  ASSUME NEW n \in Instances, NEW p \in Places, NEW limit \in Blocks
  PROVE  Typed(WriteMain(n, p, limit))
<1>1. n.main \in 0 .. NB /\ "update_main" \in Sites
  BY BlockBounds DEF Instances, Sites, Writers
<1> QED BY <1>1, RebuildTyped, WriteTyped DEF WriteMain

\* nmbm_create_info_table.
LEMMA CreateTyped ==
  ASSUME NEW n \in Instances, NEW p \in Places
  PROVE  Typed(CreateInfoTable(n, p))
<1> DEFINE top == WalkDesc(n, n.sig, 1, MgmtStart)
           m == [n EXCEPT !.top = top]
           q == [p EXCEPT !.ret = "build"]
<1>1. n.sig \in Blocks /\ n.sig \in Nat
  BY Sizes DEF Instances
<1>2. top = None \/ (top \in Nat /\ top <= n.sig)
  <2>1. n.sig \in Int /\ 1 \in Nat /\ MgmtStart \in Nat
    BY <1>1, Sizes
  <2> QED BY <2>1, WalkFound
<1>3. CreateInfoTable(n, p) = IF top = None THEN Step(n, Rest("dead"))
                              ELSE RebuildInfoTable(GenCache(m), q)
  BY DEF CreateInfoTable
<1>4. CASE top = None
  <2>1. "dead" \in Sites
    BY DEF Sites
  <2> QED BY <1>3, <1>4, <2>1, RestTyped
<1>5. CASE top # None
  <2>1. top \in Blocks
    BY <1>1, <1>2, <1>5, BlockBounds
  <2>2. m \in Instances
    BY <2>1 DEF Instances
  <2>3. q \in Places
    BY DEF Places
  <2>4. GenCache(m) \in Instances
    BY <2>2, GenCacheIs
  <2> QED BY <1>3, <1>5, <2>3, <2>4, RebuildTyped
<1> QED BY <1>4, <1>5

\* So does the writing of a table behind wba.
LEMMA WriteBehindTyped ==
  ASSUME NEW n \in Instances, NEW p \in Places, NEW wba \in Blocks,
         NEW site \in {"rescue_behind", "rescue_tmp"}
  PROVE  Typed(WriteBehind(n, p, site, wba))
<1>1. site \in Sites /\ n.top \in Blocks
  BY DEF Instances, Sites, Writers
<1> QED BY <1>1, WriteBehindIs DEF Typed, InRange

\* So does nmbm_rescue_main_info_table.
LEMMA RescueMainTyped ==
  ASSUME NEW n \in Instances, NEW p \in Places
  PROVE  Typed(RescueMain(n, p))
<1> DEFINE r == TryReserve(n, n.mba)
<1>1. n.mba \in Nat /\ n.top \in Nat /\ n.top \in Blocks
  BY Sizes DEF Instances
<1>2. r = None \/ (r \in Nat /\ r + 2 <= n.top)
  BY <1>1, ReserveFound
<1>3. BackupBecomesMain(n) \in Instances
  BY Moves, Sizes DEF Moved, BackupBecomesMain
<1>4. RescueMain(n, p) = IF r = None THEN Return(BackupBecomesMain(n), p, TRUE)
                         ELSE WriteBehind(n, p, "rescue_tmp", r)
  BY DEF RescueMain
<1> HIDE DEF r
<1>5. r # None => r \in Blocks
  <2>1. r # None => r \in Nat /\ r < n.top
    BY <1>1, <1>2
  <2> QED BY <1>1, <2>1, BlockBounds
<1>6. r # None => Typed(WriteBehind(n, p, "rescue_tmp", r))
  BY <1>1, <1>5, WriteBehindTyped
<1> QED BY <1>3, <1>4, <1>6, ReturnTyped

\* Going on after a table has been written to the block ts.
LEMMA WrittenTyped ==
  ASSUME NEW n \in Instances, NEW p \in Places, p.at \in Writers, NEW ts \in Blocks,
         p.at # "signature" => ts + 1 \in Blocks
  PROVE  Typed(WriteNext(n, p, TRUE, ts))
<1> DEFINE s == WriteNext(n, p, TRUE, ts)
<1>1. /\ p.tmp \in Blocks /\ p.tmp \in 0 .. NB
      /\ n.main \in Blocks /\ n.mba \in 0 .. NB
      /\ n.top \in Blocks /\ MgmtStart \in 0 .. NB
  BY BlockBounds, Sizes DEF Instances, Places
<1>2. CASE p.at = "update_backup"
  <2> DEFINE m == Clean([n EXCEPT !.backup = ts, !.mba = ts + 1])
  <2>1. m \in Instances
    BY <1>2, Moves DEF Moved
  <2>2. s = WriteMain(m, p, ts)
    BY <1>2 DEF WriteNext, UpdateOnceNext
  <2> HIDE DEF m, s
  <2> QED BY <2>1, <2>2, WriteMainTyped DEF s
<1>3. CASE p.at = "update_main"
  <2> DEFINE m == Clean([n EXCEPT !.main = ts, !.mba = IF n.backup = None THEN ts + 1 ELSE @])
  <2>1. m \in Instances
    BY <1>3, Moves DEF Moved
  <2>2. s = Return(m, p, TRUE)
    BY <1>3 DEF WriteNext, UpdateOnceNext
  <2> HIDE DEF m, s
  <2> QED BY <2>1, <2>2, ReturnTyped DEF s
<1>4. CASE p.at = "rebuild_main"
  <2> DEFINE m == Clean([n EXCEPT !.main = ts, !.mba = ts + 1])
             r == TryReserve(m, ts + 1)
             q == [p EXCEPT !.tmp = ts + 1]
  <2>1. m \in Instances
    BY <1>4, Moves DEF Moved
  <2>2. s = IF r = None THEN Return(m, p, TRUE) ELSE Write(m, q, "rebuild_backup", r, m.top)
    BY <1>4 DEF WriteNext, RebuildNext
  <2>3. q \in Places
    BY <1>4 DEF Places
  <2> HIDE DEF m, s, q
  <2>4. m.top \in Blocks /\ m.top \in Nat /\ ts + 1 \in Nat
    <3>1. m.top \in Blocks
      BY <2>1 DEF Instances
    <3>2. ts \in Nat /\ m.top \in Nat
      BY <3>1, Sizes
    <3> QED BY <3>1, <3>2
  <2>5. r = None \/ (r \in Nat /\ r + 2 <= m.top)
    BY <2>4, ReserveFound
  <2> HIDE DEF r
  <2>6. r # None => r \in 0 .. NB
    <3>1. r # None => r \in Nat /\ r < m.top
      BY <2>4, <2>5
    <3> QED BY <2>4, <3>1, BlockBounds
  <2>7. "rebuild_backup" \in Sites
    BY DEF Sites, Writers
  <2>8. r # None => Typed(Write(m, q, "rebuild_backup", r, m.top))
    BY <2>1, <2>3, <2>4, <2>6, <2>7, WriteTyped
  <2> QED BY <2>1, <2>2, <2>8, ReturnTyped DEF s
<1>5. CASE p.at = "rebuild_backup"
  <2> DEFINE m == [n EXCEPT !.backup = ts, !.mba = ts + 1]
  <2>1. m \in Instances
    BY <1>5, Moves DEF Moved
  <2>2. s = Write(m, p, "erase_rebuild", p.tmp, ts)
    BY <1>5 DEF WriteNext, RebuildNext
  <2>3. "erase_rebuild" \in Sites
    BY DEF Sites, Erasers
  <2> HIDE DEF m, s
  <2> QED BY <1>1, <2>1, <2>2, <2>3, WriteTyped DEF s
<1>6. CASE p.at = "rescue_front"
  <2> DEFINE m == Clean([n EXCEPT !.main = ts, !.backup = n.main])
  <2>1. m \in Instances
    BY Moves DEF Moved
  <2>2. s = Write(m, p, "erase_front", ts + 1, n.main)
    BY <1>6 DEF WriteNext, RescueSingleNext
  <2>3. "erase_front" \in Sites
    BY DEF Sites, Erasers
  <2>4. ts + 1 \in 0 .. NB
    BY BlockBounds
  <2> HIDE DEF m, s
  <2> QED BY <1>1, <2>1, <2>2, <2>3, <2>4, WriteTyped DEF s
<1>7. CASE p.at = "rescue_behind"
  <2> DEFINE q == [p EXCEPT !.tmp = ts]
  <2>1. q \in Places /\ q.tmp = ts
    BY DEF Places
  <2>2. s = Write(n, q, "erase_behind", n.mba, ts)
    BY <1>7 DEF WriteNext, RescueSingleNext
  <2>3. "erase_behind" \in Sites
    BY DEF Sites, Erasers
  <2>4. q.tmp + 1 \in Blocks
    BY <1>7, <2>1
  <2> HIDE DEF q, s
  <2> QED BY <1>1, <2>1, <2>2, <2>3, <2>4, WriteTyped DEF s
<1>8. CASE p.at = "single_main"
  <2> DEFINE m == Clean([n EXCEPT !.main = ts])
  <2>1. m \in Instances
    BY Moves DEF Moved
  <2>2. s = Return(m, p, TRUE)
    BY <1>8 DEF WriteNext, UpdateSingleNext
  <2> HIDE DEF m, s
  <2> QED BY <2>1, <2>2, ReturnTyped DEF s
<1>9. CASE p.at = "single_backup"
  <2> DEFINE m == Clean([n EXCEPT !.backup = ts, !.mba = ts + 1])
  <2>1. m \in Instances
    BY <1>9, Moves DEF Moved
  <2>2. s = Return(m, p, TRUE)
    BY <1>9 DEF WriteNext, UpdateSingleNext
  <2> HIDE DEF m, s
  <2> QED BY <2>1, <2>2, ReturnTyped DEF s
<1>10. CASE p.at = "rescue_tmp"
  <2> DEFINE m == [n EXCEPT !.mba = ts + 1]
             q == [p EXCEPT !.tmp = ts]
  <2>1. m \in Instances
    BY <1>10, Moves DEF Moved
  <2>2. q \in Places
    BY DEF Places
  <2>3. s = Write(m, q, "rescue_main", MgmtStart, ts)
    BY <1>10 DEF WriteNext, RescueMainNext
  <2>4. "rescue_main" \in Sites
    BY DEF Sites, Writers
  <2> HIDE DEF m, s, q
  <2> QED BY <1>1, <2>1, <2>2, <2>3, <2>4, WriteTyped DEF s
<1>11. CASE p.at = "rescue_main"
  <2> DEFINE m == Clean([n EXCEPT !.main = ts, !.backup = p.tmp])
  <2>1. m \in Instances
    BY <1>1, Moves DEF Moved
  <2>2. s = Return(m, p, TRUE)
    BY <1>11 DEF WriteNext, RescueMainNext
  <2> HIDE DEF m, s
  <2> QED BY <2>1, <2>2, ReturnTyped DEF s
<1>12. CASE p.at = "signature"
  <2> DEFINE m == [n EXCEPT !.sig = ts]
  <2>1. m \in Instances
    BY DEF Instances
  <2>2. s = CreateInfoTable(m, p)
    BY <1>12 DEF WriteNext, SignatureNext
  <2> HIDE DEF m, s
  <2> QED BY <2>1, <2>2, CreateTyped DEF s
<1> QED BY <1>2, <1>3, <1>4, <1>5, <1>6, <1>7, <1>8, <1>9, <1>10, <1>11, <1>12 DEF Writers

\* nmbm_rescue_single_info_table.
LEMMA RescueSingleTyped ==
  ASSUME NEW n \in Instances, NEW p \in Places
  PROVE  Typed(RescueSingle(n, p))
<1>1. MgmtStart \in 0 .. NB /\ n.main \in Blocks /\ "rescue_front" \in Sites
  BY BlockBounds, Sizes DEF Instances, Sites, Writers
<1> QED BY <1>1, WriteTyped DEF RescueSingle

\* Going on after a range without a block for the table.
LEMMA FailedTyped ==
  ASSUME NEW n \in Instances, NEW p \in Places, p.at \in Writers
  PROVE  Typed(WriteNext(n, p, FALSE, None))
<1> DEFINE s == WriteNext(n, p, FALSE, None)
<1>1. /\ p.tmp \in Blocks /\ n.top \in Blocks /\ p.wba \in Blocks /\ n.mba \in Blocks
      /\ n.top \in Nat /\ p.wba \in Nat /\ n.mba \in Nat
  BY Sizes DEF Instances, Places
<1>2. CASE p.at = "update_backup"
  <2> DEFINE m == [n EXCEPT !.mba = n.backup, !.backup = None]
  <2>1. m \in Instances
    BY Moves, Sizes DEF Moved
  <2>2. s = WriteMain(m, p, n.top)
    BY <1>2, FailedNext
  <2> HIDE DEF m, s
  <2> QED BY <1>1, <2>1, <2>2, WriteMainTyped DEF s
<1>3. CASE p.at = "update_main"
  <2>1. s = IF n.backup = None THEN RebuildInfoTable(n, p) ELSE RescueMain(n, p)
    BY <1>3, FailedNext
  <2> HIDE DEF s
  <2> QED BY <2>1, RebuildTyped, RescueMainTyped DEF s
<1>4. CASE p.at = "rebuild_main"
  <2> DEFINE m == [n EXCEPT !.protected = TRUE]
  <2>1. m \in Instances
    BY DEF Instances
  <2>2. s = Return(m, p, FALSE)
    BY <1>4, FailedNext
  <2> HIDE DEF m, s
  <2> QED BY <2>1, <2>2, ReturnTyped DEF s
<1>5. CASE p.at = "rebuild_backup"
  <2>1. s = Return(n, p, TRUE)
    BY <1>5, FailedNext
  <2> QED BY <2>1, ReturnTyped
<1>6. CASE p.at = "rescue_front"
  <2> DEFINE r == TryReserve(n, n.mba)
  <2>1. s = IF r = None THEN Return(n, p, FALSE) ELSE WriteBehind(n, p, "rescue_behind", r)
    BY <1>6, FailedNext
  <2>2. r = None \/ (r \in Nat /\ r + 2 <= n.top)
    BY <1>1, ReserveFound
  <2> HIDE DEF r, s
  <2>3. r # None => r \in Blocks
    <3>1. r # None => r \in Nat /\ r < n.top
      BY <1>1, <2>2
    <3> QED BY <1>1, <3>1, BlockBounds
  <2> QED BY <2>1, <2>3, ReturnTyped, WriteBehindTyped DEF s
<1>7. CASE p.at = "rescue_behind"
  <2>1. s = IF p.wba > n.mba THEN WriteBehind(n, p, "rescue_behind", p.wba - 1)
            ELSE Return(n, p, FALSE)
    BY <1>7, FailedNext
  <2>2. p.wba > n.mba => p.wba - 1 \in Blocks
    <3>1. p.wba > n.mba => p.wba - 1 \in Nat /\ p.wba - 1 <= p.wba
      BY <1>1
    <3> QED BY <1>1, <3>1, BlockBounds
  <2> QED BY <2>1, <2>2, ReturnTyped, WriteBehindTyped
<1>8. CASE p.at = "single_main"
  <2> DEFINE m == [n EXCEPT !.main = n.backup, !.backup = None]
  <2>1. m \in Instances
    BY Moves, Sizes DEF Moved
  <2>2. s = RescueSingle(m, p)
    BY <1>8, FailedNext
  <2> HIDE DEF m, s
  <2> QED BY <2>1, <2>2, RescueSingleTyped DEF s
<1>9. CASE p.at = "single_backup"
  <2> DEFINE m == [n EXCEPT !.mba = n.backup, !.backup = None]
  <2>1. m \in Instances
    BY Moves, Sizes DEF Moved
  <2>2. s = Return(m, p, FALSE)
    BY <1>9, FailedNext
  <2> HIDE DEF m, s
  <2> QED BY <2>1, <2>2, ReturnTyped DEF s
<1>10. CASE p.at = "rescue_tmp"
  <2>1. s = IF p.wba > n.mba THEN WriteBehind(n, p, "rescue_tmp", p.wba - 1)
            ELSE Return(BackupBecomesMain(n), p, TRUE)
    BY <1>10, FailedNext
  <2>2. p.wba > n.mba => p.wba - 1 \in Blocks
    <3>1. p.wba > n.mba => p.wba - 1 \in Nat /\ p.wba - 1 <= p.wba
      BY <1>1
    <3> QED BY <1>1, <3>1, BlockBounds
  <2>3. BackupBecomesMain(n) \in Instances
    BY Moves, Sizes DEF Moved, BackupBecomesMain
  <2> QED BY <2>1, <2>2, <2>3, ReturnTyped, WriteBehindTyped
<1>11. CASE p.at = "rescue_main"
  <2> DEFINE m == Clean([n EXCEPT !.main = p.tmp, !.backup = None])
  <2>1. m \in Instances
    BY <1>1, Moves DEF Moved
  <2>2. s = Return(m, p, TRUE)
    BY <1>11, FailedNext
  <2> HIDE DEF m, s
  <2> QED BY <2>1, <2>2, ReturnTyped DEF s
<1>12. CASE p.at = "signature"
  <2>1. s = Step(n, Rest("dead"))
    BY <1>12, FailedNext
  <2>2. "dead" \in Sites \ {"signature", "erase_behind"}
    BY DEF Sites
  <2> QED BY <2>1, <2>2, RestTyped
<1> QED BY <1>2, <1>3, <1>4, <1>5, <1>6, <1>7, <1>8, <1>9, <1>10, <1>11, <1>12 DEF Writers

\* Where nmbm_write_mgmt_range, nmbm_write_signature and nmbm_erase_range look.
LEMMA ExtentIs ==
  ASSUME TypeInv, pc.at \in Writers \union Erasers
  PROVE  /\ Extent \subseteq Blocks
         /\ Usable # {} => Block \in Usable /\ Block \in Extent /\ Block \in Blocks
         /\ ~Down => \A b \in Extent : pc.ba <= b /\ b < pc.limit
         /\ ~Down => \A b \in Usable : Block <= b
         /\ Down => \A b \in Extent : pc.limit < b /\ b <= pc.ba
         /\ Down => \A b \in Usable : b <= Block
<1>1. pc.ba \in 0 .. NB /\ pc.limit \in Blocks /\ pc.limit \in Nat
  BY Sizes DEF TypeInv, TypeOK, Places
<1>2. ~Down => Extent = pc.ba .. pc.limit - 1 /\ Block = Min(Usable)
  BY DEF Down, Extent, Block
<1>3. Down => Extent = pc.limit + 1 .. pc.ba /\ pc.ba \in Blocks /\ Block = Max(Usable)
  BY DEF Down, Extent, TypeInv, InRange, Block
<1>4. Extent \subseteq Blocks
  BY <1>1, <1>2, <1>3, Sizes DEF Blocks
<1>5. ~Down => \A b \in Extent : pc.ba <= b /\ b < pc.limit
  BY <1>1, <1>2
<1>6. Down => \A b \in Extent : pc.limit < b /\ b <= pc.ba
  BY <1>1, <1>3
<1>7. Usable \subseteq Extent
  BY DEF Usable
<1>8. CASE Usable = {}
  BY <1>4, <1>5, <1>6, <1>8
<1>9. CASE Usable # {} /\ ~Down
  <2>1. Usable \in SUBSET Nat
    BY <1>4, <1>7, Sizes
  <2>2. Block \in Usable /\ \A b \in Usable : Block <= b
    BY <1>2, <1>9, <2>1, MinFound
  <2> QED BY <1>4, <1>5, <1>6, <1>7, <1>9, <2>2
<1>10. CASE Usable # {} /\ Down
  <2>1. Usable \in SUBSET (0 .. NB - 1) /\ NB - 1 \in Nat
    BY <1>4, <1>7, Sizes DEF Blocks
  <2>2. Block \in Usable /\ \A b \in Usable : Block >= b
    BY <1>3, <1>10, <2>1, MaxFound
  <2>3. \A b \in Usable : b \in Nat /\ Block \in Nat
    BY <1>4, <1>7, <2>2, Sizes
  <2>4. \A b \in Usable : b <= Block
    BY <2>2, <2>3
  <2> QED BY <1>4, <1>5, <1>6, <1>7, <1>10, <2>2, <2>4
<1> QED BY <1>8, <1>9, <1>10

\* Becoming a well-typed step gives a well-typed instance and place.
LEMMA BecomeTyped ==
  ASSUME NEW s, Typed(s), Become(s)
  PROVE  ni' \in Instances /\ pc' \in Places /\ InRange(pc')
BY DEF Typed, Become

\* Skipping a failed block keeps the type of the instance.
LEMMA SkippedIs ==
  ASSUME NEW n \in Instances
  PROVE  Skipped(n) \in Instances
BY SetBadIs DEF Skipped

\* The parts of the type invariant after a step.
LEMMA TypeParts ==
  ASSUME ni' \in Instances, pc' \in Places, InRange(pc'), flash' \in [Blocks -> Contents],
         badmark' \subseteq Blocks, want' \in [LBlocks -> 0 .. MaxVersion], EnvOK(env)'
  PROVE  TypeInv'
BY DEF TypeInv, TypeOK, EnvOK

\* ... and before it.
LEMMA TypeGives ==
  ASSUME TypeInv
  PROVE  /\ ni \in Instances /\ pc \in Places /\ InRange(pc)
         /\ flash \in [Blocks -> Contents] /\ badmark \subseteq Blocks
         /\ want \in [LBlocks -> 0 .. MaxVersion] /\ EnvOK(env)
BY DEF TypeInv, TypeOK, EnvOK

\* What can be stored in a block.
LEMMA ContentKinds ==
  /\ Erased \in Contents /\ Junk \in Contents /\ Signature \in Contents
  /\ \A t \in Tables : t \in Contents /\ t.kind = "table"
  /\ \A c \in Contents : c.kind = "table" => c \in Tables
  /\ \A lb \in LBlocks, v \in 0 .. MaxVersion : Data(lb, v) \in Contents
BY DEF Contents, Tables, Erased, Junk, Signature, Data

\* A block gets a new content.
LEMMA FlashTyped ==
  ASSUME flash \in [Blocks -> Contents], NEW b, NEW c \in Contents
  PROVE  [flash EXCEPT ![b] = c] \in [Blocks -> Contents]
OBVIOUS

\* Erasing a block keeps the types.
LEMMA TypeErase == TypeInv /\ EraseBlock => TypeInv'
<1> SUFFICES ASSUME TypeInv, EraseBlock PROVE TypeInv'
  OBVIOUS
<1>1. /\ pc.at \in Writers \union Erasers /\ Usable # {}
      /\ flash' = [flash EXCEPT ![Block] = Erased] /\ ni' = Skipped(ni)
      /\ pc' = IF pc.at \in Erasers THEN [pc EXCEPT !.ba = After(Block)]
               ELSE [pc EXCEPT !.ba = Block, !.prog = TRUE]
      /\ badmark' = badmark /\ want' = want /\ env' = env
  BY DEF EraseBlock
<1>2. Block \in Blocks /\ Block \in 0 .. NB /\ Block + 1 \in 0 .. NB
  BY <1>1, ExtentIs, BlockBounds
<1>3. CASE pc.at \in Erasers
  <2>1. ~Down
    BY <1>3 DEF Down, Erasers
  <2>2. pc' = [pc EXCEPT !.ba = Block + 1]
    BY <1>1, <1>3, <2>1 DEF After
  <2>3. pc' \in Places /\ pc'.at = pc.at /\ pc'.tmp = pc.tmp /\ pc'.prog = pc.prog
    BY <1>2, <2>2, TypeGives DEF Places
  <2>4. ~pc.prog /\ pc.at # "signature"
    BY <1>3, TypeGives DEF InRange, Erasers, Writers
  <2>5. InRange(pc')
    BY <2>3, <2>4, TypeGives DEF InRange
  <2> QED BY <1>1, <2>3, <2>5, TypeGives, TypeParts, SkippedIs, FlashTyped, ContentKinds DEF EnvOK
<1>4. CASE pc.at \notin Erasers
  <2>1. pc' = [pc EXCEPT !.ba = Block, !.prog = TRUE]
    BY <1>1, <1>4
  <2>2. /\ pc' \in Places /\ pc'.at = pc.at /\ pc'.tmp = pc.tmp /\ pc'.ba = Block
        /\ pc'.limit = pc.limit
    BY <1>2, <2>1, TypeGives DEF Places
  <2>3. pc.at \in Writers /\ pc.at # "erase_behind"
    BY <1>1, <1>4 DEF Erasers
  <2>4. pc.at # "signature" => Block < pc.limit
    BY <1>1, ExtentIs DEF Down
  <2>5. InRange(pc')
    BY <1>2, <2>2, <2>3, <2>4 DEF InRange
  <2> QED BY <1>1, <2>2, <2>5, TypeGives, TypeParts, SkippedIs, FlashTyped, ContentKinds DEF EnvOK
<1> QED BY <1>3, <1>4

\* Programming a block keeps the types.
LEMMA TypeProgram == TypeInv /\ ProgramBlock => TypeInv'
<1> SUFFICES ASSUME TypeInv, ProgramBlock PROVE TypeInv'
  OBVIOUS
<1>1. /\ pc.prog
      /\ flash' = [flash EXCEPT ![pc.ba] =
                     IF pc.at = "signature" THEN Signature ELSE ni.cache]
      /\ Become(WriteNext(ni, pc, TRUE, pc.ba))
      /\ badmark' = badmark /\ want' = want /\ env' = env
  BY DEF ProgramBlock
<1>2. ni.cache \in Contents
  BY TypeGives, ContentKinds DEF Instances
<1>3. pc.at \in Writers
  BY <1>1, TypeGives DEF InRange
<1>4. pc.ba \in Blocks /\ (pc.at # "signature" => pc.ba + 1 \in Blocks)
  <2>1. CASE pc.at = "signature"
    BY <2>1, TypeGives DEF InRange
  <2>2. CASE pc.at # "signature"
    <3>1. pc.ba < pc.limit
      BY <1>1, <2>2, TypeGives DEF InRange
    <3>2. pc.ba \in Nat /\ pc.limit \in Blocks
      BY TypeGives DEF Places
    <3> QED BY <3>1, <3>2, BlockBounds
  <2> QED BY <2>1, <2>2
<1>5. Typed(WriteNext(ni, pc, TRUE, pc.ba))
  BY <1>3, <1>4, TypeGives, WrittenTyped
<1>6. ni' \in Instances /\ pc' \in Places /\ InRange(pc')
  BY <1>1, <1>5, BecomeTyped
<1>7. flash' \in [Blocks -> Contents]
  BY <1>1, <1>2, TypeGives, FlashTyped, ContentKinds
<1> QED BY <1>1, <1>6, <1>7, TypeGives, TypeParts DEF EnvOK

\* A block that fails keeps the types.
LEMMA TypeFails == TypeInv /\ BlockFails => TypeInv'
<1> SUFFICES ASSUME TypeInv, BlockFails PROVE TypeInv'
  OBVIOUS
<1>1. /\ pc.at \in Writers \union Erasers /\ Usable # {} /\ MayFail(Block)
      /\ badmark' = badmark \union {Block} /\ ni' = SetBad(Skipped(ni), {Block})
      /\ pc' = [pc EXCEPT !.ba = After(Block), !.prog = FALSE]
      /\ want' = want /\ OneFault
  BY DEF BlockFails
<1>2. PICK c \in {flash[Block], Junk} : flash' = [flash EXCEPT ![Block] = c]
  BY DEF BlockFails
<1>3. Block \in Blocks /\ Block + 1 \in 0 .. NB
  BY <1>1, ExtentIs, BlockBounds
<1>4. flash' \in [Blocks -> Contents]
  <2>1. c \in Contents
    BY <1>3, TypeGives, ContentKinds
  <2> QED BY <1>2, <2>1, TypeGives, FlashTyped
<1>5. ni' \in Instances
  BY <1>1, TypeGives, SkippedIs, SetBadIs
<1>6. EnvOK(env)'
  <2>1. env.faults > 0 /\ env' = [env EXCEPT !.faults = @ - 1]
    BY <1>1 DEF MayFail, OneFault
  <2>2. EnvOK([env EXCEPT !.faults = @ - 1])
    BY <2>1, TypeGives, EnvLater
  <2> QED BY <2>1, <2>2 DEF EnvOK
<1>7. After(Block) \in 0 .. NB /\ (Down => After(Block) \in Blocks)
  <2>1. CASE ~Down
    BY <1>3, <2>1 DEF After
  <2>2. CASE Down
    <3>1. pc.limit < Block /\ pc.limit \in Nat /\ Block \in Nat
      BY <1>1, <1>3, <2>2, ExtentIs, TypeGives, Sizes DEF Places
    <3>2. After(Block) = Block - 1 /\ Block - 1 \in Nat /\ Block - 1 <= Block
      BY <2>2, <3>1 DEF After
    <3> QED BY <1>3, <3>2, BlockBounds
  <2> QED BY <2>1, <2>2
<1>8. pc' \in Places /\ InRange(pc')
  <2>1. /\ pc' \in Places /\ pc'.at = pc.at /\ pc'.tmp = pc.tmp /\ pc'.ba = After(Block)
        /\ ~pc'.prog
    BY <1>1, <1>7, TypeGives DEF Places
  <2> QED BY <1>7, <2>1, TypeGives DEF InRange, Down
<1>9. badmark' \subseteq Blocks
  BY <1>1, <1>3, TypeGives
<1> QED BY <1>1, <1>4, <1>5, <1>6, <1>8, <1>9, TypeGives, TypeParts

\* A table operation that has run out of blocks keeps the types.
LEMMA TypeRangeEnds == TypeInv /\ RangeEnds => TypeInv'
<1> SUFFICES ASSUME TypeInv, RangeEnds PROVE TypeInv'
  OBVIOUS
<1> DEFINE n == Skipped(ni)
           s == IF pc.at \in Erasers THEN EraseNext(n, pc) ELSE WriteNext(n, pc, FALSE, None)
<1>1. /\ pc.at \in Writers \union Erasers /\ Become(s)
      /\ flash' = flash /\ badmark' = badmark /\ want' = want /\ env' = env
  BY DEF RangeEnds
<1>2. n \in Instances
  BY TypeGives, SkippedIs
<1> HIDE DEF n
<1>3. ASSUME pc.at \in Writers, pc.at \notin Erasers PROVE Typed(s)
  <2>1. s = WriteNext(n, pc, FALSE, None)
    BY <1>3
  <2> QED BY <1>2, <1>3, <2>1, FailedTyped, TypeGives
<1>4. ASSUME pc.at \in Erasers PROVE Typed(s)
  <2>1. CASE pc.at = "erase_behind"
    <3>1. pc.tmp \in Blocks /\ pc.tmp + 1 \in Blocks
      BY <2>1, TypeGives DEF InRange, Places
    <3>2. Clean([n EXCEPT !.backup = pc.tmp, !.mba = pc.tmp + 1]) \in Instances
      BY <1>2, <3>1, Moves DEF Moved
    <3>3. s = Return(Clean([n EXCEPT !.backup = pc.tmp, !.mba = pc.tmp + 1]), pc, TRUE)
      BY <1>4, <2>1 DEF EraseNext
    <3> HIDE DEF s
    <3> QED BY <3>2, <3>3, ReturnTyped, TypeGives
  <2>2. CASE pc.at # "erase_behind"
    <3>1. s = Return(n, pc, TRUE)
      BY <1>4, <2>2 DEF EraseNext
    <3> HIDE DEF s
    <3> QED BY <1>2, <3>1, ReturnTyped, TypeGives
  <2> QED BY <2>1, <2>2
<1>5. Typed(s)
  BY <1>1, <1>3, <1>4
<1> HIDE DEF s
<1> QED BY <1>1, <1>5, BecomeTyped, TypeGives, TypeParts DEF EnvOK

\* nmbm_update_info_table_once.
LEMMA UpdateOnceTyped ==
  ASSUME NEW n \in Instances, NEW p \in Places
  PROVE  Typed(UpdateOnce(n, p))
<1> DEFINE c == GenCache(n)
<1>1. c \in Instances
  BY GenCacheIs
<1>2. UpdateOnce(n, p) = IF c.backup = None THEN WriteMain(c, p, c.top)
                         ELSE Write(c, p, "update_backup", c.backup, c.top)
  BY DEF UpdateOnce
<1> HIDE DEF c
<1>3. c.top \in Blocks /\ c.backup \in 0 .. NB /\ "update_backup" \in Sites
  BY <1>1, BlockBounds DEF Instances, Sites, Writers
<1> QED BY <1>1, <1>2, <1>3, WriteMainTyped, WriteTyped

\* The loop of nmbm_update_info_table keeps the types.
LEMMA TypeUpdateAgain == TypeInv /\ UpdateAgain => TypeInv'
<1> SUFFICES ASSUME TypeInv, UpdateAgain PROVE TypeInv'
  OBVIOUS
<1>1. /\ Become(UpdateOnce(ni, pc))
      /\ flash' = flash /\ badmark' = badmark /\ want' = want /\ env' = env
  BY DEF UpdateAgain
<1>2. Typed(UpdateOnce(ni, pc))
  BY TypeGives, UpdateOnceTyped
<1> QED BY <1>1, <1>2, BecomeTyped, TypeGives, TypeParts DEF EnvOK

\* nmbm_update_info_table.
LEMMA UpdateInfoTableIs ==
  ASSUME NEW n, NEW p \in Places, NEW ret \in Updates
  PROVE  LET s == UpdateInfoTable(n, p, ret)
         IN  /\ s.ni = n /\ s.pc \in Places /\ s.pc.at = "return" /\ s.pc.ok /\ ~s.pc.prog
             /\ s.pc.ret = ret /\ s.pc.lb = p.lb /\ s.pc.old = p.old /\ s.pc.copy = p.copy
             /\ s.pc.mark = p.mark
<1> DEFINE q == [p EXCEPT !.ret = ret]
<1>1. /\ q \in Places /\ q.ret = ret /\ q.lb = p.lb /\ q.old = p.old /\ q.copy = p.copy
      /\ q.mark = p.mark
  BY DEF Places
<1>2. UpdateInfoTable(n, p, ret) = Return(n, q, TRUE)
  BY DEF UpdateInfoTable
<1> HIDE DEF q
<1>3. LET s == Return(n, q, TRUE)
      IN  /\ s.ni = n /\ s.pc \in Places /\ s.pc.at = "return" /\ s.pc.ok /\ ~s.pc.prog
          /\ SameCaller(s.pc, q)
  BY <1>1, ReturnIs
<1> QED BY <1>1, <1>2, <1>3 DEF SameCaller

\* nmbm_update_info_table starts in a well-typed state.
LEMMA UpdateInfoTableTyped ==
  ASSUME NEW n \in Instances, NEW p \in Places, NEW ret \in Updates
  PROVE  Typed(UpdateInfoTable(n, p, ret))
BY UpdateInfoTableIs DEF Typed, InRange

\* Giving up the pool changes mapping_blocks_top_ba only.
LEMMA NoPoolIs ==
  ASSUME NEW n \in Instances
  PROVE  LET m == NoPool(n)
         IN  /\ m \in Instances
             /\ m.st = n.st /\ m.map = n.map /\ m.wc = n.wc /\ m.sig = n.sig
             /\ m.cache = n.cache /\ m.main = n.main /\ m.backup = n.backup
             /\ m.mba = n.mba /\ m.protected = n.protected /\ m.dcount = n.dcount
             /\ m.dirty = n.dirty /\ m.top = n.mba
BY DEF NoPool, Instances

\* The end of an update keeps the types.
LEMMA TypeUpdateDone == TypeInv /\ UpdateDone => TypeInv'
<1> SUFFICES ASSUME TypeInv, UpdateDone PROVE TypeInv'
  OBVIOUS
<1> DEFINE s == CASE pc.ret = "remap"   -> Step(ni, Rest("idle"))
                  [] pc.ret = "nospare" -> Step(NoPool(ni), Rest("idle"))
                  [] pc.ret = "create_nospare" ->
                       UpdateInfoTable(NoPool(ni), pc, "create")
                  [] pc.ret = "create" ->
                       Step(ni, Rest(IF pc.ok THEN "idle" ELSE "dead"))
<1>1. /\ pc.ret \in Updates /\ Become(s)
      /\ badmark' = IF pc.mark THEN badmark \union {pc.old} ELSE badmark
      /\ flash' = flash /\ want' = want /\ env' = env
  BY DEF UpdateDone
<1>2. /\ "idle" \in Sites \ {"signature", "erase_behind"}
      /\ "dead" \in Sites \ {"signature", "erase_behind"}
  BY DEF Sites
<1>3. /\ Typed(Step(ni, Rest("idle"))) /\ Typed(Step(NoPool(ni), Rest("idle")))
      /\ Typed(Step(ni, Rest("dead")))
  BY <1>2, RestTyped, TypeGives, NoPoolIs
<1>4. Typed(UpdateInfoTable(NoPool(ni), pc, "create"))
  BY UpdateInfoTableTyped, TypeGives, NoPoolIs DEF Updates
<1>5. \/ s = Step(ni, Rest("idle")) \/ s = Step(NoPool(ni), Rest("idle"))
      \/ s = Step(ni, Rest("dead")) \/ s = UpdateInfoTable(NoPool(ni), pc, "create")
  BY <1>1 DEF Updates
<1> HIDE DEF s
<1>6. Typed(s)
  BY <1>3, <1>4, <1>5
<1>7. badmark' \subseteq Blocks
  BY <1>1, TypeGives DEF Places
<1> QED BY <1>1, <1>6, <1>7, BecomeTyped, TypeGives, TypeParts DEF EnvOK

\* The place of a driver at rest.
LEMMA RestInRange ==
  ASSUME NEW site \in Sites \ {"signature", "erase_behind"}
  PROVE  Rest(site) \in Places /\ InRange(Rest(site))
BY RestIs DEF InRange

\* The end of building the tables keeps the types.
LEMMA TypeBuildDone == TypeInv /\ BuildDone => TypeInv'
<1> SUFFICES ASSUME TypeInv, BuildDone PROVE TypeInv'
  OBVIOUS
<1>1. /\ pc' = Rest(IF pc.ok THEN "create_map" ELSE "dead")
      /\ ni' = ni /\ flash' = flash /\ badmark' = badmark /\ want' = want /\ env' = env
  BY DEF BuildDone
<1>2. pc' = Rest("create_map") \/ pc' = Rest("dead")
  BY <1>1
<1>3. /\ "create_map" \in Sites \ {"signature", "erase_behind"}
      /\ "dead" \in Sites \ {"signature", "erase_behind"}
  BY DEF Sites
<1>4. pc' \in Places /\ InRange(pc')
  BY <1>2, <1>3, RestInRange
<1> QED BY <1>1, <1>4, TypeGives, TypeParts DEF EnvOK

\* The block nmbm_map_block takes is between mapping_blocks_ba and the top.
LEMMA SpareIs ==
  ASSUME NEW n \in Instances, Spare(n) # None
  PROVE  /\ Spare(n) \in Blocks /\ n.mba < Spare(n) /\ Spare(n) <= n.top /\ n.st[Spare(n)]
         /\ n.top - 1 \in Blocks
<1>1. n.top \in Blocks /\ n.mba \in Blocks /\ n.top \in Nat /\ n.mba \in Nat
  BY Sizes DEF Instances
<1>2. n.top \in Int /\ 0 \in Nat
  BY <1>1
<1>3. Spare(n) \in Nat /\ n.mba < Spare(n) /\ Spare(n) <= n.top /\ n.st[Spare(n)]
  BY <1>1, <1>2, WalkFound DEF Spare
<1>4. n.top - 1 \in Nat /\ n.top - 1 <= n.top
  BY <1>1, <1>3
<1> QED BY <1>1, <1>3, <1>4, BlockBounds

\* nmbm_map_block changes one entry of the mapping, the top of the pool and
\* the dirty flag.
LEMMA MapToIs ==
  ASSUME NEW n \in Instances, NEW lb \in LBlocks, NEW pb \in Blocks, n.top - 1 \in Blocks
  PROVE  LET m == MapTo(n, lb, pb)
         IN  /\ m \in Instances
             /\ m.map = [n.map EXCEPT ![lb] = pb] /\ m.top = n.top - 1 /\ m.dirty
             /\ m.st = n.st /\ m.wc = n.wc /\ m.sig = n.sig
             /\ m.cache = n.cache /\ m.main = n.main /\ m.backup = n.backup
             /\ m.mba = n.mba /\ m.protected = n.protected /\ m.dcount = n.dcount
<1>1. MapTo(n, lb, pb) = [n EXCEPT !.map = [n.map EXCEPT ![lb] = pb], !.top = n.top - 1, !.dirty = TRUE]
  BY DEF MapTo, Instances
<1>2. [n.map EXCEPT ![lb] = pb] \in Mappings
  BY DEF Instances, Mappings
<1> QED BY <1>1, <1>2 DEF Instances

\* nmbm_create_block_mapping keeps the types.
LEMMA TypeCreateMap == TypeInv /\ CreateMap => TypeInv'
<1> SUFFICES ASSUME TypeInv, CreateMap PROVE TypeInv'
  OBVIOUS
<1> DEFINE m == [MapTo(ni, ni.dcount, Spare(ni)) EXCEPT !.dcount = @ + 1]
           s == IF ni.dcount = MgmtStart \/ ni.mba = ni.top
                THEN UpdateInfoTable(ni, pc, "create")
                ELSE IF Spare(ni) = None
                THEN UpdateInfoTable(ni, pc, "create_nospare")
                ELSE Step(m, pc)
<1>1. /\ pc.at = "create_map" /\ Become(s)
      /\ flash' = flash /\ badmark' = badmark /\ want' = want /\ env' = env
  BY DEF CreateMap
<1>2. /\ Typed(UpdateInfoTable(ni, pc, "create"))
      /\ Typed(UpdateInfoTable(ni, pc, "create_nospare"))
  BY UpdateInfoTableTyped, TypeGives DEF Updates
<1>3. ASSUME ni.dcount # MgmtStart, Spare(ni) # None PROVE Typed(Step(m, pc))
  <2>1. ni.dcount \in LBlocks /\ ni.dcount + 1 \in 0 .. MgmtStart
    <3>1. ni.dcount \in 0 .. MgmtStart
      BY TypeGives DEF Instances
    <3> QED BY <1>3, <3>1, Sizes DEF LBlocks
  <2>2. Spare(ni) \in Blocks /\ ni.top - 1 \in Blocks
    BY <1>3, TypeGives, SpareIs
  <2>3. MapTo(ni, ni.dcount, Spare(ni)) \in Instances /\ MapTo(ni, ni.dcount, Spare(ni)).dcount = ni.dcount
    BY <2>1, <2>2, TypeGives, MapToIs
  <2>4. m \in Instances
    BY <2>1, <2>3 DEF Instances
  <2>5. ~pc.prog
    BY <1>1, TypeGives DEF InRange, Writers
  <2> HIDE DEF m
  <2> QED BY <2>4, <2>5, TypeGives, StepTyped
<1>4. \/ s = UpdateInfoTable(ni, pc, "create") \/ s = UpdateInfoTable(ni, pc, "create_nospare")
      \/ s = Step(m, pc) /\ ni.dcount # MgmtStart /\ Spare(ni) # None
  OBVIOUS
<1> HIDE DEF s, m
<1>5. Typed(s)
  BY <1>2, <1>3, <1>4
<1> QED BY <1>1, <1>5, BecomeTyped, TypeGives, TypeParts DEF EnvOK

\* The end of loading the tables keeps the types.
LEMMA TypeLoadDone == TypeInv /\ LoadDone => TypeInv'
<1> SUFFICES ASSUME TypeInv, LoadDone PROVE TypeInv'
  OBVIOUS
<1> DEFINE m == [ni EXCEPT !.protected = @ \/ ni.mba = ni.top \/ ~pc.ok]
<1>1. /\ Become(Step(m, Rest("idle")))
      /\ flash' = flash /\ badmark' = badmark /\ want' = want /\ env' = env
  BY DEF LoadDone
<1>2. m \in Instances
  <2> DEFINE pr == ni.protected \/ ni.mba = ni.top \/ ~pc.ok
  <2>1. m = [ni EXCEPT !.protected = pr] /\ pr \in BOOLEAN
    BY TypeGives DEF Instances
  <2> HIDE DEF pr, m
  <2> QED BY <2>1, TypeGives DEF Instances
<1>3. "idle" \in Sites \ {"signature", "erase_behind"}
  BY DEF Sites
<1> HIDE DEF m
<1>4. Typed(Step(m, Rest("idle")))
  BY <1>2, <1>3, RestTyped
<1> QED BY <1>1, <1>4, BecomeTyped, TypeGives, TypeParts DEF EnvOK

\* One more failure leaves the type of env.
LEMMA FaultTyped ==
  ASSUME TypeInv, NEW b, MayFail(b), OneFault
  PROVE  EnvOK(env)'
<1>1. env.faults > 0 /\ env' = [env EXCEPT !.faults = @ - 1]
  BY DEF MayFail, OneFault
<1>2. EnvOK([env EXCEPT !.faults = @ - 1])
  BY <1>1, TypeGives, EnvLater
<1> QED BY <1>1, <1>2 DEF EnvOK

\* remap_block_nmbm, up to the erase of the new block.
LEMMA TypeRemap ==
  ASSUME TypeInv, NEW lb \in LBlocks, NEW copy \in BOOLEAN, NEW mark \in BOOLEAN,
         Remap(lb, copy, mark)
  PROVE  TypeInv'
<1> DEFINE old == ni.map[lb]
           n == SetBad(ni, {old})
           p == [Rest("idle") EXCEPT !.lb = lb, !.old = old, !.copy = copy, !.mark = mark]
           q == [p EXCEPT !.at = "remap_erase"]
           early == n.mba = n.top
           s == IF early THEN Step(n, Rest("idle"))
                ELSE IF Spare(n) = None THEN UpdateInfoTable(n, p, "nospare")
                ELSE Step(MapTo(n, lb, Spare(n)), q)
<1>1. /\ old # Unmapped /\ MayFail(old) /\ OneFault /\ Become(s)
      /\ badmark' = IF early /\ mark THEN badmark \union {old} ELSE badmark
      /\ want' = IF copy THEN want ELSE [want EXCEPT ![lb] = 0]
      /\ flash' = flash
  BY DEF Remap
<1>2. old \in Blocks
  BY <1>1, TypeGives DEF Instances, Mappings
<1>3. n \in Instances
  BY TypeGives, SetBadIs
<1>4. "idle" \in Sites \ {"signature", "erase_behind"} /\ "remap_erase" \in Sites
  BY DEF Sites
<1>5. /\ p \in Places /\ ~p.prog
      /\ q \in Places /\ ~q.prog /\ q.at = "remap_erase"
  <2>1. Rest("idle") \in Places /\ ~Rest("idle").prog
    BY <1>4, RestIs
  <2> HIDE DEF old
  <2>2. p \in Places /\ ~p.prog
    BY <1>2, <2>1 DEF Places
  <2> HIDE DEF p
  <2> QED BY <1>4, <2>2 DEF Places
<1> HIDE DEF old, n, p, q
<1>6. Typed(Step(n, Rest("idle")))
  BY <1>3, <1>4, RestTyped
<1>7. Typed(UpdateInfoTable(n, p, "nospare"))
  BY <1>3, <1>5, UpdateInfoTableTyped DEF Updates
<1>8. ASSUME Spare(n) # None PROVE Typed(Step(MapTo(n, lb, Spare(n)), q))
  <2>1. MapTo(n, lb, Spare(n)) \in Instances
    BY <1>3, <1>8, SpareIs, MapToIs
  <2>2. InRange(q)
    BY <1>5 DEF InRange
  <2> QED BY <1>5, <2>1, <2>2, StepTyped
<1>9. \/ s = Step(n, Rest("idle")) \/ s = UpdateInfoTable(n, p, "nospare")
      \/ s = Step(MapTo(n, lb, Spare(n)), q) /\ Spare(n) # None
  OBVIOUS
<1>10. badmark' \subseteq Blocks
  BY <1>1, <1>2, TypeGives
<1>11. want' \in [LBlocks -> 0 .. MaxVersion]
  <2>1. 0 \in 0 .. MaxVersion
    BY Sizes
  <2> QED BY <1>1, <2>1, TypeGives
<1> HIDE DEF s, early
<1>12. Typed(s)
  BY <1>6, <1>7, <1>8, <1>9
<1>13. ni' \in Instances /\ pc' \in Places /\ InRange(pc')
  BY <1>1, <1>12, BecomeTyped
<1>14. EnvOK(env)'
  BY <1>1, FaultTyped
<1> QED BY <1>1, <1>10, <1>11, <1>13, <1>14, TypeGives, TypeParts

\* Erasing the new block of a remap keeps the types.
LEMMA TypeRemapErase == TypeInv /\ RemapErase => TypeInv'
<1> SUFFICES ASSUME TypeInv, RemapErase PROVE TypeInv'
  OBVIOUS
<1> DEFINE q == [pc EXCEPT !.at = "remap_copy"]
           s == IF pc.copy THEN Step(ni, q) ELSE UpdateInfoTable(ni, pc, "remap")
<1>1. /\ pc.at = "remap_erase" /\ Become(s)
      /\ flash' = [flash EXCEPT ![ni.map[pc.lb]] = Erased]
      /\ badmark' = badmark /\ want' = want /\ env' = env
  BY DEF RemapErase
<1>2. "remap_copy" \in Sites
  BY DEF Sites
<1>3. ~pc.prog
  BY <1>1, TypeGives DEF InRange, Writers
<1>4. q \in Places /\ ~q.prog /\ InRange(q)
  BY <1>2, <1>3, TypeGives DEF Places, InRange
<1>5. Typed(UpdateInfoTable(ni, pc, "remap"))
  BY TypeGives, UpdateInfoTableTyped DEF Updates
<1> HIDE DEF q
<1>6. Typed(Step(ni, q))
  BY <1>4, TypeGives, StepTyped
<1>7. Typed(s)
  BY <1>5, <1>6
<1> HIDE DEF s
<1>8. flash' \in [Blocks -> Contents]
  BY <1>1, TypeGives, FlashTyped, ContentKinds
<1> QED BY <1>1, <1>7, <1>8, BecomeTyped, TypeGives, TypeParts DEF EnvOK

\* Copying to the new block of a remap keeps the types.
LEMMA TypeRemapCopy == TypeInv /\ RemapCopy => TypeInv'
<1> SUFFICES ASSUME TypeInv, RemapCopy PROVE TypeInv'
  OBVIOUS
<1>1. /\ Become(UpdateInfoTable(ni, pc, "remap"))
      /\ flash' = [flash EXCEPT ![ni.map[pc.lb]] =
                     IF flash[pc.old].kind = "data" THEN flash[pc.old] ELSE @]
      /\ badmark' = badmark /\ want' = want /\ env' = env
  BY DEF RemapCopy
<1>2. Typed(UpdateInfoTable(ni, pc, "remap"))
  BY TypeGives, UpdateInfoTableTyped DEF Updates
<1>3. flash[pc.old] \in Contents
  BY TypeGives DEF Places
<1>4. flash' \in [Blocks -> Contents]
  BY <1>1, <1>3, TypeGives
<1> QED BY <1>1, <1>2, <1>4, BecomeTyped, TypeGives, TypeParts DEF EnvOK

\* A remap whose new block fails keeps the types.
LEMMA TypeRemapFails == TypeInv /\ RemapFails => TypeInv'
<1> SUFFICES ASSUME TypeInv, RemapFails PROVE TypeInv'
  OBVIOUS
<1> DEFINE q == [pc EXCEPT !.at = "remap_copy"]
           s == IF pc.at = "remap_erase" /\ pc.copy THEN Step(ni, q)
                ELSE UpdateInfoTable(ni, pc, "remap")
<1>1. /\ pc.at \in {"remap_erase", "remap_copy"} /\ Become(s)
      /\ MayFail(ni.map[pc.lb]) /\ OneFault
      /\ flash' = [flash EXCEPT ![ni.map[pc.lb]] = Junk]
      /\ badmark' = badmark /\ want' = want
  BY DEF RemapFails
<1>2. "remap_copy" \in Sites
  BY DEF Sites
<1>3. ~pc.prog
  BY <1>1, TypeGives DEF InRange, Writers
<1>4. q \in Places /\ ~q.prog /\ InRange(q)
  BY <1>2, <1>3, TypeGives DEF Places, InRange
<1>5. Typed(UpdateInfoTable(ni, pc, "remap"))
  BY TypeGives, UpdateInfoTableTyped DEF Updates
<1> HIDE DEF q
<1>6. Typed(Step(ni, q))
  BY <1>4, TypeGives, StepTyped
<1>7. Typed(s)
  BY <1>5, <1>6
<1> HIDE DEF s
<1>8. flash' \in [Blocks -> Contents]
  BY <1>1, TypeGives, FlashTyped, ContentKinds
<1>9. EnvOK(env)'
  BY <1>1, FaultTyped
<1> QED BY <1>1, <1>7, <1>8, <1>9, BecomeTyped, TypeGives, TypeParts

\* A write of the user keeps the types.
LEMMA TypeUserWrite ==
  ASSUME TypeInv, NEW lb \in LBlocks, UserWrite(lb)
  PROVE  TypeInv'
<1>1. /\ want[lb] < MaxVersion /\ want' = [want EXCEPT ![lb] = @ + 1]
      /\ flash' = [flash EXCEPT ![ni.map[lb]] = Data(lb, want[lb] + 1)]
      /\ ni' = ni /\ pc' = pc /\ badmark' = badmark /\ env' = env
  BY DEF UserWrite
<1>2. want[lb] + 1 \in 0 .. MaxVersion
  <2>1. want[lb] \in 0 .. MaxVersion
    BY TypeGives
  <2> QED BY <1>1, <2>1, Sizes
<1>3. flash' \in [Blocks -> Contents]
  BY <1>1, <1>2, TypeGives, FlashTyped, ContentKinds
<1>4. want' \in [LBlocks -> 0 .. MaxVersion]
  BY <1>1, <1>2, TypeGives
<1> QED BY <1>1, <1>3, <1>4, TypeGives, TypeParts DEF EnvOK

\* What an attach finds in the blocks of the signature and the tables.
LEMMA TableIs ==
  ASSUME TypeInv, NEW b \in Blocks, IsTable(b)
  PROVE  /\ flash[b] \in Tables /\ b \notin badmark /\ b + 1 \in Blocks
         /\ \E sig \in SignatureBlock : b < sig - 1 /\ CheckTable(b, sig)
<1>1. flash[b] \in Contents
  BY TypeGives
<1>2. flash[b] \in Tables /\ b \notin badmark
  BY <1>1, ContentKinds DEF IsTable
<1>3. PICK sig \in SignatureBlock : b < sig - 1 /\ CheckTable(b, sig)
  BY DEF IsTable
<1>4. sig \in Blocks /\ sig \in Nat /\ b \in Nat
  BY Sizes DEF SignatureBlock
<1>5. b < sig
  BY <1>3, <1>4
<1> QED BY <1>2, <1>3, <1>4, <1>5, BlockBounds

\* The two runs of nmbm_search_info_table.
LEMMA SearchIs ==
  ASSUME TypeInv, NEW m \in FirstTable
  PROVE  /\ m \in Area /\ IsTable(m)
         /\ SecondTable(m) \subseteq Area
         /\ \A b \in SecondTable(m) : m < b /\ IsTable(b) /\ flash[m].st[b]
         /\ NewestTable(m) # {} /\ NewestTable(m) \subseteq SecondTable(m) \union {m}
<1>1. m \in Area /\ IsTable(m) /\ m \in Nat
  BY Sizes DEF FirstTable, Area
<1>2. ASSUME NEW b \in SecondTable(m)
      PROVE  b \in Area /\ m < b /\ IsTable(b) /\ flash[m].st[b]
  <2>1. b \in m + 1 .. NB - 1 /\ flash[m].st[b] /\ IsTable(b)
    BY DEF SecondTable
  <2> QED BY <1>1, <2>1, Sizes DEF Area
<1>3. NewestTable(m) # {} /\ NewestTable(m) \subseteq SecondTable(m) \union {m}
  BY DEF NewestTable
<1> QED BY <1>1, <1>2, <1>3

\* The local variables of nmbm_load_info_table.
LoadBackup(m) == IF SecondTable(m) = {} THEN None ELSE Min(SecondTable(m))
LoadNewest(m) == CHOOSE b \in NewestTable(m) : TRUE
LoadSeen(ecc, sig, m) ==
  {b \in m + 1 .. (IF LoadBackup(m) = None THEN sig - 2 ELSE LoadBackup(m)) : flash[m].st[b]}
    \intersect (badmark \union ecc)
LoadUsed(m) == {lb \in LBlocks : flash[LoadNewest(m)].map[lb] # Unmapped}
LoadAbove(sig, m) ==
  {flash[LoadNewest(m)].map[lb] : lb \in LoadUsed(m)} \intersect (LoadNewest(m) .. sig)

\* The instance nmbm_load_info_table has put together before it writes.
Loaded(n, ecc, sig, m) ==
  LET nb == LoadNewest(m)
  IN  /\ n \in Instances
      /\ n.sig = sig /\ n.main = m /\ n.backup = LoadBackup(m)
      /\ n.mba = IF LoadBackup(m) = None THEN m + 1 ELSE LoadBackup(m) + 1
      /\ n.top = TopBelow(LoadAbove(sig, m) \union {sig})
      /\ n.map = flash[nb].map
      /\ \A b \in Blocks : n.st[b] <=> flash[nb].st[b] /\ (nb = LoadBackup(m) \/ b \notin LoadSeen(ecc, sig, m))
      /\ n.wc = IF n.dirty THEN flash[nb].wc + 1 ELSE flash[nb].wc
      /\ LoadSeen(ecc, sig, m) # {} => n.dirty
      /\ n.cache = Table(n.wc, n.map, n.st)
      /\ ~n.protected

\* What it does next.
LoadGoesOn(n, ecc, sig, m) ==
  LoadInfoTable(ecc, sig, m) =
    IF LoadBackup(m) = None THEN RescueSingle(n, Rest("return"))
    ELSE IF flash[m].wc = flash[LoadBackup(m)].wc THEN Return(n, Rest("return"), TRUE)
    ELSE UpdateSingle([n EXCEPT !.dirty = TRUE], Rest("return"), LoadNewest(m) = LoadBackup(m))

\* What nmbm_load_existing finds lies on the chip, where the search looks for it.
LEMMA LoadBlocks ==
  ASSUME TypeInv, NEW sig \in SignatureBlock, NEW m \in FirstTable
  PROVE  /\ m \in Blocks /\ m + 1 \in Blocks /\ sig \in Blocks
         /\ LoadBackup(m) \in Blocks /\ LoadBackup(m) + 1 \in Blocks
         /\ LoadBackup(m) # None => LoadBackup(m) \in SecondTable(m) /\ LoadBackup(m) \in Area
         /\ LoadNewest(m) \in NewestTable(m) /\ LoadNewest(m) \in Area
         /\ flash[LoadNewest(m)] \in Tables /\ flash[m] \in Tables
         /\ TopBelow(LoadAbove(sig, m) \union {sig}) \in Blocks
         /\ LoadUsed(m) = {} \/ Max(LoadUsed(m)) + 1 \in 0 .. MgmtStart
<1>1. m \in Area /\ m \in Blocks /\ IsTable(m) /\ sig \in Blocks
  BY SearchIs, Sizes DEF SignatureBlock
<1>2. m + 1 \in Blocks /\ flash[m] \in Tables
  BY <1>1, TableIs
<1>3. LoadBackup(m) # None => LoadBackup(m) \in SecondTable(m) /\ LoadBackup(m) \in Area
  <2>1. SecondTable(m) \in SUBSET Nat
    BY SearchIs, Sizes
  <2>2. SecondTable(m) # {} => Min(SecondTable(m)) \in SecondTable(m)
    BY <2>1, MinFound
  <2> QED BY <2>2, SearchIs DEF LoadBackup
<1>4. LoadBackup(m) \in Blocks /\ LoadBackup(m) + 1 \in Blocks
  <2>1. CASE LoadBackup(m) = None
    BY <2>1, Sizes DEF Blocks
  <2>2. CASE LoadBackup(m) # None
    <3>1. IsTable(LoadBackup(m)) /\ LoadBackup(m) \in Blocks
      BY <1>3, <2>2, SearchIs, Sizes
    <3> QED BY <3>1, TableIs
  <2> QED BY <2>1, <2>2
<1>5. LoadNewest(m) \in NewestTable(m)
  BY SearchIs DEF LoadNewest
<1>6. LoadNewest(m) \in Area /\ IsTable(LoadNewest(m)) /\ LoadNewest(m) \in Blocks
  <2>1. LoadNewest(m) = m \/ LoadNewest(m) \in SecondTable(m)
    BY <1>5, SearchIs
  <2>2. LoadNewest(m) \in Area /\ IsTable(LoadNewest(m))
    BY <1>1, <2>1, SearchIs
  <2> QED BY <2>2, Sizes
<1>7. flash[LoadNewest(m)] \in Tables
  BY <1>6, TableIs
<1>8. TopBelow(LoadAbove(sig, m) \union {sig}) \in Blocks
  <2> DEFINE S == LoadAbove(sig, m) \union {sig}
  <2>1. sig \in Nat /\ sig > 0
    <3>1. sig \in Nat
      BY <1>1, Sizes
    <3>2. PICK g \in SignatureBlock : m < g - 1 /\ CheckTable(m, g)
      BY <1>1 DEF IsTable
    <3>3. g = sig
      <4>1. g \in Blocks /\ sig \in Blocks /\ IsSignature(g) /\ IsSignature(sig)
        BY DEF SignatureBlock
      <4>2. g \in 0 .. NB - 1 /\ sig \in 0 .. NB - 1
        BY <4>1 DEF Blocks
      <4>3. g \notin sig + 1 .. NB - 1 /\ sig \notin g + 1 .. NB - 1
        BY <4>1 DEF SignatureBlock
      <4> QED BY <4>2, <4>3, Sizes
    <3>4. m \in Nat
      BY <1>1, Sizes
    <3> QED BY <3>1, <3>2, <3>3, <3>4
  <2>2. \A b \in S : b \in Nat /\ b > 0 /\ b <= sig
    <3>1. LoadNewest(m) \in Nat /\ LoadNewest(m) > 0
      BY <1>6, Sizes DEF Area
    <3>2. \A b \in LoadNewest(m) .. sig : b \in Nat /\ b > 0 /\ b <= sig
      BY <2>1, <3>1
    <3> QED BY <2>1, <3>2 DEF LoadAbove
  <2>3. S \in SUBSET Nat /\ S # {}
    BY <2>2
  <2> HIDE DEF S
  <2>4. Min(S) \in S
    BY <2>3, MinFound
  <2>5. Min(S) - 1 \in Nat /\ Min(S) - 1 < sig
    BY <2>1, <2>2, <2>4
  <2>6. Min(S) - 1 \in Blocks
    BY <1>1, <2>5, BlockBounds
  <2> QED BY <2>6 DEF TopBelow, S
<1>9. ASSUME LoadUsed(m) # {} PROVE Max(LoadUsed(m)) + 1 \in 0 .. MgmtStart
  <2>1. LoadUsed(m) \in SUBSET (0 .. MgmtStart - 1) /\ MgmtStart - 1 \in Nat
    BY Sizes DEF LoadUsed, LBlocks
  <2>2. Max(LoadUsed(m)) \in LoadUsed(m)
    BY <1>9, <2>1, MaxFound
  <2>3. Max(LoadUsed(m)) \in 0 .. MgmtStart - 1
    BY <2>1, <2>2
  <2> QED BY <2>3, Sizes
<1> QED BY <1>1, <1>2, <1>3, <1>4, <1>5, <1>6, <1>7, <1>8, <1>9

\* nmbm_load_info_table, up to its first write.
LEMMA LoadIs ==
  ASSUME TypeInv, NEW ecc, NEW sig \in SignatureBlock, NEW m \in FirstTable
  PROVE  \E n : Loaded(n, ecc, sig, m) /\ LoadGoesOn(n, ecc, sig, m)
<1> DEFINE backup == LoadBackup(m)
           nb == LoadNewest(m)
           newest == flash[nb]
           seen == LoadSeen(ecc, sig, m)
           top == TopBelow(LoadAbove(sig, m) \union {sig})
           mba == IF backup = None THEN m + 1 ELSE backup + 1
           dcount == IF LoadUsed(m) = {} THEN MgmtStart ELSE Max(LoadUsed(m)) + 1
           st == IF nb = backup THEN newest.st ELSE [b \in Blocks |-> newest.st[b] /\ b \notin seen]
           dirty == seen # {} \/ (MgmtStart .. m - 1) \intersect (badmark \union ecc) # {}
           n == [Fresh EXCEPT !.sig = sig, !.main = m, !.backup = backup, !.mba = mba, !.top = top,
                              !.map = newest.map, !.dcount = dcount, !.wc = newest.wc, !.st = st,
                              !.dirty = dirty]
           c == GenCache(n)
<1>1. LoadInfoTable(ecc, sig, m) =
        IF backup = None THEN RescueSingle(c, Rest("return"))
        ELSE IF flash[m].wc = flash[backup].wc THEN Return(c, Rest("return"), TRUE)
        ELSE UpdateSingle([c EXCEPT !.dirty = TRUE], Rest("return"), nb = backup)
  BY DEF LoadInfoTable, LoadBackup, LoadNewest, LoadSeen, LoadUsed, LoadAbove
<1>2. newest.map \in Mappings /\ newest.st \in GoodBlocks /\ newest.wc \in Nat
  BY LoadBlocks DEF Tables
<1>3. /\ backup \in Blocks /\ mba \in Blocks /\ top \in Blocks /\ sig \in Blocks /\ m \in Blocks
  BY LoadBlocks
<1>4. dcount \in 0 .. MgmtStart
  <2>1. MgmtStart \in 0 .. MgmtStart
    BY Sizes
  <2> QED BY <2>1, LoadBlocks
<1>5. \A b \in Blocks : st[b] <=> newest.st[b] /\ (nb = backup \/ b \notin seen)
  <2>1. \A b \in Blocks : newest.st[b] \in BOOLEAN
    BY <1>2 DEF GoodBlocks
  <2> HIDE DEF newest, seen, nb, backup
  <2>2. CASE nb = backup
    BY <2>1, <2>2
  <2>3. CASE nb # backup
    BY <2>1, <2>3
  <2> QED BY <2>2, <2>3
<1>6. st \in GoodBlocks
  <2> HIDE DEF newest, seen, nb, backup
  <2>1. [b \in Blocks |-> newest.st[b] /\ b \notin seen] \in GoodBlocks
    <3>1. \A b \in Blocks : (newest.st[b] /\ b \notin seen) \in BOOLEAN
      OBVIOUS
    <3> QED BY <3>1 DEF GoodBlocks
  <2> QED BY <1>2, <2>1
<1>7. dirty \in BOOLEAN /\ (seen # {} => dirty)
  OBVIOUS
<1>8. /\ n \in Instances
      /\ n.sig = sig /\ n.main = m /\ n.backup = backup /\ n.mba = mba /\ n.top = top
      /\ n.map = newest.map /\ n.st = st /\ n.wc = newest.wc /\ n.dirty = dirty /\ ~n.protected
  <2> HIDE DEF backup, mba, top, dcount, st, dirty, newest
  <2> QED BY <1>2, <1>3, <1>4, <1>6, <1>7, FreshIs DEF Instances
<1> HIDE DEF n
<1>9. /\ c \in Instances /\ c.sig = sig /\ c.main = m /\ c.backup = backup /\ c.mba = mba
      /\ c.top = top /\ c.map = newest.map /\ c.st = st /\ c.dirty = dirty /\ ~c.protected
      /\ c.wc = IF dirty THEN newest.wc + 1 ELSE newest.wc
      /\ c.cache = Table(c.wc, c.map, c.st)
  <2> HIDE DEF backup, mba, top, dcount, st, dirty, newest
  <2> QED BY <1>8, GenCacheIs
<1> HIDE DEF c
<1>10. Loaded(c, ecc, sig, m)
  <2> USE DEF Loaded
  <2> HIDE DEF dirty, st
  <2> QED BY <1>5, <1>7, <1>9
<1>11. LoadGoesOn(c, ecc, sig, m)
  BY <1>1 DEF LoadGoesOn
<1> QED BY <1>10, <1>11

\* Attaching to a chip with tables keeps the types.
LEMMA TypeAttachLoad == TypeInv /\ AttachLoad => TypeInv'
<1> SUFFICES ASSUME TypeInv, AttachLoad PROVE TypeInv'
  OBVIOUS
<1>1. flash' = flash /\ badmark' = badmark /\ want' = want /\ env' = env
  BY DEF AttachLoad
<1>2. PICK sig \in SignatureBlock, m \in FirstTable, ecc \in EccErrors :
        Become(LoadInfoTable(ecc, sig, m))
  BY DEF AttachLoad
<1>3. PICK n : Loaded(n, ecc, sig, m) /\ LoadGoesOn(n, ecc, sig, m)
  BY LoadIs
<1>4. n \in Instances
  BY <1>3 DEF Loaded
<1> DEFINE d == [n EXCEPT !.dirty = TRUE]
           p == Rest("return")
<1>5. d \in Instances
  BY <1>4 DEF Instances
<1>6. p \in Places
  BY RestIs DEF Sites
<1> HIDE DEF d, p
<1>7. \A u \in BOOLEAN : Typed(UpdateSingle(d, p, u))
  <2>1. /\ d.main \in 0 .. NB /\ d.backup \in 0 .. NB /\ d.backup \in Blocks /\ d.top \in Blocks
        /\ "single_main" \in Sites /\ "single_backup" \in Sites
    BY <1>5, BlockBounds DEF Instances, Sites, Writers
  <2>2. Typed(Write(d, p, "single_main", d.main, d.backup))
    BY <1>5, <1>6, <2>1, WriteTyped
  <2>3. Typed(Write(d, p, "single_backup", d.backup, d.top))
    BY <1>5, <1>6, <2>1, WriteTyped
  <2> QED BY <2>2, <2>3 DEF UpdateSingle
<1>8. Typed(Return(n, p, TRUE)) /\ Typed(RescueSingle(n, p))
  BY <1>4, <1>6, ReturnTyped, RescueSingleTyped
<1>9. \/ LoadInfoTable(ecc, sig, m) = RescueSingle(n, p)
      \/ LoadInfoTable(ecc, sig, m) = Return(n, p, TRUE)
      \/ LoadInfoTable(ecc, sig, m) = UpdateSingle(d, p, LoadNewest(m) = LoadBackup(m))
  BY <1>3 DEF LoadGoesOn, d, p
<1>10. Typed(LoadInfoTable(ecc, sig, m))
  BY <1>7, <1>8, <1>9
<1> QED BY <1>1, <1>2, <1>10, BecomeTyped, TypeGives, TypeParts DEF EnvOK

\* Attaching to a new chip keeps the types.
LEMMA TypeAttachCreate == TypeInv /\ AttachCreate => TypeInv'
<1> SUFFICES ASSUME TypeInv, AttachCreate PROVE TypeInv'
  OBVIOUS
<1>1. /\ Become(Write(Scan(Fresh), Rest("off"), "signature", NB - 1, MgmtStart))
      /\ flash' = flash /\ badmark' = badmark /\ want' = want /\ env' = env
  BY DEF AttachCreate
<1>2. Scan(Fresh) \in Instances
  BY FreshIs, SetBadIs, BuildMaps DEF Scan
<1>3. Rest("off") \in Places /\ "signature" \in Sites
  BY RestIs DEF Sites, Writers
<1>4. NB - 1 \in 0 .. NB /\ NB - 1 \in Blocks /\ MgmtStart \in Blocks
  BY Sizes
<1>5. Typed(Write(Scan(Fresh), Rest("off"), "signature", NB - 1, MgmtStart))
  BY <1>2, <1>3, <1>4, WriteTyped
<1> QED BY <1>1, <1>5, BecomeTyped, TypeGives, TypeParts DEF EnvOK

\* Attaching to a chip with a signature and no table keeps the types.
LEMMA TypeAttachRebuild == TypeInv /\ AttachRebuild => TypeInv'
<1> SUFFICES ASSUME TypeInv, AttachRebuild PROVE TypeInv'
  OBVIOUS
<1>1. flash' = flash /\ badmark' = badmark /\ want' = want /\ env' = env
  BY DEF AttachRebuild
<1>2. PICK sig \in SignatureBlock, ecc \in EccErrors :
        LET bad == (badmark \union ecc) \intersect (MgmtStart .. sig - 2)
        IN  Become(CreateInfoTable(Scan([SetBad(Fresh, bad) EXCEPT !.sig = sig]), Rest("off")))
  BY DEF AttachRebuild
<1> DEFINE bad == (badmark \union ecc) \intersect (MgmtStart .. sig - 2)
           n == [SetBad(Fresh, bad) EXCEPT !.sig = sig]
<1>3. n \in Instances
  <2>1. sig \in Blocks /\ SetBad(Fresh, bad) \in Instances
    BY FreshIs, SetBadIs DEF SignatureBlock
  <2> HIDE DEF bad
  <2> QED BY <2>1 DEF Instances
<1> HIDE DEF n
<1>4. Scan(n) \in Instances
  BY <1>3, SetBadIs, BuildMaps DEF Scan
<1>5. Rest("off") \in Places
  BY RestIs DEF Sites
<1>6. Typed(CreateInfoTable(Scan(n), Rest("off")))
  BY <1>4, <1>5, CreateTyped
<1>7. Become(CreateInfoTable(Scan(n), Rest("off")))
  BY <1>2 DEF n
<1> QED BY <1>1, <1>6, <1>7, BecomeTyped, TypeGives, TypeParts DEF EnvOK

\* An attach that fails keeps the types.
LEMMA TypeAttachFails == TypeInv /\ AttachFails => TypeInv'
<1> SUFFICES ASSUME TypeInv, AttachFails PROVE TypeInv'
  OBVIOUS
<1>1. /\ pc' = Rest("dead") /\ ni' = ni
      /\ flash' = flash /\ badmark' = badmark /\ want' = want /\ env' = env
  BY DEF AttachFails
<1>2. "dead" \in Sites \ {"signature", "erase_behind"}
  BY DEF Sites
<1>3. pc' \in Places /\ InRange(pc')
  BY <1>1, <1>2, RestInRange
<1> QED BY <1>1, <1>3, TypeGives, TypeParts DEF EnvOK

\* Losing power keeps the types.
LEMMA TypeCrash == TypeInv /\ Crash => TypeInv'
<1> SUFFICES ASSUME TypeInv, Crash PROVE TypeInv'
  OBVIOUS
<1>1. /\ env.crashes > 0 /\ ni' = Fresh /\ pc' = Rest("off")
      /\ env' = [env EXCEPT !.crashes = @ - 1] /\ badmark' = badmark /\ want' = want
      /\ flash' = flash \/ \E b \in InFlight : flash' = [flash EXCEPT ![b] = Junk]
  BY DEF Crash
<1>2. "off" \in Sites \ {"signature", "erase_behind"}
  BY DEF Sites
<1>3. pc' \in Places /\ InRange(pc')
  BY <1>1, <1>2, RestInRange
<1>4. EnvOK(env)'
  BY <1>1, EnvLater, TypeGives DEF EnvOK
<1>5. flash' \in [Blocks -> Contents]
  BY <1>1, TypeGives, FlashTyped, ContentKinds
<1> QED BY <1>1, <1>3, <1>4, <1>5, FreshIs, TypeGives, TypeParts

\* The state at power on of a new chip.
LEMMA TypeInit == Init => TypeInv
<1> SUFFICES ASSUME Init PROVE TypeInv
  OBVIOUS
<1>1. /\ ni = Fresh /\ pc = Rest("off") /\ flash = [b \in Blocks |-> Erased]
      /\ want = [lb \in LBlocks |-> 0]
  BY DEF Init
<1>2. PICK s \in Settings : badmark \in s.bad /\ env = [s EXCEPT !.bad = {}]
  BY DEF Init
<1>3. badmark \subseteq Blocks
  <2>1. s \in SettingRecords
    BY NmbmAssumption
  <2>2. s.bad \in SUBSET SUBSET Blocks
    BY <2>1 DEF SettingRecords
  <2> QED BY <1>2, <2>2
<1>4. EnvOK(env)
  BY <1>2, EnvFirst
<1>5. "off" \in Sites \ {"signature", "erase_behind"}
  BY DEF Sites
<1>6. pc \in Places /\ InRange(pc)
  BY <1>1, <1>5, RestInRange
<1>7. flash \in [Blocks -> Contents] /\ want \in [LBlocks -> 0 .. MaxVersion]
  <2>1. 0 \in 0 .. MaxVersion /\ Erased \in Contents
    BY Sizes, ContentKinds
  <2> QED BY <1>1, <2>1
<1> QED BY <1>1, <1>3, <1>4, <1>6, <1>7, FreshIs DEF TypeInv, TypeOK, EnvOK

\* Every step keeps the types.
LEMMA TypeNext == TypeInv /\ [Next]_vars => TypeInv'
<1> SUFFICES ASSUME TypeInv, [Next]_vars PROVE TypeInv'
  OBVIOUS
<1>1. CASE UNCHANGED vars
  <2>1. /\ ni' = ni /\ pc' = pc /\ flash' = flash /\ badmark' = badmark /\ want' = want
        /\ env' = env
    BY <1>1 DEF vars
  <2> QED BY <2>1, TypeGives, TypeParts DEF EnvOK
<1>2. CASE Driver
  <2>1. CASE Attach
    BY <2>1, TypeAttachLoad, TypeAttachCreate, TypeAttachRebuild, TypeAttachFails DEF Attach
  <2>2. CASE Flash
    BY <2>2, TypeErase, TypeProgram, TypeRangeEnds DEF Flash
  <2> QED BY <1>2, <2>1, <2>2, TypeUpdateAgain, TypeUpdateDone, TypeBuildDone, TypeCreateMap,
             TypeLoadDone, TypeRemapErase, TypeRemapCopy DEF Driver
<1>3. CASE User
  BY <1>3, TypeUserWrite, TypeRemap DEF User
<1> QED BY <1>1, <1>2, <1>3, TypeFails, TypeRemapFails, TypeCrash DEF Next

\* Every state of the driver has its type, under all settings: no block number leaves
\* the chip, whatever is found on it, however often blocks fail and the power goes.
THEOREM TypeCorrect == Spec => []TypeOK
<1>1. TypeInv => TypeOK
  BY DEF TypeInv
<1> QED BY <1>1, TypeInit, TypeNext, PTL DEF Spec

-----------------------------------------------------------------------------
(* The tables on the flash. *)

\* The fields of an instance and of a place, for the provers.
LEMMA InstanceIs ==
  ASSUME NEW n \in Instances
  PROVE  /\ n.main \in Blocks /\ n.backup \in Blocks /\ n.mba \in Blocks
         /\ n.top \in Blocks /\ n.sig \in Blocks
         /\ n.main \in Nat /\ n.backup \in Nat /\ n.mba \in Nat /\ n.top \in Nat
         /\ n.sig \in Nat /\ n.wc \in Nat /\ n.map \in Mappings
         /\ n.cache \in Tables /\ n.cache.wc \in Nat /\ n.cache.map \in Mappings
<1>1. /\ n.main \in Blocks /\ n.backup \in Blocks /\ n.mba \in Blocks
      /\ n.top \in Blocks /\ n.sig \in Blocks
      /\ n.wc \in Nat /\ n.map \in Mappings /\ n.cache \in Tables
  BY DEF Instances
<1>2. n.cache.wc \in Nat /\ n.cache.map \in Mappings
  BY <1>1 DEF Tables
<1>3. \A b \in Blocks : b \in Nat
  BY Sizes
<1> QED BY <1>1, <1>2, <1>3

\* The types of the parts of a place.
LEMMA PlaceIs ==
  ASSUME NEW p \in Places
  PROVE  /\ p.ba \in Nat /\ p.limit \in Blocks /\ p.wba \in Blocks /\ p.tmp \in Blocks
         /\ p.limit \in Nat /\ p.wba \in Nat /\ p.tmp \in Nat /\ p.old \in Blocks /\ p.old \in Nat
         /\ p.at \in Sites /\ p.ret \in Updates \union {"build", "load"} /\ p.lb \in LBlocks
<1>1. /\ p.ba \in 0 .. NB /\ p.limit \in Blocks /\ p.wba \in Blocks /\ p.tmp \in Blocks
      /\ p.old \in Blocks /\ p.at \in Sites /\ p.ret \in Updates \union {"build", "load"}
      /\ p.lb \in LBlocks
  BY DEF Places
<1>2. p.ba \in Nat
  BY <1>1
<1>3. \A b \in Blocks : b \in Nat
  BY Sizes
<1>4. p.limit \in Nat /\ p.wba \in Nat /\ p.tmp \in Nat /\ p.old \in Nat
  BY <1>1, <1>3
<1> QED BY <1>1, <1>2, <1>4

\* A mapping takes a logic block to a block or to none.
LEMMA MapIs ==
  ASSUME NEW m \in Mappings, NEW i \in LBlocks
  PROVE  m[i] \in Int /\ (m[i] = Unmapped \/ m[i] \in Blocks) /\ m[i] >= Unmapped
<1>1. m[i] \in Blocks \union {Unmapped}
  BY DEF Mappings
<1>2. Unmapped \in Int /\ Unmapped < 0
  BY DEF Unmapped
<1>3. m[i] \in Blocks => m[i] \in Nat
  BY Sizes
<1> QED BY <1>1, <1>2, <1>3

\* The blocks of the tables.
LEMMA TabsIs ==
  ASSUME NEW f \in [Blocks -> Contents], NEW bm, NEW t \in Tabs(f, bm)
  PROVE  /\ t \in Area /\ t \in Blocks /\ t \in Nat /\ t >= MgmtStart /\ t # None
         /\ t \notin bm /\ f[t] \in Tables /\ f[t].wc \in Nat /\ f[t].map \in Mappings
<1>1. t \in Area /\ t \notin bm /\ f[t].kind = "table"
  BY DEF Tabs
<1>2. t \in Blocks /\ t \in Nat /\ t >= MgmtStart /\ t # None
  BY <1>1, Sizes DEF Area
<1>3. f[t] \in Tables
  BY <1>1, <1>2, ContentKinds
<1>4. f[t].wc \in Nat /\ f[t].map \in Mappings
  BY <1>3 DEF Tables
<1> QED BY <1>1, <1>2, <1>3, <1>4

\* From (f, bm) to (g, cm) tables are lost, and blocks marked bad.
Loses(f, bm, g, cm) ==
  /\ bm \subseteq cm
  /\ Signs(g, cm) = Signs(f, bm)
  /\ Tabs(g, cm) \subseteq Tabs(f, bm)
  /\ \A t \in Tabs(g, cm) : g[t] = f[t]

\* What is left of a sound flash is sound.
LEMMA LosesDisk ==
  ASSUME NEW f, NEW bm, NEW g, NEW cm, Loses(f, bm, g, cm), DiskOK(f, bm)
  PROVE  DiskOK(g, cm)
<1>1. CASE Signs(f, bm) = {} /\ Tabs(f, bm) = {}
  BY <1>1 DEF DiskOK, Loses
<1>2. ASSUME NEW sig \in Blocks, Signs(f, bm) = {sig}, TablesFit(f, bm, sig),
             NEW x \in Area, NEW y \in Area, Tabs(f, bm) \subseteq {x, y}
      PROVE  DiskOK(g, cm)
  <2>1. ASSUME NEW s \in Tabs(g, cm), NEW t \in Tabs(g, cm)
        PROVE  /\ s + 1 < sig /\ g[s].st[t]
               /\ MapFits(g[s].map, t + 1, sig)
               /\ Older(g[s], g[t]) \/ Older(g[t], g[s])
               /\ s < t => Tight(g, cm, s)
    <3>1. s \in Tabs(f, bm) /\ t \in Tabs(f, bm) /\ g[s] = f[s] /\ g[t] = f[t]
      BY DEF Loses
    <3>2. /\ s + 1 < sig /\ f[s].st[t]
          /\ MapFits(f[s].map, t + 1, sig)
          /\ Older(f[s], f[t]) \/ Older(f[t], f[s])
          /\ s < t => Tight(f, bm, s)
      BY <1>2, <3>1 DEF TablesFit
    <3>3. Tight(f, bm, s) => Tight(g, cm, s)
      BY <3>1 DEF Tight, Loses
    <3> QED BY <3>1, <3>2, <3>3
  <2>2. TablesFit(g, cm, sig)
    BY <2>1 DEF TablesFit
  <2>3. Signs(g, cm) = {sig} /\ Tabs(g, cm) \subseteq {x, y}
    BY <1>2 DEF Loses
  <2> QED BY <2>2, <2>3 DEF DiskOK
<1> QED BY <1>1, <1>2 DEF DiskOK

\* ... and the memory has learned of bad blocks, each of them marked.
Worn(f, bm, n, g, cm, m) ==
  /\ Loses(f, bm, g, cm)
  /\ m.map = n.map /\ m.wc = n.wc /\ m.top = n.top /\ m.sig = n.sig /\ m.cache = n.cache
  /\ m.main = n.main /\ m.backup = n.backup /\ m.mba = n.mba /\ m.protected = n.protected
  /\ \A b \in Blocks : (m.st[b] => n.st[b]) /\ (n.st[b] /\ ~m.st[b] => b \in cm)

\* A block that wears out breaks none of the invariant's parts.
LEMMA WornKeeps ==
  ASSUME NEW f \in [Blocks -> Contents], NEW bm, NEW n, NEW g \in [Blocks -> Contents], NEW cm, NEW m,
         Worn(f, bm, n, g, cm, m)
  PROVE  /\ Covers(f, bm, n) => Covers(g, cm, m)
         /\ Ordered(n) => Ordered(m)
         /\ \A p : OldSafe(n, p) => OldSafe(m, p)
         /\ CacheReady(f, bm, n) => CacheReady(g, cm, m)
         /\ \A b \in 0 .. NB : UsedUp(bm, n, b) => UsedUp(cm, m, b)
         /\ \A t \in Tabs(g, cm) : Tight(f, bm, t) => Tight(g, cm, t)
         /\ \A t : KnowsBad(bm, n, t) => KnowsBad(cm, m, t)
         /\ SameMaps(f, bm) => SameMaps(g, cm)
         /\ Synced(f, bm, n) => Synced(g, cm, m)
<1>1. /\ Loses(f, bm, g, cm)
      /\ m.map = n.map /\ m.wc = n.wc /\ m.top = n.top /\ m.sig = n.sig /\ m.cache = n.cache
      /\ m.main = n.main /\ m.backup = n.backup /\ m.mba = n.mba /\ m.protected = n.protected
      /\ \A b \in Blocks : (m.st[b] => n.st[b]) /\ (n.st[b] /\ ~m.st[b] => b \in cm)
  BY DEF Worn
<1>2. /\ bm \subseteq cm /\ Signs(g, cm) = Signs(f, bm) /\ Tabs(g, cm) \subseteq Tabs(f, bm)
      /\ \A t \in Tabs(g, cm) : g[t] = f[t]
  BY <1>1 DEF Loses
<1>3. ASSUME NEW t \in Tabs(g, cm), Fits(f, n, t) PROVE Fits(g, m, t)
  <2>1. t \in Blocks /\ t \notin cm /\ g[t] = f[t]
    BY <1>2, TabsIs
  <2>2. n.st[t]
    BY <1>3 DEF Fits
  <2>3. m.st[t]
    BY <1>1, <2>1, <2>2
  <2> QED BY <1>1, <1>3, <2>1, <2>3 DEF Fits
<1>4. Covers(f, bm, n) => Covers(g, cm, m)
  BY <1>1, <1>2, <1>3 DEF Covers
<1>5. Ordered(n) => Ordered(m)
  BY <1>1 DEF Ordered
<1>6. \A p : OldSafe(n, p) => OldSafe(m, p)
  BY <1>1 DEF OldSafe
<1>7. \A t : KnowsBad(bm, n, t) => KnowsBad(cm, m, t)
  BY <1>1, <1>2 DEF KnowsBad
<1>8. CacheReady(f, bm, n) => CacheReady(g, cm, m)
  BY <1>1, <1>2, <1>7 DEF CacheReady
<1>9. \A b \in 0 .. NB : UsedUp(bm, n, b) => UsedUp(cm, m, b)
  <2>1. ASSUME NEW b \in 0 .. NB, UsedUp(bm, n, b), NEW c \in MgmtStart .. b - 1
        PROVE  c \in cm \/ ~m.st[c]
    <3>1. c \in bm \/ ~n.st[c]
      BY <2>1 DEF UsedUp
    <3>2. c \in Blocks
      BY Sizes DEF Blocks
    <3> QED BY <1>1, <1>2, <3>1, <3>2
  <2> QED BY <2>1 DEF UsedUp
<1>10. \A t \in Tabs(g, cm) : Tight(f, bm, t) => Tight(g, cm, t)
  BY <1>2 DEF Tight
<1>11. SameMaps(f, bm) => SameMaps(g, cm)
  BY <1>2 DEF SameMaps
<1>12. Synced(f, bm, n) => Synced(g, cm, m)
  BY <1>1, <1>2 DEF Synced
<1> QED BY <1>4, <1>5, <1>6, <1>7, <1>8, <1>9, <1>10, <1>11, <1>12

-----------------------------------------------------------------------------
(* A range of blocks is searched. *)

\* b is the first block the search from p.ba on can use.
FirstUsable(bm, n, p, b) ==
  /\ b \in p.ba .. p.limit - 1 /\ b \notin bm /\ n.st[b]
  /\ \A c \in p.ba .. b - 1 : c \in bm \/ ~n.st[c]

\* The search goes on to b, which is erased, or past it.
Advanced(q, p, b, cm) ==
  /\ q.at = p.at /\ q.limit = p.limit /\ q.wba = p.wba /\ q.tmp = p.tmp /\ q.ok = p.ok
  /\ SameCaller(q, p)
  /\ \/ q.ba = b
     \/ q.ba = b + 1 /\ ~q.prog /\ (b \in cm \/ p.at \in Erasers)

\* No block in front of the place of the search can be used.
LEMMA UsedUpTo ==
  ASSUME NEW bm, NEW n, NEW cm, NEW m, NEW p \in Places, NEW q \in Places, NEW b \in Blocks,
         p.at \notin Erasers,
         FirstUsable(bm, n, p, b), Advanced(q, p, b, cm),
         bm \subseteq cm, \A c \in Blocks : m.st[c] => n.st[c],
         UsedUp(bm, n, p.ba)
  PROVE  UsedUp(cm, m, q.ba)
<1>1. p.ba \in Nat /\ q.ba \in Nat /\ b \in Nat
  BY PlaceIs, Sizes
<1>2. ASSUME NEW c \in MgmtStart .. q.ba - 1 PROVE c \in cm \/ ~m.st[c]
  <2>1. c \in Nat /\ c < q.ba /\ MgmtStart <= c
    BY <1>1, Sizes
  <2>2. (q.ba = b \/ (q.ba = b + 1 /\ b \in cm))
    BY DEF Advanced
  <2>3. c < b \/ (c = b /\ b \in cm)
    BY <1>1, <2>1, <2>2
  <2>4. CASE c < b
    <3>1. c \in Blocks
      BY <2>1, <2>4, BlockBounds
    <3>2. CASE c < p.ba
      <4>1. c \in MgmtStart .. p.ba - 1
        BY <1>1, <2>1, <3>2, Sizes
      <4>2. c \in bm \/ ~n.st[c]
        BY <4>1 DEF UsedUp
      <4> QED BY <3>1, <4>2
    <3>3. CASE ~(c < p.ba)
      <4>1. c \in p.ba .. b - 1
        BY <1>1, <2>1, <2>4, <3>3
      <4>2. c \in bm \/ ~n.st[c]
        BY <4>1 DEF FirstUsable
      <4> QED BY <3>1, <4>2
    <3> QED BY <3>2, <3>3
  <2> QED BY <2>3, <2>4
<1> QED BY <1>2 DEF UsedUp

\* A table the search meets first is the one it replaces.
LEMMA ReplacesOn ==
  ASSUME NEW f \in [Blocks -> Contents], NEW bm, NEW n \in Instances, NEW p \in Places,
         NEW g, NEW cm, NEW q \in Places, NEW b \in Blocks, NEW x \in Nat,
         FirstUsable(bm, n, p, b), Advanced(q, p, b, cm), Loses(f, bm, g, cm),
         b \notin Tabs(g, cm), Replaces(f, bm, p, x), x \in Tabs(f, bm) => n.st[x]
  PROVE  Replaces(g, cm, q, x)
<1>1. p.ba \in Nat /\ q.ba \in Nat /\ b \in Nat /\ p.limit \in Nat
  BY PlaceIs, Sizes
<1>2. p.ba <= b /\ b < p.limit /\ b <= q.ba
  <2>1. p.ba <= b /\ b < p.limit
    BY <1>1 DEF FirstUsable
  <2>2. q.ba = b \/ q.ba = b + 1
    BY DEF Advanced
  <2> QED BY <1>1, <2>1, <2>2
<1>3. x # None /\ x <= p.ba
  BY DEF Replaces
<1>4. x <= q.ba
  BY <1>1, <1>2, <1>3
<1>5. ASSUME x \in Tabs(g, cm) PROVE FALSE
  <2>1. x \in Tabs(f, bm)
    BY <1>5 DEF Loses
  <2>2. x = p.ba /\ x \notin bm /\ n.st[x]
    BY <2>1, TabsIs DEF Replaces
  <2>3. x # b
    BY <1>5
  <2>4. x \in p.ba .. b - 1
    BY <1>1, <1>2, <2>2, <2>3
  <2> QED BY <2>2, <2>4 DEF FirstUsable
<1> QED BY <1>3, <1>4, <1>5 DEF Replaces

\* What is known of the flash at each site stays true while the search goes on.
LEMMA SiteOn ==
  ASSUME NEW f \in [Blocks -> Contents], NEW bm, NEW n \in Instances, NEW p \in Places,
         NEW g \in [Blocks -> Contents], NEW cm, NEW m \in Instances, NEW q \in Places,
         NEW b \in Blocks,
         FirstUsable(bm, n, p, b), Advanced(q, p, b, cm), Worn(f, bm, n, g, cm, m),
         Tabs(g, cm) = Tabs(f, bm) \ {b},
         Covers(f, bm, n), Ordered(n), Site(f, bm, n, p)
  PROVE  Site(g, cm, m, q)
<1>1. /\ p.ba \in Nat /\ q.ba \in Nat /\ b \in Nat /\ p.limit \in Nat /\ p.tmp \in Nat
      /\ p.wba \in Nat /\ n.main \in Nat /\ n.backup \in Nat /\ n.mba \in Nat /\ n.top \in Nat
  BY PlaceIs, InstanceIs, Sizes
<1>2. p.ba <= b /\ b < p.limit /\ b <= q.ba
  <2>1. p.ba <= b /\ b < p.limit
    BY <1>1 DEF FirstUsable
  <2>2. q.ba = b \/ q.ba = b + 1
    BY DEF Advanced
  <2> QED BY <1>1, <2>1, <2>2
<1>3. /\ Loses(f, bm, g, cm) /\ bm \subseteq cm
      /\ \A t \in Tabs(g, cm) : t \in Tabs(f, bm) /\ g[t] = f[t]
      /\ \A c \in Blocks : m.st[c] => n.st[c]
  BY DEF Worn, Loses
<1>4. /\ m.map = n.map /\ m.wc = n.wc /\ m.top = n.top /\ m.sig = n.sig /\ m.cache = n.cache
      /\ m.main = n.main /\ m.backup = n.backup /\ m.mba = n.mba
  BY DEF Worn
<1>5. /\ q.at = p.at /\ q.limit = p.limit /\ q.wba = p.wba /\ q.tmp = p.tmp /\ q.ret = p.ret
  BY DEF Advanced, SameCaller
<1>6. /\ \A c \in 0 .. NB : UsedUp(bm, n, c) => UsedUp(cm, m, c)
      /\ \A t \in Tabs(g, cm) : Tight(f, bm, t) => Tight(g, cm, t)
      /\ \A t : KnowsBad(bm, n, t) => KnowsBad(cm, m, t)
      /\ SameMaps(f, bm) => SameMaps(g, cm)
      /\ Synced(f, bm, n) => Synced(g, cm, m)
  BY WornKeeps
<1>7. p.at \notin Erasers /\ UsedUp(bm, n, p.ba) => UsedUp(cm, m, q.ba)
  BY <1>3, UsedUpTo
<1>8. \A t \in Tabs(f, bm) : n.st[t] /\ t < n.top
  BY DEF Covers, Fits
<1>9. \A x \in Nat : Replaces(f, bm, p, x) => Replaces(g, cm, q, x)
  BY <1>3, <1>8, ReplacesOn
<1>10. /\ MgmtStart < n.mba /\ n.mba <= n.top
       /\ n.main # None => MgmtStart <= n.main /\ n.main < n.mba
       /\ n.backup # None => n.main # None /\ n.main < n.backup /\ n.backup < n.mba
  BY DEF Ordered
<1>11. \A t \in Tabs(f, bm) : t # None
  BY TabsIs
<1> HIDE DEF FirstUsable
<1>20. ASSUME p.at = "update_backup" PROVE AtUpdateBackup(g, cm, m, q)
  <2>1. AtUpdateBackup(f, bm, n, p)
    BY <1>20 DEF Site
  <2>2. n.main \in Tabs(g, cm)
    <3>1. n.main \in Tabs(f, bm) /\ n.backup # None /\ n.backup <= p.ba
      BY <2>1 DEF AtUpdateBackup, Replaces
    <3>2. n.main < b
      BY <1>1, <1>2, <1>10, <3>1
    <3> QED BY <1>1, <3>1, <3>2
  <2> QED BY <1>1, <1>3, <1>4, <1>5, <1>6, <1>9, <2>1, <2>2 DEF AtUpdateBackup
<1>21. ASSUME p.at = "update_main" PROVE AtUpdateMain(g, cm, m, q)
  <2>1. AtUpdateMain(f, bm, n, p)
    BY <1>21 DEF Site
  <2>2. UsedUp(cm, m, q.ba)
    BY <1>7, <1>21, <2>1 DEF AtUpdateMain, Erasers
  <2>3. n.backup # None => n.backup \in Tabs(g, cm) /\ g[n.backup] = n.cache
    <3>1. n.backup # None => n.backup \in Tabs(f, bm) /\ f[n.backup] = n.cache /\ p.limit = n.backup
      BY <2>1 DEF AtUpdateMain
    <3>2. n.backup # None => n.backup # b
      BY <1>1, <1>2, <3>1
    <3> QED BY <1>3, <3>1, <3>2
  <2> QED BY <1>1, <1>3, <1>4, <1>5, <1>9, <2>1, <2>2, <2>3 DEF AtUpdateMain
<1>22. ASSUME p.at = "rebuild_main" PROVE AtRebuildMain(g, cm, m, q)
  <2>1. AtRebuildMain(f, bm, n, p)
    BY <1>22 DEF Site
  <2>2. UsedUp(cm, m, q.ba)
    BY <1>7, <1>22, <2>1 DEF AtRebuildMain, Erasers
  <2>3. MgmtStart <= q.ba
    BY <1>1, <1>2, <2>1, Sizes DEF AtRebuildMain
  <2> QED BY <1>3, <1>4, <1>5, <2>1, <2>2, <2>3 DEF AtRebuildMain
<1>23. ASSUME p.at = "rebuild_backup" PROVE AtRebuildBackup(g, cm, m, q)
  <2>1. AtRebuildBackup(f, bm, n, p)
    BY <1>23 DEF Site
  <2>2. p.tmp = n.main + 1 /\ p.tmp <= p.ba /\ Tabs(f, bm) = {n.main}
    BY <2>1 DEF AtRebuildBackup
  <2>3. n.main < b /\ p.tmp <= q.ba
    BY <1>1, <1>2, <2>2
  <2>4. Tabs(g, cm) = {n.main}
    BY <1>1, <2>2, <2>3
  <2> QED BY <1>4, <1>5, <1>6, <2>1, <2>3, <2>4 DEF AtRebuildBackup
<1>24. ASSUME AtEraseBetween(f, bm, n, p) PROVE AtEraseBetween(g, cm, m, q)
  <2>1. /\ Tabs(f, bm) = {n.main, n.backup} /\ n.main < p.ba /\ p.limit = n.backup
    BY <1>24 DEF AtEraseBetween
  <2>2. n.main < b /\ b < n.backup /\ n.main < q.ba
    BY <1>1, <1>2, <2>1
  <2>3. Tabs(g, cm) = {n.main, n.backup}
    BY <1>1, <2>1, <2>2
  <2> QED BY <1>4, <1>5, <1>6, <1>24, <2>2, <2>3 DEF AtEraseBetween
<1>25. ASSUME p.at = "rescue_front" PROVE AtRescueFront(g, cm, m, q)
  <2>1. AtRescueFront(f, bm, n, p)
    BY <1>25 DEF Site
  <2>2. UsedUp(cm, m, q.ba)
    BY <1>7, <1>25, <2>1 DEF AtRescueFront, Erasers
  <2>3. Tabs(f, bm) = {n.main} /\ p.limit = n.main /\ MgmtStart <= p.ba
    BY <2>1 DEF AtRescueFront
  <2>4. b # n.main /\ MgmtStart <= q.ba
    BY <1>1, <1>2, <2>3, Sizes
  <2>5. Tabs(g, cm) = {n.main} /\ g[n.main] = f[n.main]
    BY <1>3, <2>3, <2>4
  <2>6. ASSUME NEW c \in MgmtStart .. n.main - 1, f[n.main].st[c], ~m.st[c] PROVE c \in cm
    <3>1. c \in Blocks
      BY <1>1, InstanceIs, Sizes DEF Blocks
    <3>2. ~n.st[c] => c \in bm
      BY <2>1, <2>6 DEF AtRescueFront
    <3> QED BY <1>3, <2>6, <3>1, <3>2 DEF Worn
  <2> QED BY <1>4, <1>5, <1>6, <2>1, <2>2, <2>4, <2>5, <2>6 DEF AtRescueFront
<1>26. ASSUME p.at = "rescue_behind" PROVE AtRescueBehind(g, cm, m, q)
  <2>1. AtRescueBehind(f, bm, n, p)
    BY <1>26 DEF Site
  <2>2. /\ Tabs(f, bm) = {n.main} /\ n.mba <= p.wba /\ p.wba <= p.ba
    BY <2>1 DEF AtRescueBehind
  <2>3. n.main # None
    BY <1>11, <2>2
  <2>4. n.main < b /\ p.wba <= q.ba
    BY <1>1, <1>2, <1>10, <2>2, <2>3
  <2>5. Tabs(g, cm) = {n.main}
    BY <1>1, <2>2, <2>4
  <2> QED BY <1>4, <1>5, <1>6, <2>1, <2>4, <2>5 DEF AtRescueBehind
<1>27. ASSUME p.at = "erase_behind" PROVE AtEraseBehind(g, cm, m, q)
  <2>1. AtEraseBehind(f, bm, n, p)
    BY <1>27 DEF Site
  <2>2. Tabs(f, bm) = {n.main, p.tmp} /\ n.mba <= p.ba /\ p.limit = p.tmp
    BY <2>1 DEF AtEraseBehind
  <2>3. n.main # None
    BY <1>11, <2>2
  <2>4. n.main < b /\ b < p.tmp /\ n.mba <= q.ba
    BY <1>1, <1>2, <1>10, <2>2, <2>3
  <2>5. Tabs(g, cm) = {n.main, p.tmp}
    BY <1>1, <2>2, <2>4
  <2> QED BY <1>4, <1>5, <1>6, <2>1, <2>4, <2>5 DEF AtEraseBehind
<1>28. ASSUME p.at = "single_main" PROVE AtSingleMain(g, cm, m, q)
  <2>1. AtSingleMain(f, bm, n, p)
    BY <1>28 DEF Site
  <2>2. UsedUp(cm, m, q.ba)
    BY <1>7, <1>28, <2>1 DEF AtSingleMain, Erasers
  <2>3. n.backup \in Tabs(f, bm) /\ p.limit = n.backup
    BY <2>1 DEF AtSingleMain
  <2>4. n.backup \in Tabs(g, cm) /\ g[n.backup] = f[n.backup]
    BY <1>1, <1>2, <1>3, <2>3
  <2> QED BY <1>1, <1>3, <1>4, <1>5, <1>6, <1>9, <2>1, <2>2, <2>4 DEF AtSingleMain
<1>29. ASSUME p.at = "single_backup" PROVE AtSingleBackup(g, cm, m, q)
  <2>1. AtSingleBackup(f, bm, n, p)
    BY <1>29 DEF Site
  <2>2. n.main \in Tabs(f, bm) /\ n.backup # None /\ n.backup <= p.ba
    BY <2>1 DEF AtSingleBackup, Replaces
  <2>3. n.main < b
    BY <1>1, <1>2, <1>10, <2>2
  <2>4. n.main \in Tabs(g, cm) /\ g[n.main] = f[n.main]
    BY <1>1, <1>3, <2>2, <2>3
  <2> QED BY <1>1, <1>3, <1>4, <1>5, <1>6, <1>9, <2>1, <2>4 DEF AtSingleBackup
<1>30. ASSUME p.at = "rescue_tmp" PROVE AtRescueTmp(g, cm, m, q)
  <2>1. AtRescueTmp(f, bm, n, p)
    BY <1>30 DEF Site
  <2>2. Tabs(f, bm) = {n.backup} /\ n.backup # None /\ n.mba <= p.wba /\ p.wba <= p.ba
    BY <2>1 DEF AtRescueTmp
  <2>3. n.backup < b /\ p.wba <= q.ba
    BY <1>1, <1>2, <1>10, <2>2
  <2>4. Tabs(g, cm) = {n.backup}
    BY <1>1, <2>2, <2>3
  <2>5. n.backup \in 0 .. NB
    BY InstanceIs, BlockBounds
  <2> QED BY <1>4, <1>5, <1>6, <2>1, <2>3, <2>4, <2>5 DEF AtRescueTmp
<1>31. ASSUME p.at = "rescue_main" PROVE AtRescueMain(g, cm, m, q)
  <2>1. AtRescueMain(f, bm, n, p)
    BY <1>31 DEF Site
  <2>2. UsedUp(cm, m, q.ba)
    BY <1>7, <1>31, <2>1 DEF AtRescueMain, Erasers
  <2>3. /\ p.tmp \in Tabs(f, bm) /\ Tabs(f, bm) \subseteq {n.backup, p.tmp}
        /\ n.backup < p.tmp /\ p.limit = p.tmp /\ MgmtStart <= p.ba
        /\ n.backup \in Tabs(f, bm) => p.ba <= n.backup /\ ~p.prog
    BY <2>1 DEF AtRescueMain
  <2>4. p.tmp \in Tabs(g, cm) /\ g[p.tmp] = f[p.tmp] /\ MgmtStart <= q.ba
    BY <1>1, <1>2, <1>3, <2>3, Sizes
  <2>5. n.backup \in 0 .. NB
    BY InstanceIs, BlockBounds
  <2>6. ASSUME n.backup \in Tabs(g, cm) PROVE q.ba <= n.backup /\ ~q.prog
    <3>1. n.backup \in Tabs(f, bm) /\ n.backup # b
      BY <2>6
    <3>2. n.backup \notin bm /\ n.st[n.backup] /\ p.ba <= n.backup
      BY <1>8, <2>3, <3>1, TabsIs
    <3>3. ~(n.backup < b)
      <4>1. n.backup < b => n.backup \in p.ba .. b - 1
        BY <1>1, <3>2
      <4> QED BY <3>2, <4>1 DEF FirstUsable
    <3>4. b \in MgmtStart .. n.backup - 1
      BY <1>1, <1>2, <2>3, <3>1, <3>3, Sizes
    <3>5. b \in bm \/ ~n.st[b]
      BY <2>1, <3>4 DEF AtRescueMain, UsedUp
    <3> QED BY <3>5 DEF FirstUsable
  <2> QED BY <1>4, <1>5, <1>6, <2>1, <2>2, <2>3, <2>4, <2>5, <2>6 DEF AtRescueMain
<1> QED BY <1>5, <1>20, <1>21, <1>22, <1>23, <1>24, <1>25, <1>26, <1>27, <1>28, <1>29, <1>30, <1>31 DEF Site

-----------------------------------------------------------------------------
(* What the functions that write tables can rely on. *)

\* The memory is fine and the cache holds the table to be written.
Ready(f, bm, n, p) ==
  /\ Covers(f, bm, n) /\ OldSafe(n, p) /\ CacheReady(f, bm, n)
  /\ ~n.protected /\ p.ok
  /\ p.ret \notin Updates => ~p.mark

Base(f, bm, n, p) == Ready(f, bm, n, p) /\ Ordered(n)

\* At a site of the table writers Fine is Base and what the site says.
LEMMA AtSite ==
  ASSUME NEW f, NEW bm, NEW n, NEW p, p.at \in TableSites
  PROVE  Fine(f, bm, n, p) <=>
           /\ Base(f, bm, n, p) /\ Site(f, bm, n, p)
           /\ p.prog => p.ba \notin Tabs(f, bm) /\ p.ba \notin bm /\ n.st[p.ba]
<1>1. p.at # "signature" /\ p.at \notin RestSites /\ p.at \in TableSites \union RestSites
  BY DEF TableSites, RestSites, Writers, Erasers
<1> QED BY <1>1 DEF Fine, Writing, Base, Ready

\* The parts of the memory that no assignment to the places of the tables changes.
LEMMA SameCoreKeeps ==
  ASSUME NEW f, NEW bm, NEW n, NEW p, NEW m, NEW q, Base(f, bm, n, p),
         SameCore(m, n), Ordered(m), SameCaller(q, p), q.ok
  PROVE  Base(f, bm, m, q)
<1>1. /\ m.st = n.st /\ m.map = n.map /\ m.wc = n.wc /\ m.top = n.top /\ m.sig = n.sig
      /\ m.cache = n.cache /\ m.protected = n.protected
      /\ q.ret = p.ret /\ q.mark = p.mark /\ q.old = p.old
  BY DEF SameCore, SameCaller
<1>2. Covers(f, bm, m)
  <2>1. \A t \in Tabs(f, bm) : Fits(f, m, t)
    BY <1>1 DEF Base, Ready, Covers, Fits
  <2> QED BY <1>1, <2>1 DEF Base, Ready, Covers
<1>3. CacheReady(f, bm, m)
  BY <1>1 DEF Base, Ready, CacheReady, KnowsBad
<1>4. OldSafe(m, q)
  BY <1>1 DEF Base, Ready, OldSafe
<1> QED BY <1>1, <1>2, <1>3, <1>4 DEF Base, Ready

\* The next write or erase begins.
LEMMA ToSite ==
  ASSUME NEW f, NEW bm, NEW n, NEW p, NEW m, NEW q, Base(f, bm, n, p),
         SameCore(m, n), Ordered(m), SameCaller(q, p), q.ok,
         q.at \in TableSites, ~q.prog, Site(f, bm, m, q)
  PROVE  Fine(f, bm, m, q)
BY SameCoreKeeps, AtSite

\* The function returns.
LEMMA ToReturn ==
  ASSUME NEW f, NEW bm, NEW n, NEW p, NEW m, NEW q, Base(f, bm, n, p),
         SameCore(m, n), Ordered(m), SameCaller(q, p), q.at = "return",
         Tabs(f, bm) \subseteq {m.main, m.backup}, SameMaps(f, bm),
         m.main \in Tabs(f, bm), Tight(f, bm, m.main),
         p.ret \in Updates => q.ok /\ Synced(f, bm, n),
         q.ok => Synced(f, bm, n)
  PROVE  Fine(f, bm, m, q)
<1>1. LET r == [ok |-> TRUE, ret |-> p.ret, mark |-> p.mark, old |-> p.old,
                lb |-> p.lb, copy |-> p.copy]
      IN  Base(f, bm, m, r)
  <2> DEFINE r == [ok |-> TRUE, ret |-> p.ret, mark |-> p.mark, old |-> p.old,
                   lb |-> p.lb, copy |-> p.copy]
  <2>1. SameCaller(r, p) /\ r.ok
    BY DEF SameCaller
  <2> HIDE DEF r
  <2>2. Base(f, bm, m, r)
    BY <2>1, SameCoreKeeps
  <2> QED BY <2>2 DEF r
<1>2. Covers(f, bm, m) /\ ~m.protected
  BY <1>1 DEF Base, Ready
<1>3. /\ q.ret = p.ret /\ q.mark = p.mark /\ q.old = p.old /\ m.top = n.top /\ m.sig = n.sig
      /\ m.map = n.map
  BY DEF SameCaller, SameCore
<1>4. OldSafe(m, q)
  BY <1>3 DEF Base, Ready, OldSafe
<1>5. Synced(f, bm, n) => Synced(f, bm, m)
  BY <1>3 DEF Synced
<1>6. /\ q.at # "signature" /\ q.at \in RestSites /\ q.at \notin TableSites
      /\ q.at \notin {"idle", "create_map", "remap_erase", "remap_copy"}
  BY DEF RestSites, TableSites, Writers, Erasers
<1>7. p.ret \notin Updates => ~p.mark
  BY DEF Base, Ready
<1>8. Resting(f, bm, m, q)
  BY <1>2, <1>3, <1>5, <1>6, <1>7 DEF Resting
<1> QED BY <1>2, <1>4, <1>6, <1>8 DEF Fine

\* A range is used up: the table it began with is gone.
Exhausted(bm, n, p) == \A c \in p.ba .. p.limit - 1 : c \in bm \/ ~n.st[c]

\* When no block of the range was left for it, the table being replaced is gone.
LEMMA ReplacedGone ==
  ASSUME NEW f \in [Blocks -> Contents], NEW bm, NEW n, NEW p \in Places, NEW x \in Nat,
         Covers(f, bm, n), Exhausted(bm, n, p), Replaces(f, bm, p, x), x < p.limit
  PROVE  x \notin Tabs(f, bm)
<1>1. SUFFICES ASSUME x \in Tabs(f, bm) PROVE FALSE
  OBVIOUS
<1>2. x = p.ba /\ x \notin bm
  BY <1>1, TabsIs DEF Replaces
<1>3. n.st[x]
  BY <1>1 DEF Covers, Fits
<1>4. x \in p.ba .. p.limit - 1
  BY <1>2, PlaceIs
<1> QED BY <1>2, <1>3, <1>4 DEF Exhausted

\* When no block of the range can be used, none up to its limit can.
LEMMA UsedUpAll ==
  ASSUME NEW bm, NEW n, NEW p \in Places, Exhausted(bm, n, p), UsedUp(bm, n, p.ba)
  PROVE  UsedUp(bm, n, p.limit)
<1>1. p.ba \in Nat /\ p.limit \in Nat
  BY PlaceIs
<1>2. ASSUME NEW c \in MgmtStart .. p.limit - 1 PROVE c \in bm \/ ~n.st[c]
  <2>1. c \in Nat /\ MgmtStart <= c /\ c < p.limit
    BY <1>1, Sizes
  <2>2. c \in MgmtStart .. p.ba - 1 \/ c \in p.ba .. p.limit - 1
    BY <1>1, <2>1, Sizes
  <2> QED BY <2>2 DEF UsedUp, Exhausted
<1> QED BY <1>2 DEF UsedUp

\* Tight, by what the memory knows.
LEMMA TightByMemory ==
  ASSUME NEW f, NEW bm, NEW n, NEW x \in Blocks, UsedUp(bm, n, x),
         \A c \in MgmtStart .. x - 1 : f[x].st[c] /\ ~n.st[c] => c \in bm
  PROVE  Tight(f, bm, x)
BY DEF Tight, UsedUp

\* A table that knows the bad blocks in front of it has no usable one there.
LEMMA TightByKnown ==
  ASSUME NEW f, NEW bm, NEW n, NEW x \in Blocks, UsedUp(bm, n, x), KnowsBad(bm, n, f[x])
  PROVE  Tight(f, bm, x)
<1>1. \A c \in MgmtStart .. x - 1 : c \in Blocks
  BY Sizes DEF Blocks
<1> QED BY <1>1, TightByMemory DEF KnowsBad

\* What a table has not left for use, the memory does not take for usable.
LEMMA UsedUpByTight ==
  ASSUME NEW f \in [Blocks -> Contents], NEW bm, NEW n, NEW x \in Tabs(f, bm),
         Covers(f, bm, n), Tight(f, bm, x)
  PROVE  UsedUp(bm, n, x)
<1>1. ASSUME NEW c \in MgmtStart .. x - 1 PROVE c \in bm \/ ~n.st[c]
  <2>1. c \in Blocks
    BY TabsIs, Sizes DEF Blocks
  <2>2. n.st[c] => f[x].st[c]
    BY <2>1 DEF Covers, Fits
  <2> QED BY <2>2 DEF Tight
<1> QED BY <1>1 DEF UsedUp

-----------------------------------------------------------------------------
(* No block is left for the table. *)

\* The state a function of the driver leaves is fine.
FineStep(f, bm, s) == Fine(f, bm, s.ni, s.pc)

\* The sites at which tables are written or erased.
LEMMA SiteIn ==
  /\ "update_main" \in TableSites /\ "update_backup" \in TableSites
  /\ "rebuild_main" \in TableSites /\ "rebuild_backup" \in TableSites
  /\ "rescue_front" \in TableSites /\ "rescue_behind" \in TableSites
  /\ "rescue_tmp" \in TableSites /\ "rescue_main" \in TableSites
  /\ "single_main" \in TableSites /\ "single_backup" \in TableSites
  /\ "erase_rebuild" \in TableSites /\ "erase_front" \in TableSites
  /\ "erase_behind" \in TableSites
  /\ TableSites \subseteq Sites
BY DEF TableSites, Sites, Writers, Erasers

\* nmbm_rebuild_info_table begins when no table is left.
LEMMA RebuildFine ==
  ASSUME NEW f \in [Blocks -> Contents], NEW bm, NEW n \in Instances, NEW p \in Places,
         Ready(f, bm, n, p), Tabs(f, bm) = {}, MgmtStart < n.top, p.ret # "load"
  PROVE  FineStep(f, bm, RebuildInfoTable(n, p))
<1> DEFINE m == [n EXCEPT !.main = None, !.backup = None, !.mba = n.top]
           s == RebuildInfoTable(n, p)
<1>1. Moved(m, n, None, None, n.top)
  BY Moves, InstanceIs
<1>2. s = Write(m, p, "rebuild_main", MgmtStart, m.top)
  BY DEF RebuildInfoTable
<1> HIDE DEF m, s
<1>3. m \in Instances /\ SameCore(m, n) /\ m.main = None /\ m.backup = None /\ m.mba = n.top
  BY <1>1 DEF Moved
<1>4. m.top \in Blocks /\ MgmtStart \in 0 .. NB /\ "rebuild_main" \in Sites
  BY <1>3, InstanceIs, BlockBounds, Sizes, SiteIn
<1>5. /\ s.ni = m /\ s.pc \in Places
      /\ s.pc.at = "rebuild_main" /\ s.pc.ba = MgmtStart /\ s.pc.limit = m.top /\ ~s.pc.prog
      /\ s.pc.ok = p.ok /\ SameCaller(s.pc, p)
  BY <1>2, <1>4, WriteIs
<1>6. m.top = n.top /\ m.st = n.st /\ m.map = n.map /\ m.wc = n.wc /\ m.sig = n.sig
      /\ m.cache = n.cache /\ m.protected = n.protected
  BY <1>3 DEF SameCore
<1>7. Ordered(m)
  BY <1>3, <1>6, InstanceIs DEF Ordered
<1>8. AtRebuildMain(f, bm, m, s.pc)
  <2>1. UsedUp(bm, m, MgmtStart)
    BY Sizes DEF UsedUp
  <2> QED BY <1>3, <1>5, <2>1, Sizes DEF AtRebuildMain, SameCaller
<1>9. Base(f, bm, m, s.pc)
  <2>1. Covers(f, bm, m)
    BY <1>6 DEF Covers, Ready
  <2>2. CacheReady(f, bm, m)
    BY <1>6 DEF CacheReady, KnowsBad, Ready
  <2>3. OldSafe(m, s.pc)
    BY <1>5, <1>6 DEF OldSafe, SameCaller, Ready
  <2> QED BY <1>5, <1>6, <1>7, <2>1, <2>2, <2>3 DEF Base, Ready, SameCaller
<1>10. Site(f, bm, m, s.pc)
  BY <1>5, <1>8 DEF Site
<1>11. s.pc.at \in TableSites
  BY <1>5, SiteIn
<1>12. Fine(f, bm, m, s.pc)
  BY <1>5, <1>9, <1>10, <1>11, AtSite
<1> QED BY <1>5, <1>12 DEF FineStep, s

\* Writing behind the table begins, or goes on one block lower.
LEMMA BehindFine ==
  ASSUME NEW f \in [Blocks -> Contents], NEW bm, NEW n \in Instances, NEW p \in Places,
         Base(f, bm, n, p), NEW wba \in Blocks, n.mba <= wba
  PROVE  /\ /\ Tabs(f, bm) = {n.main} /\ n.backup = None /\ Synced(f, bm, n)
            /\ Tight(f, bm, n.main) /\ p.ret = "load"
            => FineStep(f, bm, WriteBehind(n, p, "rescue_behind", wba))
         /\ /\ Tabs(f, bm) = {n.backup} /\ Synced(f, bm, n) /\ n.backup # None
            /\ UsedUp(bm, n, n.backup) /\ Tight(f, bm, n.backup) /\ p.ret \in Updates
            => FineStep(f, bm, WriteBehind(n, p, "rescue_tmp", wba))
<1>1. ASSUME NEW site \in {"rescue_behind", "rescue_tmp"}
      PROVE  LET s == WriteBehind(n, p, site, wba)
             IN  Site(f, bm, n, s.pc) => FineStep(f, bm, s)
  <2> DEFINE s == WriteBehind(n, p, site, wba)
  <2>1. site \in Sites /\ site \in TableSites /\ n.top \in Blocks
    BY SiteIn, InstanceIs
  <2>2. s.ni = n /\ s.pc.at = site /\ ~s.pc.prog /\ s.pc.ok = p.ok /\ SameCaller(s.pc, p)
    BY <2>1, WriteBehindIs
  <2> HIDE DEF s
  <2>3. SameCore(n, n) /\ Ordered(n) /\ p.ok
    BY DEF SameCore, Base, Ready
  <2>4. Site(f, bm, n, s.pc) => Fine(f, bm, n, s.pc)
    BY <2>1, <2>2, <2>3, ToSite
  <2> QED BY <2>2, <2>4 DEF FineStep, s
<1>2. ASSUME NEW site \in {"rescue_behind", "rescue_tmp"}
      PROVE  LET q == WriteBehind(n, p, site, wba).pc
             IN  q.at = site /\ q.ba = wba /\ q.wba = wba /\ q.limit = n.top /\ q.ret = p.ret
  <2>1. site \in Sites /\ n.top \in Blocks
    BY SiteIn, InstanceIs
  <2> QED BY <2>1, WriteBehindIs DEF SameCaller
<1>3. wba \in Nat
  BY Sizes
<1>4. ASSUME Tabs(f, bm) = {n.main}, n.backup = None, Synced(f, bm, n),
             Tight(f, bm, n.main), p.ret = "load"
      PROVE  FineStep(f, bm, WriteBehind(n, p, "rescue_behind", wba))
  <2> DEFINE q == WriteBehind(n, p, "rescue_behind", wba).pc
  <2>1. /\ q.at = "rescue_behind" /\ q.ba = wba /\ q.wba = wba /\ q.limit = n.top
        /\ q.ret = p.ret
    BY <1>2
  <2> HIDE DEF q
  <2>2. Site(f, bm, n, q)
    BY <1>3, <1>4, <2>1 DEF Site, AtRescueBehind
  <2> QED BY <1>1, <2>2 DEF q
<1>5. ASSUME Tabs(f, bm) = {n.backup}, Synced(f, bm, n), n.backup # None,
             UsedUp(bm, n, n.backup), Tight(f, bm, n.backup), p.ret \in Updates
      PROVE  FineStep(f, bm, WriteBehind(n, p, "rescue_tmp", wba))
  <2> DEFINE q == WriteBehind(n, p, "rescue_tmp", wba).pc
  <2>1. /\ q.at = "rescue_tmp" /\ q.ba = wba /\ q.wba = wba /\ q.limit = n.top
        /\ q.ret = p.ret
    BY <1>2
  <2> HIDE DEF q
  <2>2. Site(f, bm, n, q)
    BY <1>3, <1>5, <2>1 DEF Site, AtRescueTmp
  <2> QED BY <1>1, <2>2 DEF q
<1> QED BY <1>4, <1>5

\* The main table is written next.
LEMMA WriteMainFine ==
  ASSUME NEW f \in [Blocks -> Contents], NEW bm, NEW n \in Instances, NEW p \in Places,
         Base(f, bm, n, p), NEW m \in Instances, SameCore(m, n), Ordered(m), NEW limit \in Blocks,
         m.main \in Tabs(f, bm), Tabs(f, bm) \subseteq {m.main, m.backup},
         Tight(f, bm, m.main),
         limit = IF m.backup = None THEN m.top ELSE m.backup,
         m.backup # None => m.backup \in Tabs(f, bm) /\ f[m.backup] = m.cache,
         p.ret \in Updates
  PROVE  FineStep(f, bm, WriteMain(m, p, limit))
<1> DEFINE s == WriteMain(m, p, limit)
<1>1. m.main # None /\ m.main \in 0 .. NB /\ m.main \in Nat
  BY TabsIs, InstanceIs, BlockBounds
<1>2. s = Write(m, p, "update_main", m.main, limit)
  BY <1>1 DEF WriteMain
<1>3. /\ s.ni = m /\ s.pc.at = "update_main" /\ s.pc.ba = m.main /\ s.pc.limit = limit
      /\ ~s.pc.prog /\ s.pc.ok = p.ok /\ SameCaller(s.pc, p)
  BY <1>1, <1>2, SiteIn, WriteIs
<1> HIDE DEF s
<1>4. Covers(f, bm, m)
  BY SameCoreKeeps, <1>3 DEF Base, Ready
<1>5. UsedUp(bm, m, m.main)
  BY <1>4, UsedUpByTight
<1>6. AtUpdateMain(f, bm, m, s.pc)
  BY <1>1, <1>3, <1>5 DEF AtUpdateMain, Replaces, SameCaller
<1>7. Site(f, bm, m, s.pc)
  BY <1>3, <1>6 DEF Site
<1>8. s.pc.at \in TableSites /\ p.ok
  BY <1>3, SiteIn DEF Base, Ready
<1>9. Fine(f, bm, m, s.pc)
  BY <1>3, <1>7, <1>8, ToSite
<1> QED BY <1>3, <1>9 DEF FineStep, s

\* nmbm_rescue_main_info_table begins, or gives up.
LEMMA RescueMainFine ==
  ASSUME NEW f \in [Blocks -> Contents], NEW bm, NEW n \in Instances, NEW p \in Places,
         Base(f, bm, n, p), Tabs(f, bm) = {n.backup}, n.backup # None, Synced(f, bm, n),
         UsedUp(bm, n, n.backup), Tight(f, bm, n.backup), p.ret \in Updates
  PROVE  /\ FineStep(f, bm, Return(BackupBecomesMain(n), p, TRUE))
         /\ FineStep(f, bm, RescueMain(n, p))
<1> DEFINE m == BackupBecomesMain(n)
           s == Return(m, p, TRUE)
           r == TryReserve(n, n.mba)
<1>1. Moved(m, n, n.backup, None, n.mba)
  BY Moves, InstanceIs DEF BackupBecomesMain
<1> HIDE DEF m
<1>2. m \in Instances /\ SameCore(m, n) /\ m.main = n.backup /\ m.backup = None /\ m.mba = n.mba
  BY <1>1 DEF Moved
<1>3. s.ni = m /\ s.pc.at = "return" /\ s.pc.ok /\ SameCaller(s.pc, p)
  BY ReturnIs
<1> HIDE DEF s
<1>4. n.main \in Nat /\ n.backup \in Nat /\ n.mba \in Nat /\ n.top \in Nat /\ n.top \in Blocks
  BY InstanceIs
<1>5. Ordered(m)
  <2>1. m.top = n.top
    BY <1>2 DEF SameCore
  <2> QED BY <1>2, <1>4, <2>1, Sizes DEF Ordered, Base
<1>6. SameMaps(f, bm)
  BY DEF SameMaps
<1>7. Fine(f, bm, m, s.pc)
  BY <1>2, <1>3, <1>5, <1>6, ToReturn
<1>8. FineStep(f, bm, s)
  BY <1>3, <1>7 DEF FineStep
<1>9. RescueMain(n, p) = IF r = None THEN s ELSE WriteBehind(n, p, "rescue_tmp", r)
  BY DEF RescueMain, m, s
<1>10. r = None \/ (r \in Nat /\ n.mba <= r /\ r + 2 <= n.top)
  BY <1>4, ReserveFound
<1> HIDE DEF r
<1>11. r # None => r \in Blocks /\ n.mba <= r
  <2>1. r # None => r \in Nat /\ n.mba <= r /\ r < n.top
    BY <1>4, <1>10
  <2> QED BY <1>4, <2>1, BlockBounds
<1>12. r # None => FineStep(f, bm, WriteBehind(n, p, "rescue_tmp", r))
  BY <1>11, BehindFine
<1> QED BY <1>8, <1>9, <1>12 DEF s, m

\* update_backup has failed: the main table is the only one.
LEMMA UpdateBackupFails ==
  ASSUME NEW f \in [Blocks -> Contents], NEW bm, NEW n \in Instances, NEW p \in Places,
         Base(f, bm, n, p), AtUpdateBackup(f, bm, n, p), Exhausted(bm, n, p),
         p.at = "update_backup"
  PROVE  FineStep(f, bm, WriteNext(n, p, FALSE, None))
<1> DEFINE m == [n EXCEPT !.mba = n.backup, !.backup = None]
<1>1. Moved(m, n, n.main, None, n.backup)
  BY Moves, InstanceIs
<1>2. WriteNext(n, p, FALSE, None) = WriteMain(m, p, n.top)
  BY DEF WriteNext, UpdateOnceNext
<1> HIDE DEF m
<1>3. m \in Instances /\ SameCore(m, n) /\ m.main = n.main /\ m.backup = None /\ m.mba = n.backup
  BY <1>1 DEF Moved
<1>4. /\ n.main \in Nat /\ n.backup \in Nat /\ n.mba \in Nat /\ n.top \in Nat /\ n.top \in Blocks
      /\ p.limit = n.top /\ m.top = n.top
  BY <1>3, InstanceIs DEF AtUpdateBackup, SameCore
<1>5. n.backup # None /\ n.main \in Tabs(f, bm) /\ n.main # None /\ n.main >= MgmtStart
  BY TabsIs DEF AtUpdateBackup, Replaces
<1>6. /\ MgmtStart < n.backup /\ n.backup < n.top /\ n.main < n.backup
  BY <1>4, <1>5, Sizes DEF Ordered, Base
<1>7. n.backup \notin Tabs(f, bm)
  BY <1>4, <1>6, ReplacedGone DEF AtUpdateBackup, Base, Ready
<1>8. Ordered(m)
  BY <1>3, <1>4, <1>5, <1>6, Sizes DEF Ordered
<1>9. Tabs(f, bm) \subseteq {m.main, m.backup} /\ Tight(f, bm, m.main) /\ p.ret \in Updates
  BY <1>3, <1>7 DEF AtUpdateBackup
<1>10. FineStep(f, bm, WriteMain(m, p, n.top))
  BY <1>3, <1>4, <1>5, <1>8, <1>9, WriteMainFine
<1> QED BY <1>2, <1>10

\* The main table finds no block: it is rescued, or the tables are rebuilt.
LEMMA UpdateMainFails ==
  ASSUME NEW f \in [Blocks -> Contents], NEW bm, NEW n \in Instances, NEW p \in Places,
         Base(f, bm, n, p), AtUpdateMain(f, bm, n, p), Exhausted(bm, n, p),
         p.at = "update_main"
  PROVE  FineStep(f, bm, WriteNext(n, p, FALSE, None))
<1>1. WriteNext(n, p, FALSE, None) =
        IF n.backup = None THEN RebuildInfoTable(n, p) ELSE RescueMain(n, p)
  BY DEF WriteNext, UpdateOnceNext
<1>2. /\ n.main \in Nat /\ n.backup \in Nat /\ n.mba \in Nat /\ n.top \in Nat /\ n.backup \in Blocks
      /\ p.limit = IF n.backup = None THEN n.top ELSE n.backup
      /\ n.main # None
  BY InstanceIs DEF AtUpdateMain, Replaces
<1>3. /\ MgmtStart < n.mba /\ n.mba <= n.top /\ n.main < n.mba
      /\ n.backup # None => n.main < n.backup
  BY <1>2 DEF Ordered, Base
<1>4. n.main < p.limit
  BY <1>2, <1>3
<1>5. n.main \notin Tabs(f, bm)
  BY <1>2, <1>4, ReplacedGone DEF AtUpdateMain, Base, Ready
<1>6. UsedUp(bm, n, p.limit)
  BY UsedUpAll DEF AtUpdateMain
<1>7. CASE n.backup = None
  <2>1. Tabs(f, bm) = {}
    <3>1. Tabs(f, bm) \subseteq {n.main, None}
      BY <1>7 DEF AtUpdateMain
    <3>2. \A t \in Tabs(f, bm) : t # None
      BY TabsIs
    <3> QED BY <1>5, <3>1, <3>2
  <2>2. p.ret # "load" /\ MgmtStart < n.top
    BY <1>2, <1>3, Sizes DEF AtUpdateMain, Updates
  <2>3. FineStep(f, bm, RebuildInfoTable(n, p))
    BY <2>1, <2>2, RebuildFine DEF Base
  <2> QED BY <1>1, <1>7, <2>3
<1>8. CASE n.backup # None
  <2>1. Tabs(f, bm) = {n.backup} /\ f[n.backup] = n.cache /\ p.limit = n.backup /\ p.ret \in Updates
    BY <1>5, <1>8 DEF AtUpdateMain
  <2>2. n.cache.map = n.map /\ KnowsBad(bm, n, n.cache)
    BY DEF Base, Ready, CacheReady
  <2>3. Synced(f, bm, n)
    BY <2>1, <2>2 DEF Synced
  <2>4. UsedUp(bm, n, n.backup)
    BY <1>6, <2>1
  <2>5. Tight(f, bm, n.backup)
    BY <1>2, <2>1, <2>2, <2>4, TightByKnown
  <2>6. FineStep(f, bm, RescueMain(n, p))
    BY <1>8, <2>1, <2>3, <2>4, <2>5, RescueMainFine
  <2> QED BY <1>1, <1>8, <2>6
<1> QED BY <1>7, <1>8

\* Nothing can be written: the chip is write protected from now on.
LEMMA RebuildMainFails ==
  ASSUME NEW f \in [Blocks -> Contents], NEW bm, NEW n \in Instances, NEW p \in Places,
         Base(f, bm, n, p), AtRebuildMain(f, bm, n, p), p.at = "rebuild_main"
  PROVE  FineStep(f, bm, WriteNext(n, p, FALSE, None))
<1> DEFINE m == [n EXCEPT !.protected = TRUE]
           s == Return(m, p, FALSE)
<1>1. WriteNext(n, p, FALSE, None) = s
  BY DEF WriteNext, RebuildNext
<1>2. /\ m \in Instances /\ m.protected /\ m.st = n.st /\ m.map = n.map /\ m.wc = n.wc
      /\ m.top = n.top /\ m.sig = n.sig /\ m.main = n.main /\ m.backup = n.backup /\ m.mba = n.mba
  BY DEF Instances
<1> HIDE DEF m
<1>3. s.ni = m /\ s.pc.at = "return" /\ ~s.pc.ok /\ SameCaller(s.pc, p)
  BY ReturnIs
<1> HIDE DEF s
<1>4. Covers(f, bm, m)
  BY <1>2 DEF Base, Ready, Covers, AtRebuildMain
<1>5. Ordered(m)
  BY <1>2 DEF Base, Ordered
<1>6. OldSafe(m, s.pc)
  BY <1>2, <1>3 DEF Base, Ready, OldSafe, SameCaller
<1>7. /\ s.pc.at # "signature" /\ s.pc.at \in RestSites /\ s.pc.at \notin TableSites
      /\ s.pc.at \notin {"idle", "create_map", "remap_erase", "remap_copy"}
  BY <1>3 DEF RestSites, TableSites, Writers, Erasers
<1>8. Resting(f, bm, m, s.pc)
  <2>1. Tabs(f, bm) = {}
    BY DEF AtRebuildMain
  <2>2. s.pc.ret \notin Updates => ~s.pc.mark
    BY <1>3 DEF SameCaller, Base, Ready
  <2> QED BY <1>2, <1>3, <1>7, <2>1, <2>2 DEF Resting, SameMaps
<1> QED BY <1>1, <1>3, <1>4, <1>5, <1>6, <1>7, <1>8 DEF FineStep, Fine

\* The function returns and leaves the memory alone.
LEMMA PlainReturn ==
  ASSUME NEW f \in [Blocks -> Contents], NEW bm, NEW n \in Instances, NEW p \in Places,
         Base(f, bm, n, p), NEW ok \in BOOLEAN,
         Tabs(f, bm) \subseteq {n.main, n.backup}, Synced(f, bm, n), n.main \in Tabs(f, bm),
         Tight(f, bm, n.main), p.ret \in Updates => ok
  PROVE  FineStep(f, bm, Return(n, p, ok))
<1> DEFINE s == Return(n, p, ok)
<1>1. s.ni = n /\ s.pc.at = "return" /\ s.pc.ok = ok /\ SameCaller(s.pc, p)
  BY ReturnIs
<1> HIDE DEF s
<1>2. SameCore(n, n) /\ Ordered(n) /\ SameMaps(f, bm)
  BY DEF SameCore, Base, SameMaps, Synced
<1>3. Fine(f, bm, n, s.pc)
  BY <1>1, <1>2, ToReturn
<1> QED BY <1>1, <1>3 DEF FineStep, s

\* nmbm_rebuild_info_table finds no block for the backup table and goes on without.
LEMMA RebuildBackupFails ==
  ASSUME NEW f \in [Blocks -> Contents], NEW bm, NEW n \in Instances, NEW p \in Places,
         Base(f, bm, n, p), AtRebuildBackup(f, bm, n, p), p.at = "rebuild_backup"
  PROVE  FineStep(f, bm, WriteNext(n, p, FALSE, None))
<1>1. WriteNext(n, p, FALSE, None) = Return(n, p, TRUE)
  BY DEF WriteNext, RebuildNext
<1>2. FineStep(f, bm, Return(n, p, TRUE))
  BY PlainReturn DEF AtRebuildBackup
<1> QED BY <1>1, <1>2

\* nmbm_rescue_single_info_table finds no block in front, and looks behind.
LEMMA RescueFrontFails ==
  ASSUME NEW f \in [Blocks -> Contents], NEW bm, NEW n \in Instances, NEW p \in Places,
         Base(f, bm, n, p), AtRescueFront(f, bm, n, p), Exhausted(bm, n, p),
         p.at = "rescue_front"
  PROVE  FineStep(f, bm, WriteNext(n, p, FALSE, None))
<1> DEFINE r == TryReserve(n, n.mba)
<1>1. WriteNext(n, p, FALSE, None) =
        IF r = None THEN Return(n, p, FALSE) ELSE WriteBehind(n, p, "rescue_behind", r)
  BY DEF WriteNext, RescueSingleNext
<1>2. /\ Tabs(f, bm) = {n.main} /\ n.backup = None /\ Synced(f, bm, n) /\ p.limit = n.main
      /\ p.ret = "load" /\ UsedUp(bm, n, p.ba)
      /\ \A c \in MgmtStart .. n.main - 1 : f[n.main].st[c] /\ ~n.st[c] => c \in bm
  BY DEF AtRescueFront
<1>3. n.mba \in Nat /\ n.top \in Nat /\ n.top \in Blocks /\ n.main \in Blocks
  BY InstanceIs
<1>4. Tight(f, bm, n.main)
  BY <1>2, <1>3, UsedUpAll, TightByMemory
<1>5. r = None \/ (r \in Nat /\ n.mba <= r /\ r + 2 <= n.top)
  BY <1>3, ReserveFound
<1> HIDE DEF r
<1>6. r # None => r \in Blocks /\ n.mba <= r
  <2>1. r # None => r \in Nat /\ n.mba <= r /\ r < n.top
    BY <1>3, <1>5
  <2> QED BY <1>3, <2>1, BlockBounds
<1>7. r # None => FineStep(f, bm, WriteBehind(n, p, "rescue_behind", r))
  BY <1>2, <1>4, <1>6, BehindFine
<1>8. FineStep(f, bm, Return(n, p, FALSE))
  <2>1. p.ret \notin Updates
    BY <1>2 DEF Updates
  <2> QED BY <1>2, <1>4, <2>1, PlainReturn
<1> QED BY <1>1, <1>7, <1>8

\* It finds none behind wba: it starts one block lower, or leaves it at one table.
LEMMA RescueBehindFails ==
  ASSUME NEW f \in [Blocks -> Contents], NEW bm, NEW n \in Instances, NEW p \in Places,
         Base(f, bm, n, p), AtRescueBehind(f, bm, n, p), p.at = "rescue_behind"
  PROVE  FineStep(f, bm, WriteNext(n, p, FALSE, None))
<1>1. WriteNext(n, p, FALSE, None) =
        IF p.wba > n.mba THEN WriteBehind(n, p, "rescue_behind", p.wba - 1)
        ELSE Return(n, p, FALSE)
  BY DEF WriteNext, RescueSingleNext
<1>2. /\ Tabs(f, bm) = {n.main} /\ n.backup = None /\ Synced(f, bm, n)
      /\ p.ret = "load" /\ Tight(f, bm, n.main)
  BY DEF AtRescueBehind
<1>3. n.mba \in Nat /\ p.wba \in Nat /\ p.wba \in Blocks
  BY InstanceIs, PlaceIs
<1>4. p.wba > n.mba => p.wba - 1 \in Blocks /\ n.mba <= p.wba - 1
  <2>1. p.wba > n.mba => p.wba - 1 \in Nat /\ p.wba - 1 <= p.wba /\ n.mba <= p.wba - 1
    BY <1>3
  <2> QED BY <1>3, <2>1, BlockBounds
<1>5. p.wba > n.mba => FineStep(f, bm, WriteBehind(n, p, "rescue_behind", p.wba - 1))
  BY <1>2, <1>4, BehindFine
<1>6. FineStep(f, bm, Return(n, p, FALSE))
  <2>1. p.ret \notin Updates
    BY <1>2 DEF Updates
  <2> QED BY <1>2, <2>1, PlainReturn
<1> QED BY <1>1, <1>5, <1>6

\* The backup table is the one left, and gets another in front of it.
LEMMA SingleMainFails ==
  ASSUME NEW f \in [Blocks -> Contents], NEW bm, NEW n \in Instances, NEW p \in Places,
         Base(f, bm, n, p), AtSingleMain(f, bm, n, p), Exhausted(bm, n, p),
         p.at = "single_main"
  PROVE  FineStep(f, bm, WriteNext(n, p, FALSE, None))
<1> DEFINE m == [n EXCEPT !.main = n.backup, !.backup = None]
           s == Write(m, p, "rescue_front", MgmtStart, m.main)
<1>1. WriteNext(n, p, FALSE, None) = s
  BY DEF WriteNext, UpdateSingleNext, RescueSingle
<1>2. Moved(m, n, n.backup, None, n.mba)
  BY Moves, InstanceIs
<1> HIDE DEF m
<1>3. m \in Instances /\ SameCore(m, n) /\ m.main = n.backup /\ m.backup = None /\ m.mba = n.mba
  BY <1>2 DEF Moved
<1>4. m.main \in Blocks /\ MgmtStart \in 0 .. NB /\ "rescue_front" \in Sites
  BY <1>3, InstanceIs, BlockBounds, Sizes, SiteIn
<1>5. /\ s.ni = m /\ s.pc.at = "rescue_front" /\ s.pc.ba = MgmtStart /\ s.pc.limit = m.main
      /\ ~s.pc.prog /\ s.pc.ok = p.ok /\ SameCaller(s.pc, p)
  BY <1>4, WriteIs
<1> HIDE DEF s
<1>6. /\ n.main \in Nat /\ n.backup \in Nat /\ n.mba \in Nat /\ n.top \in Nat
      /\ n.backup \in Tabs(f, bm) /\ n.backup # None
  BY InstanceIs, TabsIs DEF AtSingleMain
<1>7. MgmtStart < n.mba /\ n.mba <= n.top /\ n.main < n.backup /\ n.backup < n.mba /\ n.main # None
      /\ MgmtStart <= n.main
  BY <1>6 DEF Ordered, Base
<1>8. n.main \notin Tabs(f, bm)
  BY <1>6, <1>7, ReplacedGone DEF AtSingleMain, Base, Ready
<1>9. Ordered(m)
  <2>1. m.top = n.top
    BY <1>3 DEF SameCore
  <2> QED BY <1>3, <1>6, <1>7, <2>1, Sizes DEF Ordered
<1>10. Tabs(f, bm) = {m.main}
  BY <1>3, <1>6, <1>8 DEF AtSingleMain
<1>11. m.map = n.map /\ m.st = n.st
  BY <1>3 DEF SameCore
<1>12. \A c \in MgmtStart .. m.main - 1 : f[m.main].st[c] /\ ~m.st[c] => c \in bm
  <2>1. \A c \in MgmtStart .. m.main - 1 : c \in Blocks
    BY <1>4, Sizes DEF Blocks
  <2> QED BY <1>3, <1>11, <2>1 DEF AtSingleMain, KnowsBad
<1>13. AtRescueFront(f, bm, m, s.pc)
  <2>1. Synced(f, bm, m)
    BY <1>3, <1>10, <1>11 DEF Synced, AtSingleMain
  <2>2. UsedUp(bm, m, MgmtStart)
    BY Sizes DEF UsedUp
  <2>3. s.pc.ret = "load"
    BY <1>5 DEF SameCaller, AtSingleMain
  <2> QED BY <1>3, <1>5, <1>10, <1>12, <2>1, <2>2, <2>3, Sizes DEF AtRescueFront
<1>14. Site(f, bm, m, s.pc)
  BY <1>5, <1>13 DEF Site
<1>15. s.pc.at \in TableSites /\ p.ok
  BY <1>5, SiteIn DEF Base, Ready
<1>16. Fine(f, bm, m, s.pc)
  BY <1>3, <1>5, <1>9, <1>14, <1>15, ToSite
<1> QED BY <1>1, <1>5, <1>16 DEF FineStep

\* nmbm_update_single_info_table finds no block for the backup table.
LEMMA SingleBackupFails ==
  ASSUME NEW f \in [Blocks -> Contents], NEW bm, NEW n \in Instances, NEW p \in Places,
         Base(f, bm, n, p), AtSingleBackup(f, bm, n, p), Exhausted(bm, n, p),
         p.at = "single_backup"
  PROVE  FineStep(f, bm, WriteNext(n, p, FALSE, None))
<1> DEFINE m == [n EXCEPT !.mba = n.backup, !.backup = None]
           s == Return(m, p, FALSE)
<1>1. WriteNext(n, p, FALSE, None) = s
  BY DEF WriteNext, UpdateSingleNext
<1>2. Moved(m, n, n.main, None, n.backup)
  BY Moves, InstanceIs
<1> HIDE DEF m
<1>3. m \in Instances /\ SameCore(m, n) /\ m.main = n.main /\ m.backup = None /\ m.mba = n.backup
  BY <1>2 DEF Moved
<1>4. s.ni = m /\ s.pc.at = "return" /\ ~s.pc.ok /\ SameCaller(s.pc, p)
  BY ReturnIs
<1> HIDE DEF s
<1>5. /\ n.main \in Nat /\ n.backup \in Nat /\ n.mba \in Nat /\ n.top \in Nat
      /\ n.main \in Tabs(f, bm) /\ n.main # None /\ n.backup # None /\ p.limit = n.top
  BY InstanceIs, TabsIs DEF AtSingleBackup, Replaces
<1>6. /\ MgmtStart < n.mba /\ n.mba <= n.top /\ n.main < n.backup /\ n.backup < n.mba
      /\ MgmtStart <= n.main
  BY <1>5 DEF Ordered, Base
<1>7. n.backup \notin Tabs(f, bm)
  <2>1. n.backup < p.limit
    BY <1>5, <1>6
  <2> QED BY <1>5, <2>1, ReplacedGone DEF AtSingleBackup, Base, Ready
<1>8. Ordered(m)
  <2>1. m.top = n.top
    BY <1>3 DEF SameCore
  <2> QED BY <1>3, <1>5, <1>6, <2>1, Sizes DEF Ordered
<1>9. Tabs(f, bm) = {m.main}
  BY <1>3, <1>5, <1>7 DEF AtSingleBackup
<1>10. SameMaps(f, bm) /\ Tight(f, bm, m.main)
  BY <1>3, <1>9 DEF SameMaps, AtSingleBackup
<1>11. p.ret \notin Updates
  BY DEF AtSingleBackup, Updates
<1>12. Fine(f, bm, m, s.pc)
  BY <1>3, <1>4, <1>8, <1>9, <1>10, <1>11, ToReturn
<1> QED BY <1>1, <1>4, <1>12 DEF FineStep

\* nmbm_rescue_main_info_table finds no block for the temporary table: it starts one
\* block lower, or the backup table becomes the main table.
LEMMA RescueTmpFails ==
  ASSUME NEW f \in [Blocks -> Contents], NEW bm, NEW n \in Instances, NEW p \in Places,
         Base(f, bm, n, p), AtRescueTmp(f, bm, n, p), p.at = "rescue_tmp"
  PROVE  FineStep(f, bm, WriteNext(n, p, FALSE, None))
<1>1. WriteNext(n, p, FALSE, None) =
        IF p.wba > n.mba THEN WriteBehind(n, p, "rescue_tmp", p.wba - 1)
        ELSE Return(BackupBecomesMain(n), p, TRUE)
  BY DEF WriteNext, RescueMainNext
<1>2. /\ Tabs(f, bm) = {n.backup} /\ Synced(f, bm, n) /\ n.backup # None
      /\ UsedUp(bm, n, n.backup) /\ Tight(f, bm, n.backup) /\ p.ret \in Updates
  BY DEF AtRescueTmp
<1>3. n.mba \in Nat /\ p.wba \in Nat /\ p.wba \in Blocks
  BY InstanceIs, PlaceIs
<1>4. p.wba > n.mba => p.wba - 1 \in Blocks /\ n.mba <= p.wba - 1
  <2>1. p.wba > n.mba => p.wba - 1 \in Nat /\ p.wba - 1 <= p.wba /\ n.mba <= p.wba - 1
    BY <1>3
  <2> QED BY <1>3, <2>1, BlockBounds
<1>5. p.wba > n.mba => FineStep(f, bm, WriteBehind(n, p, "rescue_tmp", p.wba - 1))
  BY <1>2, <1>4, BehindFine
<1>6. FineStep(f, bm, Return(BackupBecomesMain(n), p, TRUE))
  BY <1>2, RescueMainFine
<1> QED BY <1>1, <1>5, <1>6

\* nmbm_rescue_main_info_table finds no block for the main table: the temporary
\* one becomes the main table.
LEMMA RescueMainFails ==
  ASSUME NEW f \in [Blocks -> Contents], NEW bm, NEW n \in Instances, NEW p \in Places,
         Base(f, bm, n, p), AtRescueMain(f, bm, n, p), Exhausted(bm, n, p),
         p.at = "rescue_main"
  PROVE  FineStep(f, bm, WriteNext(n, p, FALSE, None))
<1> DEFINE m == Clean([n EXCEPT !.main = p.tmp, !.backup = None])
           s == Return(m, p, TRUE)
<1>1. WriteNext(n, p, FALSE, None) = s
  BY DEF WriteNext, RescueMainNext
<1>2. Moved(m, n, p.tmp, None, n.mba)
  BY Moves, InstanceIs, PlaceIs
<1> HIDE DEF m
<1>3. m \in Instances /\ SameCore(m, n) /\ m.main = p.tmp /\ m.backup = None /\ m.mba = n.mba
  BY <1>2 DEF Moved
<1>4. s.ni = m /\ s.pc.at = "return" /\ s.pc.ok /\ SameCaller(s.pc, p)
  BY ReturnIs
<1> HIDE DEF s
<1>5. /\ n.backup \in Nat /\ n.mba \in Nat /\ n.top \in Nat /\ p.tmp \in Nat /\ p.tmp \in Blocks
      /\ p.ba \in Nat /\ p.tmp \in Tabs(f, bm) /\ p.tmp >= MgmtStart /\ p.limit = p.tmp
      /\ n.mba = p.tmp + 1 /\ n.backup < p.tmp
  BY InstanceIs, PlaceIs, TabsIs DEF AtRescueMain
<1>6. n.backup \notin Tabs(f, bm)
  <2>1. SUFFICES ASSUME n.backup \in Tabs(f, bm) PROVE FALSE
    OBVIOUS
  <2>2. p.ba <= n.backup /\ n.st[n.backup] /\ n.backup \notin bm
    BY <2>1, TabsIs DEF AtRescueMain, Base, Ready, Covers, Fits
  <2>3. n.backup \in p.ba .. p.limit - 1
    BY <1>5, <2>2
  <2> QED BY <2>2, <2>3 DEF Exhausted
<1>7. Ordered(m)
  <2>1. m.top = n.top
    BY <1>3 DEF SameCore
  <2> QED BY <1>3, <1>5, <2>1, Sizes DEF Ordered, Base
<1>8. Tabs(f, bm) = {m.main}
  BY <1>3, <1>5, <1>6 DEF AtRescueMain
<1>9. Tight(f, bm, m.main)
  <2>1. UsedUp(bm, n, p.tmp)
    BY <1>5, UsedUpAll DEF AtRescueMain
  <2>2. KnowsBad(bm, n, f[p.tmp])
    BY DEF AtRescueMain, Base, Ready, CacheReady
  <2> QED BY <1>3, <1>5, <2>1, <2>2, TightByKnown
<1>10. SameMaps(f, bm) /\ Synced(f, bm, n)
  BY DEF SameMaps, Synced, AtRescueMain
<1>11. Fine(f, bm, m, s.pc)
  BY <1>3, <1>4, <1>7, <1>8, <1>9, <1>10, ToReturn
<1> QED BY <1>1, <1>4, <1>11 DEF FineStep

\* Whatever write fails for want of blocks, the tables are in order.
LEMMA FailedFine ==
  ASSUME NEW f \in [Blocks -> Contents], NEW bm, NEW n \in Instances, NEW p \in Places,
         Base(f, bm, n, p), Site(f, bm, n, p), Exhausted(bm, n, p),
         p.at \in Writers \ {"signature"}
  PROVE  FineStep(f, bm, WriteNext(n, p, FALSE, None))
<1>1. p.at \in {"update_backup", "update_main", "rebuild_main", "rebuild_backup",
                "rescue_front", "rescue_behind", "single_main", "single_backup",
                "rescue_tmp", "rescue_main"}
  BY DEF Writers
<1> QED BY <1>1, UpdateBackupFails, UpdateMainFails, RebuildMainFails, RebuildBackupFails,
           RescueFrontFails, RescueBehindFails, SingleMainFails, SingleBackupFails,
           RescueTmpFails, RescueMainFails DEF Site

\* The blocks around the new table are erased.
LEMMA ErasedFine ==
  ASSUME NEW f \in [Blocks -> Contents], NEW bm, NEW n \in Instances, NEW p \in Places,
         Base(f, bm, n, p), Site(f, bm, n, p), DiskOK(f, bm), p.at \in Erasers
  PROVE  FineStep(f, bm, EraseNext(n, p))
<1>1. ASSUME NEW x \in Tabs(f, bm), NEW y \in Tabs(f, bm), x < y PROVE Tight(f, bm, x)
  BY <1>1 DEF DiskOK, TablesFit
<1>2. CASE p.at = "erase_behind"
  <2> DEFINE m == Clean([n EXCEPT !.backup = p.tmp, !.mba = p.tmp + 1])
             s == Return(m, p, TRUE)
  <2>1. EraseNext(n, p) = s
    BY <1>2 DEF EraseNext
  <2>2. /\ Tabs(f, bm) = {n.main, p.tmp} /\ n.backup = None /\ Synced(f, bm, n) /\ n.mba <= p.tmp
        /\ p.ret = "load"
    BY <1>2 DEF Site, AtEraseBehind
  <2>3. p.tmp < n.top /\ p.tmp # None /\ n.main # None /\ p.tmp >= MgmtStart
    BY <2>2, TabsIs DEF Base, Ready, Covers, Fits
  <2>4. /\ p.tmp \in Nat /\ p.tmp \in Blocks /\ n.top \in Blocks /\ n.top \in Nat /\ n.main \in Nat
        /\ n.mba \in Nat
    BY InstanceIs, PlaceIs
  <2>5. p.tmp + 1 \in Blocks
    BY <2>3, <2>4, BlockBounds
  <2>6. Moved(m, n, n.main, p.tmp, p.tmp + 1)
    BY <2>4, <2>5, Moves
  <2> HIDE DEF m
  <2>7. /\ m \in Instances /\ SameCore(m, n) /\ m.main = n.main /\ m.backup = p.tmp
        /\ m.mba = p.tmp + 1
    BY <2>6 DEF Moved
  <2>8. s.ni = m /\ s.pc.at = "return" /\ s.pc.ok /\ SameCaller(s.pc, p)
    BY ReturnIs
  <2> HIDE DEF s
  <2>9. n.main < p.tmp /\ MgmtStart <= n.main
    BY <2>2, <2>3, <2>4 DEF Base, Ordered
  <2>10. Ordered(m)
    <3>1. m.top = n.top
      BY <2>7 DEF SameCore
    <3> QED BY <2>3, <2>4, <2>7, <2>9, <3>1, Sizes DEF Ordered
  <2>11. Tight(f, bm, n.main)
    BY <1>1, <2>2, <2>9
  <2>12. SameMaps(f, bm)
    BY <2>2 DEF SameMaps, Synced
  <2>13. Fine(f, bm, m, s.pc)
    BY <2>2, <2>7, <2>8, <2>10, <2>11, <2>12, ToReturn
  <2> QED BY <2>1, <2>8, <2>13 DEF FineStep
<1>3. CASE p.at # "erase_behind"
  <2>1. EraseNext(n, p) = Return(n, p, TRUE)
    BY <1>3 DEF EraseNext
  <2>2. AtEraseBetween(f, bm, n, p)
    BY <1>3 DEF Site, Erasers
  <2>3. Tabs(f, bm) = {n.main, n.backup} /\ n.backup # None /\ Synced(f, bm, n)
    BY <2>2 DEF AtEraseBetween
  <2>4. n.main < n.backup
    BY <2>3 DEF Base, Ordered
  <2>5. Tight(f, bm, n.main)
    BY <1>1, <2>3, <2>4
  <2>6. FineStep(f, bm, Return(n, p, TRUE))
    BY <2>3, <2>5, PlainReturn
  <2> QED BY <2>1, <2>6
<1> QED BY <1>2, <1>3

-----------------------------------------------------------------------------
(* The table is written. *)

\* Block x of the flash f gets the content c.
Puts(g, f, x, c) == g = [f EXCEPT ![x] = c]

\* The flash with the new table in block x.
Programmed(f, bm, n, g, x) ==
  /\ g \in [Blocks -> Contents]
  /\ Tabs(g, bm) = Tabs(f, bm) \union {x}
  /\ g[x] = n.cache /\ g[x].map = n.map
  /\ \A t \in Tabs(f, bm) : g[t] = f[t]
  /\ \A t \in Tabs(f, bm) : Tight(f, bm, t) => Tight(g, bm, t)
  /\ UsedUp(bm, n, x) => Tight(g, bm, x)

\* Programming the cached table to a free block adds it to the tables.
LEMMA ProgramFlash ==
  ASSUME NEW f \in [Blocks -> Contents], NEW bm, NEW n \in Instances, NEW x \in Blocks,
         NEW g, Puts(g, f, x, n.cache),
         x >= MgmtStart, x \notin Tabs(f, bm), x \notin bm, CacheReady(f, bm, n)
  PROVE  Programmed(f, bm, n, g, x) /\ (f[x] # Signature => Signs(g, bm) = Signs(f, bm))
<1>1. n.cache \in Tables /\ n.cache \in Contents /\ n.cache.kind = "table"
  BY InstanceIs, ContentKinds
<1>2. g \in [Blocks -> Contents] /\ g[x] = n.cache /\ \A t \in Blocks : t # x => g[t] = f[t]
  BY <1>1 DEF Puts
<1>3. x \in Area
  BY Sizes DEF Blocks, Area
<1>4. Tabs(g, bm) = Tabs(f, bm) \union {x}
  <2>1. \A t \in Area : t \in Blocks
    BY Sizes
  <2> QED BY <1>1, <1>2, <1>3, <2>1 DEF Tabs
<1>5. \A t \in Tabs(f, bm) : g[t] = f[t]
  <2>1. \A t \in Tabs(f, bm) : t \in Blocks /\ t # x
    BY TabsIs
  <2> QED BY <1>2, <2>1
<1>6. n.cache # Signature
  BY <1>1 DEF Signature
<1>7. f[x] # Signature => Signs(g, bm) = Signs(f, bm)
  BY <1>2, <1>6 DEF Signs
<1>8. n.cache.map = n.map /\ KnowsBad(bm, n, n.cache)
  BY DEF CacheReady
<1>9. UsedUp(bm, n, x) => Tight(g, bm, x)
  BY <1>2, <1>8, TightByKnown
<1>10. \A t \in Tabs(f, bm) : Tight(f, bm, t) => Tight(g, bm, t)
  BY <1>5 DEF Tight
<1> QED BY <1>2, <1>4, <1>5, <1>7, <1>8, <1>9, <1>10 DEF Programmed

\* The new table goes with the ones there are.
LEMMA ProgramDisk ==
  ASSUME NEW f \in [Blocks -> Contents], NEW bm, NEW n \in Instances, NEW p, NEW x \in Blocks,
         NEW g, Puts(g, f, x, n.cache),
         x >= MgmtStart, x < n.top, x \notin Tabs(f, bm), x \notin bm, n.st[x],
         Base(f, bm, n, p), DiskOK(f, bm),
         NEW y \in Area, Tabs(f, bm) \subseteq {y},
         x < y => UsedUp(bm, n, x),
         y \in Tabs(f, bm) /\ y < x => Tight(f, bm, y)
  PROVE  Programmed(f, bm, n, g, x) /\ DiskOK(g, bm) /\ Base(g, bm, n, p)
<1>1. CacheReady(f, bm, n) /\ Covers(f, bm, n)
  BY DEF Base, Ready
<1>2. x \in Nat /\ n.top \in Nat /\ n.sig \in Nat /\ n.sig \in Blocks /\ x \in Area
  BY InstanceIs, Sizes DEF Blocks, Area
<1>3. Signs(f, bm) = {n.sig} /\ n.top < n.sig
  BY <1>1 DEF Covers
<1>4. f[x] # Signature
  BY <1>2, <1>3 DEF Signs
<1>5. Programmed(f, bm, n, g, x) /\ Signs(g, bm) = {n.sig}
  <2>1. Programmed(f, bm, n, g, x) /\ (f[x] # Signature => Signs(g, bm) = Signs(f, bm))
    BY <1>1, ProgramFlash
  <2> QED BY <1>3, <1>4, <2>1
<1>6. /\ g \in [Blocks -> Contents] /\ Tabs(g, bm) = Tabs(f, bm) \union {x} /\ g[x] = n.cache
      /\ \A t \in Tabs(f, bm) : g[t] = f[t] /\ Fits(f, n, t) /\ Older(f[t], n.cache)
      /\ n.cache.map = n.map /\ n.cache.wc = n.wc /\ \A b \in Blocks : n.st[b] => n.cache.st[b]
  BY <1>1, <1>5 DEF Programmed, Covers, CacheReady
<1>7. TablesFit(f, bm, n.sig)
  BY <1>3 DEF DiskOK
<1>8. \A t \in Tabs(g, bm) : t \in Blocks /\ t \in Nat /\ t < n.top /\ n.st[t] /\ t + 1 <= n.top
  <2>1. \A t \in Tabs(g, bm) : t \in Blocks /\ t \in Nat /\ t < n.top /\ n.st[t]
    BY <1>2, <1>6, TabsIs DEF Fits
  <2> QED BY <1>2, <2>1
<1>9. ASSUME NEW t \in Tabs(g, bm) PROVE Fits(g, n, t)
  <2>1. CASE t = x
    <3>1. Low(n.map, n.map)
      <4>1. \A i \in LBlocks : n.map[i] \in Int
        BY InstanceIs, MapIs
      <4> QED BY <4>1 DEF Low
    <3> QED BY <1>1, <1>6, <1>8, <2>1, <3>1, InstanceIs DEF Fits, Covers
  <2>2. CASE t # x
    <3>1. Fits(f, n, t) /\ g[t] = f[t]
      BY <1>6, <2>2
    <3> QED BY <3>1 DEF Fits
  <2> QED BY <2>1, <2>2
<1>10. ASSUME NEW t \in Tabs(g, bm) PROVE Older(g[t], n.cache)
  <2>1. CASE t = x
    <3>1. Low(n.cache.map, n.cache.map)
      <4>1. \A i \in LBlocks : n.cache.map[i] \in Int
        BY InstanceIs, MapIs
      <4> QED BY <4>1 DEF Low
    <3> QED BY <1>6, <2>1, <3>1, InstanceIs DEF Older
  <2>2. CASE t # x
    BY <1>6, <2>2
  <2> QED BY <2>1, <2>2
<1>11. Base(g, bm, n, p)
  <2>1. Covers(g, bm, n)
    BY <1>1, <1>5, <1>9 DEF Covers
  <2>2. CacheReady(g, bm, n)
    BY <1>1, <1>10 DEF CacheReady
  <2> QED BY <2>1, <2>2 DEF Base, Ready
<1>12. ASSUME NEW s \in Tabs(g, bm), NEW t \in Tabs(g, bm)
       PROVE  /\ s + 1 < n.sig /\ g[s].st[t]
              /\ MapFits(g[s].map, t + 1, n.sig)
              /\ Older(g[s], g[t]) \/ Older(g[t], g[s])
              /\ s < t => Tight(g, bm, s)
  <2>1. s + 1 < n.sig
    <3>1. s \in Nat /\ s + 1 <= n.top
      BY <1>8
    <3> QED BY <1>2, <1>3, <3>1
  <2>2. g[s].st[t]
    BY <1>8, <1>9 DEF Fits
  <2>3. MapFits(g[s].map, t + 1, n.sig)
    <3>1. MapFits(g[s].map, n.top, n.sig)
      BY <1>9 DEF Fits
    <3>2. \A i \in LBlocks : g[s].map[i] \in Int
      BY <1>6, MapIs, TabsIs
    <3>3. t + 1 <= n.top /\ t \in Nat
      BY <1>8
    <3> QED BY <1>2, <3>1, <3>2, <3>3 DEF MapFits
  <2>4. Older(g[s], g[t]) \/ Older(g[t], g[s])
    <3>1. CASE s = x \/ t = x
      BY <1>6, <1>10, <3>1
    <3>2. CASE s # x /\ t # x
      BY <1>6, <1>7, <3>2 DEF TablesFit
    <3> QED BY <3>1, <3>2
  <2>5. ASSUME s < t PROVE Tight(g, bm, s)
    <3>1. s # t
      <4>1. s \in Nat /\ t \in Nat
        BY <1>8
      <4> QED BY <2>5, <4>1
    <3>2. CASE s = x
      <4>1. t = y
        BY <1>6, <3>1, <3>2
      <4> QED BY <1>5, <2>5, <3>2, <4>1 DEF Programmed
    <3>3. CASE s # x
      <4>1. s \in Tabs(f, bm) /\ s = y /\ t = x
        BY <1>6, <3>1, <3>3
      <4> QED BY <1>5, <2>5, <4>1 DEF Programmed
    <3> QED BY <3>2, <3>3
  <2> QED BY <2>1, <2>2, <2>3, <2>4, <2>5
<1>13. TablesFit(g, bm, n.sig)
  BY <1>12 DEF TablesFit
<1>14. Tabs(g, bm) \subseteq {x, y}
  BY <1>6
<1>15. DiskOK(g, bm)
  BY <1>2, <1>5, <1>13, <1>14 DEF DiskOK
<1> QED BY <1>5, <1>11, <1>15

\* The table in the cache is written to the block p.ba.
Programs(f, bm, n, p, g) ==
  /\ Base(f, bm, n, p) /\ DiskOK(f, bm) /\ Puts(g, f, p.ba, n.cache)
  /\ p.prog /\ p.ba < p.limit
  /\ p.ba \notin Tabs(f, bm) /\ p.ba \notin bm /\ n.st[p.ba]

\* What is known then.
NewTable(f, bm, n, p, g) ==
  /\ g \in [Blocks -> Contents]
  /\ p.ba \in Nat /\ p.ba \in Blocks /\ p.ba + 1 \in Blocks /\ p.ba + 1 <= n.top /\ p.ba # None
  /\ DiskOK(g, bm) /\ Base(g, bm, n, p)
  /\ Tabs(g, bm) = Tabs(f, bm) \union {p.ba}
  /\ g[p.ba] = n.cache /\ g[p.ba].map = n.map
  /\ \A t \in Tabs(f, bm) : g[t] = f[t] /\ (Tight(f, bm, t) => Tight(g, bm, t))
  /\ UsedUp(bm, n, p.ba) => Tight(g, bm, p.ba)

\* ... if the other table, if any, is in block y.
LEMMA NewTableIs ==
  ASSUME NEW f \in [Blocks -> Contents], NEW bm, NEW n \in Instances, NEW p \in Places, NEW g,
         Programs(f, bm, n, p, g), MgmtStart <= p.ba, p.limit <= n.top,
         NEW y \in Area, Tabs(f, bm) \subseteq {y},
         p.ba < y => UsedUp(bm, n, p.ba),
         y \in Tabs(f, bm) /\ y < p.ba => Tight(f, bm, y)
  PROVE  NewTable(f, bm, n, p, g)
<1> DEFINE x == p.ba
<1>1. x \in Nat /\ p.limit \in Nat /\ n.top \in Nat /\ n.top \in Blocks
  BY PlaceIs, InstanceIs
<1>2. x < n.top /\ x >= MgmtStart
  BY <1>1, Sizes DEF Programs
<1>3. x \in Blocks /\ x + 1 \in Blocks /\ x + 1 <= n.top /\ x # None
  BY <1>1, <1>2, BlockBounds, Sizes
<1>4. /\ Puts(g, f, x, n.cache) /\ x \notin Tabs(f, bm) /\ x \notin bm /\ n.st[x]
      /\ Base(f, bm, n, p) /\ DiskOK(f, bm)
  BY DEF Programs
<1> HIDE DEF x
<1>5. Programmed(f, bm, n, g, x) /\ DiskOK(g, bm) /\ Base(g, bm, n, p)
  <2>1. /\ x < y => UsedUp(bm, n, x)
        /\ y \in Tabs(f, bm) /\ y < x => Tight(f, bm, y)
    BY DEF x
  <2> QED BY <1>2, <1>3, <1>4, <2>1, ProgramDisk
<1> QED BY <1>1, <1>3, <1>5 DEF Programmed, NewTable, x

\* The flash and the state after the table has been written.
Wrote(bm, n, p, g) == DiskOK(g, bm) /\ FineStep(g, bm, WriteNext(n, p, TRUE, p.ba))

\* The next write or erase begins with the instance m.
LEMMA WriteFine ==
  ASSUME NEW g, NEW bm, NEW n \in Instances, NEW p \in Places, Base(g, bm, n, p),
         NEW m \in Instances, SameCore(m, n), Ordered(m),
         NEW q \in Places, SameCaller(q, p), q.ok = p.ok,
         NEW site \in TableSites, NEW ba \in 0 .. NB, NEW limit \in Blocks,
         Site(g, bm, m, Write(m, q, site, ba, limit).pc)
  PROVE  FineStep(g, bm, Write(m, q, site, ba, limit))
<1> DEFINE s == Write(m, q, site, ba, limit)
<1>1. /\ s.ni = m /\ s.pc.at = site /\ ~s.pc.prog /\ s.pc.ok = q.ok /\ SameCaller(s.pc, q)
  BY SiteIn, WriteIs
<1>2. Site(g, bm, m, s.pc)
  OBVIOUS
<1> HIDE DEF s
<1>3. SameCaller(s.pc, p)
  BY <1>1 DEF SameCaller
<1>4. s.pc.ok
  BY <1>1 DEF Base, Ready
<1>5. Fine(g, bm, m, s.pc)
  BY <1>1, <1>2, <1>3, <1>4, ToSite
<1> QED BY <1>1, <1>5 DEF FineStep, s

\* The function returns successfully with the instance m.
LEMMA ReturnFine ==
  ASSUME NEW g, NEW bm, NEW n \in Instances, NEW p \in Places, Base(g, bm, n, p),
         NEW m \in Instances, SameCore(m, n), Ordered(m),
         Tabs(g, bm) \subseteq {m.main, m.backup}, m.main \in Tabs(g, bm),
         Tight(g, bm, m.main), Synced(g, bm, n)
  PROVE  FineStep(g, bm, Return(m, p, TRUE))
<1> DEFINE s == Return(m, p, TRUE)
<1>1. s.ni = m /\ s.pc.at = "return" /\ s.pc.ok /\ SameCaller(s.pc, p)
  BY ReturnIs
<1> HIDE DEF s
<1>2. SameMaps(g, bm)
  BY DEF SameMaps, Synced
<1>3. Fine(g, bm, m, s.pc)
  BY <1>1, <1>2, ToReturn
<1> QED BY <1>1, <1>3 DEF FineStep, s

\* The old table and the new one have the same mapping.
LEMMA NewSynced ==
  ASSUME NEW f, NEW bm, NEW n, NEW p, NEW g, NewTable(f, bm, n, p, g), Synced(f, bm, n)
  PROVE  Synced(g, bm, n)
BY DEF NewTable, Synced

\* The backup table is updated, and the main table is next.
LEMMA UpdateBackupWritten ==
  ASSUME NEW f \in [Blocks -> Contents], NEW bm, NEW n \in Instances, NEW p \in Places, NEW g,
         Programs(f, bm, n, p, g), AtUpdateBackup(f, bm, n, p), p.at = "update_backup"
  PROVE  Wrote(bm, n, p, g)
<1> DEFINE x == p.ba
           m == Clean([n EXCEPT !.backup = x, !.mba = x + 1])
<1>1. WriteNext(n, p, TRUE, x) = WriteMain(m, p, x)
  BY DEF WriteNext, UpdateOnceNext
<1>2. /\ n.main \in Tabs(f, bm) /\ Tabs(f, bm) \subseteq {n.main, n.backup} /\ Tight(f, bm, n.main)
      /\ p.limit = n.top /\ p.ret \in Updates /\ n.backup # None /\ n.backup <= x
      /\ n.backup \notin Tabs(f, bm)
  BY DEF AtUpdateBackup, Replaces, Programs
<1>3. /\ n.main \in Nat /\ n.backup \in Nat /\ n.mba \in Nat /\ n.top \in Nat /\ x \in Nat
      /\ n.main \in Blocks /\ n.main \in Area /\ MgmtStart <= n.main
  BY <1>2, InstanceIs, PlaceIs, TabsIs
<1>4. n.main < x /\ MgmtStart <= x /\ p.limit <= n.top
  <2>1. n.main < n.backup
    BY <1>2 DEF Programs, Base, Ordered
  <2> QED BY <1>2, <1>3, <2>1, Sizes
<1>5. NewTable(f, bm, n, p, g)
  <2>1. ~(x < n.main) /\ Tabs(f, bm) \subseteq {n.main}
    BY <1>2, <1>3, <1>4
  <2> QED BY <1>2, <1>3, <1>4, <2>1, NewTableIs
<1>6. /\ g \in [Blocks -> Contents] /\ x \in Blocks /\ x + 1 \in Blocks /\ x + 1 <= n.top /\ x # None
      /\ DiskOK(g, bm) /\ Base(g, bm, n, p) /\ Tabs(g, bm) = Tabs(f, bm) \union {x}
      /\ g[x] = n.cache /\ Tight(g, bm, n.main)
  BY <1>2, <1>5 DEF NewTable
<1>7. Moved(m, n, n.main, x, x + 1)
  BY <1>6, Moves
<1> HIDE DEF m, x
<1>8. /\ m \in Instances /\ SameCore(m, n) /\ m.main = n.main /\ m.backup = x /\ m.mba = x + 1
      /\ m.cache = n.cache /\ m.top = n.top
  BY <1>7 DEF Moved, SameCore
<1>9. Ordered(m)
  BY <1>3, <1>4, <1>6, <1>8, Sizes DEF Ordered
<1>10. /\ m.main \in Tabs(g, bm) /\ Tabs(g, bm) \subseteq {m.main, m.backup}
       /\ Tight(g, bm, m.main) /\ m.backup \in Tabs(g, bm) /\ g[m.backup] = m.cache
       /\ x = IF m.backup = None THEN m.top ELSE m.backup
  BY <1>2, <1>6, <1>8
<1>11. FineStep(g, bm, WriteMain(m, p, x))
  BY <1>2, <1>6, <1>8, <1>9, <1>10, WriteMainFine
<1> QED BY <1>1, <1>6, <1>11 DEF Wrote, x

\* The main table is updated: the update returns.
LEMMA UpdateMainWritten ==
  ASSUME NEW f \in [Blocks -> Contents], NEW bm, NEW n \in Instances, NEW p \in Places, NEW g,
         Programs(f, bm, n, p, g), AtUpdateMain(f, bm, n, p), p.at = "update_main"
  PROVE  Wrote(bm, n, p, g)
<1> DEFINE x == p.ba
           m == Clean([n EXCEPT !.main = x, !.mba = IF n.backup = None THEN x + 1 ELSE @])
<1>1. WriteNext(n, p, TRUE, x) = Return(m, p, TRUE)
  BY DEF WriteNext, UpdateOnceNext
<1>2. /\ Tabs(f, bm) \subseteq {n.main, n.backup} /\ n.main # None /\ n.main <= x
      /\ n.main \notin Tabs(f, bm) /\ UsedUp(bm, n, x)
      /\ p.limit = IF n.backup = None THEN n.top ELSE n.backup
      /\ n.backup # None => n.backup \in Tabs(f, bm) /\ f[n.backup] = n.cache
      /\ p.ret \in Updates /\ x < p.limit
  BY DEF AtUpdateMain, Replaces, Programs
<1>3. /\ n.main \in Nat /\ n.backup \in Nat /\ n.mba \in Nat /\ n.top \in Nat /\ x \in Nat
      /\ n.main \in Blocks
  BY <1>2, InstanceIs, PlaceIs, TabsIs
<1>4. /\ MgmtStart <= n.main /\ n.mba <= n.top /\ MgmtStart < n.mba
      /\ n.backup # None => n.main < n.backup /\ n.backup < n.mba
  BY <1>2 DEF Programs, Base, Ordered
<1>5. MgmtStart <= x /\ p.limit <= n.top
  BY <1>2, <1>3, <1>4, Sizes
<1>6. NewTable(f, bm, n, p, g)
  <2>1. CASE n.backup = None
    <3>1. \A t \in Tabs(f, bm) : t # None
      BY TabsIs
    <3>2. Tabs(f, bm) \subseteq {n.main} /\ n.main \in Area /\ n.main \notin Tabs(f, bm)
      BY <1>2, <1>3, <1>4, <2>1, <3>1, Sizes DEF Blocks, Area
    <3> QED BY <1>2, <1>5, <3>2, NewTableIs
  <2>2. CASE n.backup # None
    <3>1. n.backup \in Area /\ Tabs(f, bm) \subseteq {n.backup} /\ ~(n.backup < x)
      BY <1>2, <1>3, <2>2, TabsIs
    <3> QED BY <1>2, <1>5, <3>1, NewTableIs
  <2> QED BY <2>1, <2>2
<1>7. /\ g \in [Blocks -> Contents] /\ x \in Blocks /\ x + 1 \in Blocks /\ x + 1 <= n.top /\ x # None
      /\ DiskOK(g, bm) /\ Base(g, bm, n, p) /\ Tabs(g, bm) = Tabs(f, bm) \union {x}
      /\ g[x] = n.cache /\ g[x].map = n.map /\ Tight(g, bm, x)
      /\ \A t \in Tabs(f, bm) : g[t] = f[t]
  BY <1>2, <1>6 DEF NewTable
<1>8. Moved(m, n, x, n.backup, IF n.backup = None THEN x + 1 ELSE n.mba)
  BY <1>7, Moves
<1> HIDE DEF m, x
<1>9. /\ m \in Instances /\ SameCore(m, n) /\ m.main = x /\ m.backup = n.backup
      /\ m.mba = (IF n.backup = None THEN x + 1 ELSE n.mba) /\ m.top = n.top
  BY <1>8 DEF Moved, SameCore
<1>10. Ordered(m)
  BY <1>2, <1>3, <1>4, <1>5, <1>7, <1>9, Sizes DEF Ordered
<1>11. Synced(g, bm, n)
  <2>1. n.cache.map = n.map
    BY DEF Programs, Base, Ready, CacheReady
  <2>2. \A t \in Tabs(f, bm) : t # None
    BY TabsIs
  <2>3. \A t \in Tabs(f, bm) : f[t] = n.cache
    BY <1>2, <2>2
  <2> QED BY <1>7, <2>1, <2>3 DEF Synced
<1>12. Tabs(g, bm) \subseteq {m.main, m.backup} /\ m.main \in Tabs(g, bm) /\ Tight(g, bm, m.main)
  BY <1>2, <1>7, <1>9
<1>13. FineStep(g, bm, Return(m, p, TRUE))
  BY <1>7, <1>9, <1>10, <1>11, <1>12, ReturnFine
<1> QED BY <1>1, <1>7, <1>13 DEF Wrote, x

\* A place with another address in tmp.
LEMMA TmpIs ==
  ASSUME NEW p \in Places, NEW t \in Blocks
  PROVE  LET q == [p EXCEPT !.tmp = t]
         IN  q \in Places /\ SameCaller(q, p) /\ q.ok = p.ok /\ q.tmp = t /\ q.wba = p.wba
BY DEF Places, SameCaller

\* The main table is rebuilt, and the backup table is next.
LEMMA RebuildMainWritten ==
  ASSUME NEW f \in [Blocks -> Contents], NEW bm, NEW n \in Instances, NEW p \in Places, NEW g,
         Programs(f, bm, n, p, g), AtRebuildMain(f, bm, n, p), p.at = "rebuild_main"
  PROVE  Wrote(bm, n, p, g)
<1> DEFINE x == p.ba
           m == Clean([n EXCEPT !.main = x, !.mba = x + 1])
           q == [p EXCEPT !.tmp = x + 1]
           r == TryReserve(m, x + 1)
           s == Write(m, q, "rebuild_backup", r, m.top)
<1>1. WriteNext(n, p, TRUE, x) = IF r = None THEN Return(m, p, TRUE) ELSE s
  BY DEF WriteNext, RebuildNext
<1>2. /\ Tabs(f, bm) = {} /\ n.backup = None /\ MgmtStart <= x /\ UsedUp(bm, n, x)
      /\ p.limit = n.top /\ p.ret # "load"
  BY DEF AtRebuildMain
<1>3. n.top \in Nat /\ x \in Nat /\ n.top \in Blocks /\ MgmtStart \in Area
  BY InstanceIs, PlaceIs, Sizes DEF Area, Blocks
<1>4. NewTable(f, bm, n, p, g)
  <2>1. p.limit <= n.top /\ Tabs(f, bm) \subseteq {MgmtStart} /\ MgmtStart \notin Tabs(f, bm)
    BY <1>2, <1>3
  <2> QED BY <1>2, <1>3, <2>1, NewTableIs
<1>5. /\ g \in [Blocks -> Contents] /\ x \in Blocks /\ x + 1 \in Blocks /\ x + 1 <= n.top /\ x # None
      /\ DiskOK(g, bm) /\ Base(g, bm, n, p) /\ Tabs(g, bm) = {x}
      /\ g[x].map = n.map /\ Tight(g, bm, x)
  BY <1>2, <1>4 DEF NewTable
<1>6. Moved(m, n, x, n.backup, x + 1)
  BY <1>5, Moves
<1>7. q \in Places /\ SameCaller(q, p) /\ q.ok = p.ok /\ q.tmp = x + 1
  BY <1>5, TmpIs
<1> HIDE DEF m, q, x
<1>8. /\ m \in Instances /\ SameCore(m, n) /\ m.main = x /\ m.backup = None
      /\ m.mba = x + 1 /\ m.top = n.top /\ m.map = n.map
  BY <1>2, <1>6 DEF Moved, SameCore
<1>9. Ordered(m)
  BY <1>2, <1>3, <1>5, <1>8, Sizes DEF Ordered
<1>10. Synced(g, bm, n) /\ Synced(g, bm, m)
  BY <1>5, <1>8 DEF Synced
<1>11. FineStep(g, bm, Return(m, p, TRUE))
  BY <1>5, <1>8, <1>9, <1>10, ReturnFine
<1>12. ASSUME r # None PROVE FineStep(g, bm, s)
  <2>1. x + 1 \in Nat /\ m.top \in Nat
    BY <1>3, <1>8
  <2>2. r \in Nat /\ x + 1 <= r /\ r + 2 <= m.top
    BY <1>12, <2>1, ReserveFound
  <2> HIDE DEF r
  <2>3. r \in 0 .. NB /\ m.top \in Blocks /\ "rebuild_backup" \in TableSites
    <3>1. r < n.top
      BY <1>3, <1>8, <2>2
    <3> QED BY <1>3, <1>8, <2>2, <3>1, BlockBounds, SiteIn
  <2>4. /\ s.pc.at = "rebuild_backup" /\ s.pc.ba = r /\ s.pc.limit = m.top
        /\ s.pc.tmp = q.tmp /\ SameCaller(s.pc, q)
    BY <1>7, <2>3, SiteIn, WriteIs
  <2> HIDE DEF s
  <2>5. s.pc.ret = p.ret
    BY <1>7, <2>4 DEF SameCaller
  <2>6. AtRebuildBackup(g, bm, m, s.pc)
    BY <1>2, <1>5, <1>7, <1>8, <1>10, <2>2, <2>4, <2>5 DEF AtRebuildBackup
  <2>7. Site(g, bm, m, s.pc)
    BY <2>4, <2>6 DEF Site
  <2> QED BY <1>5, <1>7, <1>8, <1>9, <2>3, <2>7, WriteFine DEF s
<1>13. FineStep(g, bm, WriteNext(n, p, TRUE, x))
  BY <1>1, <1>11, <1>12
<1> QED BY <1>5, <1>13 DEF Wrote, x

\* The backup table is rebuilt: what lies between the two is erased.
LEMMA RebuildBackupWritten ==
  ASSUME NEW f \in [Blocks -> Contents], NEW bm, NEW n \in Instances, NEW p \in Places, NEW g,
         Programs(f, bm, n, p, g), AtRebuildBackup(f, bm, n, p), p.at = "rebuild_backup"
  PROVE  Wrote(bm, n, p, g)
<1> DEFINE x == p.ba
           m == [n EXCEPT !.backup = x, !.mba = x + 1]
           s == Write(m, p, "erase_rebuild", p.tmp, x)
<1>1. WriteNext(n, p, TRUE, x) = s
  BY DEF WriteNext, RebuildNext
<1>2. /\ Tabs(f, bm) = {n.main} /\ Tight(f, bm, n.main) /\ Synced(f, bm, n)
      /\ p.tmp = n.main + 1 /\ p.tmp <= x /\ p.limit = n.top /\ p.ret # "load"
  BY DEF AtRebuildBackup
<1>3. /\ n.main \in Nat /\ n.top \in Nat /\ x \in Nat /\ n.main \in Area /\ MgmtStart <= n.main
      /\ p.tmp \in Nat /\ p.tmp \in Blocks
  BY <1>2, InstanceIs, PlaceIs, TabsIs
<1>4. n.main < x /\ MgmtStart <= x /\ p.limit <= n.top /\ n.main < p.tmp
  BY <1>2, <1>3, Sizes
<1>5. NewTable(f, bm, n, p, g)
  <2>1. ~(x < n.main)
    BY <1>3, <1>4
  <2> QED BY <1>2, <1>3, <1>4, <2>1, NewTableIs
<1>6. /\ x \in Blocks /\ x + 1 \in Blocks /\ x + 1 <= n.top /\ x # None
      /\ DiskOK(g, bm) /\ Base(g, bm, n, p) /\ Tabs(g, bm) = {n.main, x} /\ Synced(g, bm, n)
  BY <1>2, <1>5, NewSynced DEF NewTable
<1>7. Moved(m, n, n.main, x, x + 1)
  BY <1>6, Moves
<1> HIDE DEF m, x
<1>8. /\ m \in Instances /\ SameCore(m, n) /\ m.main = n.main /\ m.backup = x
      /\ m.mba = x + 1 /\ m.top = n.top /\ m.map = n.map
  BY <1>7 DEF Moved, SameCore
<1>9. Ordered(m)
  BY <1>3, <1>4, <1>6, <1>8, Sizes DEF Ordered
<1>10. Synced(g, bm, m)
  BY <1>6, <1>8 DEF Synced
<1>11. p.tmp \in 0 .. NB /\ "erase_rebuild" \in TableSites
  BY <1>3, BlockBounds, SiteIn
<1>12. s.pc.at = "erase_rebuild" /\ s.pc.ba = p.tmp /\ s.pc.limit = x /\ SameCaller(s.pc, p)
  BY <1>6, <1>11, SiteIn, WriteIs
<1> HIDE DEF s
<1>13. AtEraseBetween(g, bm, m, s.pc) /\ s.pc.ret # "load"
  BY <1>2, <1>4, <1>6, <1>8, <1>10, <1>12 DEF AtEraseBetween, SameCaller
<1>14. Site(g, bm, m, s.pc)
  BY <1>12, <1>13 DEF Site
<1>15. SameCaller(p, p)
  BY DEF SameCaller
<1>16. FineStep(g, bm, s)
  BY <1>6, <1>8, <1>9, <1>11, <1>14, <1>15, WriteFine DEF s
<1> QED BY <1>1, <1>6, <1>16 DEF Wrote, x

\* A second table is written in front of the only one.
LEMMA RescueFrontWritten ==
  ASSUME NEW f \in [Blocks -> Contents], NEW bm, NEW n \in Instances, NEW p \in Places, NEW g,
         Programs(f, bm, n, p, g), AtRescueFront(f, bm, n, p), p.at = "rescue_front"
  PROVE  Wrote(bm, n, p, g)
<1> DEFINE x == p.ba
           m == Clean([n EXCEPT !.main = x, !.backup = n.main])
           s == Write(m, p, "erase_front", x + 1, n.main)
<1>1. WriteNext(n, p, TRUE, x) = s
  BY DEF WriteNext, RescueSingleNext
<1>2. /\ Tabs(f, bm) = {n.main} /\ Synced(f, bm, n) /\ MgmtStart <= x /\ UsedUp(bm, n, x)
      /\ p.limit = n.main /\ p.ret = "load" /\ x < p.limit
  BY DEF AtRescueFront, Programs
<1>3. /\ n.main \in Nat /\ n.mba \in Nat /\ n.top \in Nat /\ x \in Nat /\ n.main \in Area
      /\ n.main \in Blocks /\ n.main # None
  BY <1>2, InstanceIs, PlaceIs, TabsIs
<1>4. n.main < n.mba /\ n.mba <= n.top /\ MgmtStart < n.mba
  BY <1>3 DEF Programs, Base, Ordered
<1>5. NewTable(f, bm, n, p, g)
  <2>1. p.limit <= n.top /\ ~(n.main < x)
    BY <1>2, <1>3, <1>4
  <2> QED BY <1>2, <1>3, <2>1, NewTableIs
<1>6. /\ x \in Blocks /\ x + 1 \in Blocks /\ x # None
      /\ DiskOK(g, bm) /\ Base(g, bm, n, p) /\ Tabs(g, bm) = {n.main, x} /\ Synced(g, bm, n)
  BY <1>2, <1>5, NewSynced DEF NewTable
<1>7. Moved(m, n, x, n.main, n.mba)
  BY <1>6, Moves
<1> HIDE DEF m, x
<1>8. /\ m \in Instances /\ SameCore(m, n) /\ m.main = x /\ m.backup = n.main
      /\ m.mba = n.mba /\ m.top = n.top /\ m.map = n.map
  BY <1>7 DEF Moved, SameCore
<1>9. Ordered(m)
  BY <1>2, <1>3, <1>4, <1>6, <1>8, Sizes DEF Ordered
<1>10. Synced(g, bm, m)
  BY <1>6, <1>8 DEF Synced
<1>11. x + 1 \in 0 .. NB /\ "erase_front" \in TableSites
  BY <1>6, BlockBounds, SiteIn
<1>12. s.pc.at = "erase_front" /\ s.pc.ba = x + 1 /\ s.pc.limit = n.main /\ SameCaller(s.pc, p)
  BY <1>3, <1>11, SiteIn, WriteIs
<1> HIDE DEF s
<1>13. AtEraseBetween(g, bm, m, s.pc) /\ s.pc.ret = "load"
  BY <1>2, <1>3, <1>6, <1>8, <1>10, <1>12 DEF AtEraseBetween, SameCaller
<1>14. Site(g, bm, m, s.pc)
  BY <1>12, <1>13 DEF Site
<1>15. SameCaller(p, p)
  BY DEF SameCaller
<1>16. FineStep(g, bm, s)
  BY <1>3, <1>6, <1>8, <1>9, <1>11, <1>14, <1>15, WriteFine DEF s
<1> QED BY <1>1, <1>6, <1>16 DEF Wrote, x

\* A second table is written behind the only one.
LEMMA RescueBehindWritten ==
  ASSUME NEW f \in [Blocks -> Contents], NEW bm, NEW n \in Instances, NEW p \in Places, NEW g,
         Programs(f, bm, n, p, g), AtRescueBehind(f, bm, n, p), p.at = "rescue_behind"
  PROVE  Wrote(bm, n, p, g)
<1> DEFINE x == p.ba
           q == [p EXCEPT !.tmp = x]
           s == Write(n, q, "erase_behind", n.mba, x)
<1>1. WriteNext(n, p, TRUE, x) = s
  BY DEF WriteNext, RescueSingleNext
<1>2. /\ Tabs(f, bm) = {n.main} /\ n.backup = None /\ Synced(f, bm, n) /\ Tight(f, bm, n.main)
      /\ n.mba <= p.wba /\ p.wba <= x /\ p.limit = n.top /\ p.ret = "load"
  BY DEF AtRescueBehind
<1>3. /\ n.main \in Nat /\ n.mba \in Nat /\ n.mba \in Blocks /\ n.top \in Nat /\ x \in Nat
      /\ n.main \in Area /\ p.wba \in Nat /\ n.main # None
  BY <1>2, InstanceIs, PlaceIs, TabsIs
<1>4. n.main < n.mba /\ MgmtStart < n.mba
  BY <1>3 DEF Programs, Base, Ordered
<1>5. n.main < x /\ MgmtStart <= x /\ n.mba <= x /\ p.limit <= n.top
  BY <1>2, <1>3, <1>4, Sizes
<1>6. NewTable(f, bm, n, p, g)
  <2>1. ~(x < n.main)
    BY <1>3, <1>5
  <2> QED BY <1>2, <1>3, <1>5, <2>1, NewTableIs
<1>7. /\ x \in Blocks /\ DiskOK(g, bm) /\ Base(g, bm, n, p)
      /\ Tabs(g, bm) = {n.main, x} /\ Synced(g, bm, n)
  BY <1>2, <1>6, NewSynced DEF NewTable
<1>8. q \in Places /\ SameCaller(q, p) /\ q.ok = p.ok /\ q.tmp = x
  BY <1>7, TmpIs
<1> HIDE DEF q, x
<1>9. n.mba \in 0 .. NB /\ "erase_behind" \in TableSites
  BY <1>3, BlockBounds, SiteIn
<1>10. /\ s.pc.at = "erase_behind" /\ s.pc.ba = n.mba /\ s.pc.limit = x /\ s.pc.tmp = x
       /\ SameCaller(s.pc, q)
  BY <1>7, <1>8, <1>9, SiteIn, WriteIs
<1> HIDE DEF s
<1>11. AtEraseBehind(g, bm, n, s.pc)
  <2>1. s.pc.ret = "load"
    BY <1>2, <1>8, <1>10 DEF SameCaller
  <2> QED BY <1>2, <1>3, <1>5, <1>7, <1>10, <2>1 DEF AtEraseBehind
<1>12. Site(g, bm, n, s.pc)
  BY <1>10, <1>11 DEF Site
<1>13. SameCore(n, n) /\ Ordered(n)
  BY DEF SameCore, Programs, Base
<1>14. FineStep(g, bm, s)
  BY <1>7, <1>8, <1>9, <1>12, <1>13, WriteFine DEF s
<1> QED BY <1>1, <1>7, <1>14 DEF Wrote, x

\* The outdated main table is replaced by the backup table's contents.
LEMMA SingleMainWritten ==
  ASSUME NEW f \in [Blocks -> Contents], NEW bm, NEW n \in Instances, NEW p \in Places, NEW g,
         Programs(f, bm, n, p, g), AtSingleMain(f, bm, n, p), p.at = "single_main"
  PROVE  Wrote(bm, n, p, g)
<1> DEFINE x == p.ba
           m == Clean([n EXCEPT !.main = x])
<1>1. WriteNext(n, p, TRUE, x) = Return(m, p, TRUE)
  BY DEF WriteNext, UpdateSingleNext
<1>2. /\ n.backup \in Tabs(f, bm) /\ Tabs(f, bm) \subseteq {n.main, n.backup}
      /\ n.main \notin Tabs(f, bm) /\ n.main # None /\ n.main <= x /\ x < p.limit
      /\ UsedUp(bm, n, x) /\ p.limit = n.backup /\ f[n.backup].map = n.map
  BY DEF AtSingleMain, Replaces, Programs
<1>3. /\ n.main \in Nat /\ n.backup \in Nat /\ n.mba \in Nat /\ n.top \in Nat /\ x \in Nat
      /\ n.backup \in Area /\ n.backup # None
  BY <1>2, InstanceIs, PlaceIs, TabsIs
<1>4. MgmtStart <= n.main /\ n.backup < n.mba /\ n.mba <= n.top /\ MgmtStart < n.mba
  BY <1>2, <1>3 DEF Programs, Base, Ordered
<1>5. MgmtStart <= x /\ p.limit <= n.top
  BY <1>2, <1>3, <1>4, Sizes
<1>6. Tabs(f, bm) = {n.backup} /\ Synced(f, bm, n)
  BY <1>2 DEF Synced
<1>7. NewTable(f, bm, n, p, g)
  <2>1. ~(n.backup < x)
    BY <1>2, <1>3
  <2> QED BY <1>2, <1>3, <1>5, <1>6, <2>1, NewTableIs
<1>8. /\ x \in Blocks /\ x # None /\ DiskOK(g, bm) /\ Base(g, bm, n, p)
      /\ Tabs(g, bm) = {n.backup, x} /\ Synced(g, bm, n) /\ Tight(g, bm, x)
  BY <1>2, <1>6, <1>7, NewSynced DEF NewTable
<1>9. Moved(m, n, x, n.backup, n.mba)
  BY <1>8, Moves
<1> HIDE DEF m, x
<1>10. /\ m \in Instances /\ SameCore(m, n) /\ m.main = x /\ m.backup = n.backup
       /\ m.mba = n.mba /\ m.top = n.top
  BY <1>9 DEF Moved, SameCore
<1>11. Ordered(m)
  BY <1>2, <1>3, <1>4, <1>5, <1>8, <1>10, Sizes DEF Ordered
<1>12. FineStep(g, bm, Return(m, p, TRUE))
  BY <1>8, <1>10, <1>11, ReturnFine
<1> QED BY <1>1, <1>8, <1>12 DEF Wrote, x

\* The outdated backup table is replaced by the main table's contents.
LEMMA SingleBackupWritten ==
  ASSUME NEW f \in [Blocks -> Contents], NEW bm, NEW n \in Instances, NEW p \in Places, NEW g,
         Programs(f, bm, n, p, g), AtSingleBackup(f, bm, n, p), p.at = "single_backup"
  PROVE  Wrote(bm, n, p, g)
<1> DEFINE x == p.ba
           m == Clean([n EXCEPT !.backup = x, !.mba = x + 1])
<1>1. WriteNext(n, p, TRUE, x) = Return(m, p, TRUE)
  BY DEF WriteNext, UpdateSingleNext
<1>2. /\ n.main \in Tabs(f, bm) /\ Tabs(f, bm) \subseteq {n.main, n.backup} /\ Tight(f, bm, n.main)
      /\ n.backup \notin Tabs(f, bm) /\ n.backup # None /\ n.backup <= x
      /\ p.limit = n.top /\ f[n.main].map = n.map
  BY DEF AtSingleBackup, Replaces, Programs
<1>3. /\ n.main \in Nat /\ n.backup \in Nat /\ n.top \in Nat /\ x \in Nat
      /\ n.main \in Area /\ n.main # None /\ MgmtStart <= n.main
  BY <1>2, InstanceIs, PlaceIs, TabsIs
<1>4. n.main < x /\ MgmtStart <= x /\ p.limit <= n.top
  <2>1. n.main < n.backup
    BY <1>2 DEF Programs, Base, Ordered
  <2> QED BY <1>2, <1>3, <2>1, Sizes
<1>5. Tabs(f, bm) = {n.main} /\ Synced(f, bm, n)
  BY <1>2 DEF Synced
<1>6. NewTable(f, bm, n, p, g)
  <2>1. ~(x < n.main)
    BY <1>3, <1>4
  <2> QED BY <1>2, <1>3, <1>4, <1>5, <2>1, NewTableIs
<1>7. /\ x \in Blocks /\ x + 1 \in Blocks /\ x + 1 <= n.top /\ x # None
      /\ DiskOK(g, bm) /\ Base(g, bm, n, p)
      /\ Tabs(g, bm) = {n.main, x} /\ Synced(g, bm, n) /\ Tight(g, bm, n.main)
  BY <1>2, <1>5, <1>6, NewSynced DEF NewTable
<1>8. Moved(m, n, n.main, x, x + 1)
  BY <1>7, Moves
<1> HIDE DEF m, x
<1>9. /\ m \in Instances /\ SameCore(m, n) /\ m.main = n.main /\ m.backup = x
      /\ m.mba = x + 1 /\ m.top = n.top
  BY <1>8 DEF Moved, SameCore
<1>10. Ordered(m)
  BY <1>3, <1>4, <1>7, <1>9, Sizes DEF Ordered
<1>11. FineStep(g, bm, Return(m, p, TRUE))
  BY <1>7, <1>9, <1>10, ReturnFine
<1> QED BY <1>1, <1>7, <1>11 DEF Wrote, x

\* The temporary table is written; the main table comes next.
LEMMA RescueTmpWritten ==
  ASSUME NEW f \in [Blocks -> Contents], NEW bm, NEW n \in Instances, NEW p \in Places, NEW g,
         Programs(f, bm, n, p, g), AtRescueTmp(f, bm, n, p), p.at = "rescue_tmp"
  PROVE  Wrote(bm, n, p, g)
<1> DEFINE x == p.ba
           m == [n EXCEPT !.mba = x + 1]
           q == [p EXCEPT !.tmp = x]
           s == Write(m, q, "rescue_main", MgmtStart, x)
<1>1. WriteNext(n, p, TRUE, x) = s
  BY DEF WriteNext, RescueMainNext
<1>2. /\ Tabs(f, bm) = {n.backup} /\ Synced(f, bm, n) /\ n.backup # None
      /\ UsedUp(bm, n, n.backup) /\ Tight(f, bm, n.backup)
      /\ n.mba <= p.wba /\ p.wba <= x /\ p.limit = n.top /\ p.ret \in Updates
  BY DEF AtRescueTmp
<1>3. /\ n.main \in Nat /\ n.backup \in Nat /\ n.mba \in Nat /\ n.top \in Nat /\ x \in Nat
      /\ n.backup \in Area /\ p.wba \in Nat
  BY <1>2, InstanceIs, PlaceIs, TabsIs
<1>4. /\ n.main # None /\ n.main < n.backup /\ n.backup < n.mba /\ MgmtStart < n.mba
      /\ MgmtStart <= n.main
  BY <1>2 DEF Programs, Base, Ordered
<1>5. n.backup < x /\ MgmtStart <= x /\ p.limit <= n.top /\ MgmtStart <= n.backup
  BY <1>2, <1>3, <1>4, Sizes
<1>6. NewTable(f, bm, n, p, g)
  <2>1. ~(x < n.backup)
    BY <1>3, <1>5
  <2> QED BY <1>2, <1>3, <1>5, <2>1, NewTableIs
<1>7. /\ x \in Blocks /\ x + 1 \in Blocks /\ x + 1 <= n.top /\ x # None
      /\ DiskOK(g, bm) /\ Base(g, bm, n, p) /\ g[x] = n.cache
      /\ Tabs(g, bm) = {n.backup, x} /\ Synced(g, bm, n)
  BY <1>2, <1>6, NewSynced DEF NewTable
<1>8. Moved(m, n, n.main, n.backup, x + 1)
  BY <1>7, Moves
<1>9. q \in Places /\ SameCaller(q, p) /\ q.ok = p.ok /\ q.tmp = x
  BY <1>7, TmpIs
<1> HIDE DEF m, q, x
<1>10. /\ m \in Instances /\ SameCore(m, n) /\ m.main = n.main /\ m.backup = n.backup
       /\ m.mba = x + 1 /\ m.top = n.top /\ m.map = n.map /\ m.st = n.st /\ m.cache = n.cache
  BY <1>8 DEF Moved, SameCore
<1>11. Ordered(m)
  BY <1>2, <1>3, <1>4, <1>5, <1>7, <1>10, Sizes DEF Ordered
<1>12. MgmtStart \in 0 .. NB /\ "rescue_main" \in TableSites
  BY BlockBounds, Sizes, SiteIn
<1>13. /\ s.pc.at = "rescue_main" /\ s.pc.ba = MgmtStart /\ s.pc.limit = x /\ s.pc.tmp = x
       /\ SameCaller(s.pc, q) /\ ~s.pc.prog
  BY <1>7, <1>9, <1>12, SiteIn, WriteIs
<1> HIDE DEF s
<1>14. AtRescueMain(g, bm, m, s.pc)
  <2>1. s.pc.ret \in Updates
    BY <1>2, <1>9, <1>13 DEF SameCaller
  <2>2. UsedUp(bm, m, MgmtStart)
    BY Sizes DEF UsedUp
  <2>3. UsedUp(bm, m, n.backup)
    BY <1>2, <1>10 DEF UsedUp
  <2>4. Synced(g, bm, m)
    BY <1>7, <1>10 DEF Synced
  <2> QED BY <1>2, <1>3, <1>5, <1>7, <1>10, <1>13, <2>1, <2>2, <2>3, <2>4, Sizes DEF AtRescueMain
<1>15. Site(g, bm, m, s.pc)
  BY <1>13, <1>14 DEF Site
<1>16. FineStep(g, bm, s)
  BY <1>7, <1>9, <1>10, <1>11, <1>12, <1>15, WriteFine DEF s
<1> QED BY <1>1, <1>7, <1>16 DEF Wrote, x

\* The main table is rescued: the temporary one becomes the backup table.
LEMMA RescueMainWritten ==
  ASSUME NEW f \in [Blocks -> Contents], NEW bm, NEW n \in Instances, NEW p \in Places, NEW g,
         Programs(f, bm, n, p, g), AtRescueMain(f, bm, n, p), p.at = "rescue_main"
  PROVE  Wrote(bm, n, p, g)
<1> DEFINE x == p.ba
           m == Clean([n EXCEPT !.main = x, !.backup = p.tmp])
<1>1. WriteNext(n, p, TRUE, x) = Return(m, p, TRUE)
  BY DEF WriteNext, RescueMainNext
<1>2. /\ p.tmp \in Tabs(f, bm) /\ Tabs(f, bm) \subseteq {n.backup, p.tmp} /\ Synced(f, bm, n)
      /\ n.mba = p.tmp + 1 /\ n.backup \notin Tabs(f, bm)
      /\ MgmtStart <= x /\ UsedUp(bm, n, x) /\ p.limit = p.tmp /\ x < p.limit
  BY DEF AtRescueMain, Programs
<1>3. /\ n.mba \in Nat /\ n.top \in Nat /\ x \in Nat /\ p.tmp \in Nat /\ p.tmp \in Blocks
      /\ p.tmp \in Area /\ p.tmp # None
  BY <1>2, InstanceIs, PlaceIs, TabsIs
<1>4. MgmtStart < n.mba /\ n.mba <= n.top
  BY DEF Programs, Base, Ordered
<1>5. p.limit <= n.top /\ Tabs(f, bm) = {p.tmp} /\ ~(p.tmp < x)
  BY <1>2, <1>3, <1>4
<1>6. NewTable(f, bm, n, p, g)
  BY <1>2, <1>3, <1>5, NewTableIs
<1>7. /\ x \in Blocks /\ x # None /\ DiskOK(g, bm) /\ Base(g, bm, n, p)
      /\ Tabs(g, bm) = {p.tmp, x} /\ Synced(g, bm, n) /\ Tight(g, bm, x)
  BY <1>2, <1>5, <1>6, NewSynced DEF NewTable
<1>8. Moved(m, n, x, p.tmp, n.mba)
  BY <1>3, <1>7, Moves
<1> HIDE DEF m, x
<1>9. /\ m \in Instances /\ SameCore(m, n) /\ m.main = x /\ m.backup = p.tmp
      /\ m.mba = n.mba /\ m.top = n.top
  BY <1>8 DEF Moved, SameCore
<1>10. Ordered(m)
  BY <1>2, <1>3, <1>4, <1>7, <1>9, Sizes DEF Ordered
<1>11. FineStep(g, bm, Return(m, p, TRUE))
  BY <1>7, <1>9, <1>10, ReturnFine
<1> QED BY <1>1, <1>7, <1>11 DEF Wrote, x

\* Whatever table is written, the flash and the memory are in order after it.
LEMMA WrittenFine ==
  ASSUME NEW f \in [Blocks -> Contents], NEW bm, NEW n \in Instances, NEW p \in Places, NEW g,
         Programs(f, bm, n, p, g), Site(f, bm, n, p), p.at \in Writers \ {"signature"}
  PROVE  Wrote(bm, n, p, g)
<1>1. p.at \in {"update_backup", "update_main", "rebuild_main", "rebuild_backup",
                "rescue_front", "rescue_behind", "single_main", "single_backup",
                "rescue_tmp", "rescue_main"}
  BY DEF Writers
<1> QED BY <1>1, UpdateBackupWritten, UpdateMainWritten, RebuildMainWritten, RebuildBackupWritten,
           RescueFrontWritten, RescueBehindWritten, SingleMainWritten, SingleBackupWritten,
           RescueTmpWritten, RescueMainWritten DEF Site

-----------------------------------------------------------------------------
(* The steps on the flash. *)

LEMMA TypeGivesNext ==
  ASSUME TypeInv'
  PROVE  /\ ni' \in Instances /\ pc' \in Places /\ InRange(pc')
         /\ flash' \in [Blocks -> Contents] /\ badmark' \subseteq Blocks
BY DEF TypeInv, TypeOK

\* The parts of the invariant after a step.
LEMMA InvParts ==
  ASSUME DiskOK(flash', badmark'), Fine(flash', badmark', ni', pc')
  PROVE  Inv'
BY DEF Inv

\* A block without signature is lost to the tables: it is marked bad or holds
\* something else.
LEMMA LostBlock ==
  ASSUME NEW f \in [Blocks -> Contents], NEW bm, NEW b \in Blocks, NEW g, NEW c, Puts(g, f, b, c),
         NEW cm, bm \subseteq cm, cm \subseteq bm \union {b}, b \notin Signs(f, bm),
         b \in cm \/ (c.kind # "table" /\ c # Signature)
  PROVE  Loses(f, bm, g, cm) /\ Tabs(g, cm) = Tabs(f, bm) \ {b}
<1>1. /\ \A t \in Blocks : t # b => g[t] = f[t] /\ (t \in cm <=> t \in bm)
      /\ g[b] = c
  BY DEF Puts
<1>2. \A t \in Area : t \in Blocks
  BY Sizes
<1>3. Tabs(g, cm) = Tabs(f, bm) \ {b}
  BY <1>1, <1>2 DEF Tabs
<1>4. Signs(g, cm) = Signs(f, bm)
  BY <1>1 DEF Signs
<1>5. \A t \in Tabs(g, cm) : g[t] = f[t]
  BY <1>1, <1>2, <1>3 DEF Tabs
<1> QED BY <1>3, <1>4, <1>5 DEF Loses

\* The search stays below the pool's top and so below the signature.
LEMMA LimitIs ==
  ASSUME NEW f \in [Blocks -> Contents], NEW bm, NEW n \in Instances, NEW p \in Places,
         Base(f, bm, n, p), Site(f, bm, n, p), p.at \in TableSites
  PROVE  p.limit <= n.top
<1>1. /\ n.main \in Nat /\ n.backup \in Nat /\ n.mba \in Nat /\ n.top \in Nat /\ p.limit \in Nat
  BY InstanceIs, PlaceIs
<1>2. /\ n.mba <= n.top
      /\ n.main # None => n.main < n.mba
      /\ n.backup # None => n.backup < n.mba
  BY DEF Base, Ordered
<1>3. \A t \in Tabs(f, bm) : t < n.top /\ t # None
  BY TabsIs DEF Base, Ready, Covers, Fits
<1>4. \/ p.limit = n.top
      \/ p.limit = n.backup /\ n.backup # None
      \/ p.limit \in Tabs(f, bm)
  BY DEF TableSites, Writers, Erasers, Site, AtUpdateBackup, AtUpdateMain, AtRebuildMain,
         AtRebuildBackup, AtEraseBetween, AtRescueFront, AtRescueBehind, AtEraseBehind,
         AtSingleMain, AtSingleBackup, AtRescueTmp, AtRescueMain
<1> QED BY <1>1, <1>2, <1>3, <1>4

\* What the search passes over is learned to be bad.
LEMMA SkippedWorn ==
  ASSUME TypeInv
  PROVE  LET m == Skipped(ni)
         IN  /\ m \in Instances
             /\ m.map = ni.map /\ m.wc = ni.wc /\ m.top = ni.top /\ m.sig = ni.sig
             /\ m.cache = ni.cache /\ m.main = ni.main /\ m.backup = ni.backup
             /\ m.mba = ni.mba /\ m.protected = ni.protected
             /\ \A b \in Blocks : (m.st[b] => ni.st[b]) /\ (ni.st[b] /\ ~m.st[b] => b \in badmark)
<1> DEFINE S == {b \in Extent \intersect badmark :
                   Usable = {} \/ (IF Down THEN b > Block ELSE b < Block)}
<1>1. Skipped(ni) = SetBad(ni, S)
  BY DEF Skipped
<1>2. \A b \in S : b \in badmark
  OBVIOUS
<1> HIDE DEF S
<1>3. ni \in Instances
  BY TypeGives
<1>4. \A b \in Blocks : SetBad(ni, S).st[b] <=> ni.st[b] /\ b \notin S
  BY <1>3, SetBadIs
<1> QED BY <1>1, <1>2, <1>3, <1>4, SetBadIs

\* The block the search stops at is the first one it can use.
LEMMA BlockIs ==
  ASSUME TypeInv, pc.at \in TableSites, Usable # {}
  PROVE  FirstUsable(badmark, ni, pc, Block) /\ Block \in Blocks /\ Block \in Nat
<1>1. ~Down /\ pc.at \in Writers \union Erasers
  BY DEF Down, TableSites, Writers, Erasers
<1>2. /\ Block \in Usable /\ Block \in Extent /\ Block \in Blocks
      /\ \A b \in Usable : Block <= b
  BY <1>1, ExtentIs
<1>3. Extent = pc.ba .. pc.limit - 1
  BY <1>1 DEF Extent
<1>4. Block \in pc.ba .. pc.limit - 1 /\ ni.st[Block] /\ Block \notin badmark
  BY <1>2, <1>3 DEF Usable
<1>5. pc.ba \in Nat /\ pc.limit \in Nat /\ Block \in Nat
  BY <1>2, TypeGives, PlaceIs, Sizes
<1>6. ASSUME NEW c \in pc.ba .. Block - 1 PROVE c \in badmark \/ ~ni.st[c]
  <2>1. c \in Nat /\ c < Block /\ c \in pc.ba .. pc.limit - 1
    BY <1>4, <1>5
  <2>2. c \notin Usable
    BY <1>2, <1>5, <2>1
  <2> QED BY <1>3, <2>1, <2>2 DEF Usable
<1> QED BY <1>2, <1>4, <1>5, <1>6 DEF FirstUsable

\* The search goes on over block b, which is lost to the tables.
LEMMA GoesOn ==
  ASSUME NEW f \in [Blocks -> Contents], NEW bm, NEW n \in Instances, NEW p \in Places,
         NEW g \in [Blocks -> Contents], NEW cm, NEW m \in Instances, NEW q \in Places,
         NEW b \in Blocks,
         DiskOK(f, bm), Fine(f, bm, n, p), p.at \in TableSites,
         FirstUsable(bm, n, p, b), Advanced(q, p, b, cm),
         NEW c, Puts(g, f, b, c), bm \subseteq cm, cm \subseteq bm \union {b},
         b \in cm \/ (c.kind # "table" /\ c # Signature),
         m.map = n.map, m.wc = n.wc, m.top = n.top, m.sig = n.sig, m.cache = n.cache,
         m.main = n.main, m.backup = n.backup, m.mba = n.mba, m.protected = n.protected,
         \A d \in Blocks : (m.st[d] => n.st[d]) /\ (n.st[d] /\ ~m.st[d] => d \in cm),
         q.prog => q.ba = b /\ b \notin cm
  PROVE  DiskOK(g, cm) /\ Fine(g, cm, m, q)
<1>1. Base(f, bm, n, p) /\ Site(f, bm, n, p)
  BY AtSite
<1>2. Covers(f, bm, n) /\ Ordered(n) /\ OldSafe(n, p) /\ CacheReady(f, bm, n)
  BY <1>1 DEF Base, Ready
<1>3. b \notin Signs(f, bm)
  <2>1. b \in p.ba .. p.limit - 1 /\ p.limit <= n.top /\ n.top < n.sig /\ Signs(f, bm) = {n.sig}
    BY <1>1, <1>2, LimitIs DEF FirstUsable, Covers
  <2>2. /\ p.ba \in Nat /\ p.limit \in Nat /\ n.top \in Nat /\ n.sig \in Nat
    BY PlaceIs, InstanceIs
  <2> QED BY <2>1, <2>2
<1>4. Loses(f, bm, g, cm) /\ Tabs(g, cm) = Tabs(f, bm) \ {b}
  BY <1>3, LostBlock
<1>5. DiskOK(g, cm)
  BY <1>4, LosesDisk
<1>6. Worn(f, bm, n, g, cm, m)
  BY <1>4 DEF Worn
<1>7. Site(g, cm, m, q)
  BY <1>1, <1>2, <1>4, <1>6, SiteOn
<1>8. Covers(g, cm, m) /\ Ordered(m) /\ CacheReady(g, cm, m) /\ OldSafe(m, p)
  BY <1>2, <1>6, WornKeeps
<1>9. OldSafe(m, q)
  BY <1>8 DEF OldSafe, Advanced, SameCaller
<1>10. Base(g, cm, m, q)
  BY <1>1, <1>8, <1>9 DEF Base, Ready, Advanced, SameCaller
<1>11. q.at \in TableSites
  BY DEF Advanced
<1>12. q.prog => q.ba \notin Tabs(g, cm) /\ q.ba \notin cm /\ m.st[q.ba]
  <2>1. n.st[b]
    BY DEF FirstUsable
  <2> QED BY <1>4, <2>1
<1> QED BY <1>5, <1>7, <1>10, <1>11, <1>12, AtSite

\* Before the signature is written nothing on the flash counts.
LEMMA UnsignedOn ==
  ASSUME NEW f \in [Blocks -> Contents], NEW bm, NEW n, NEW p, NEW g, NEW cm, NEW m, NEW q,
         NEW b \in Blocks, NEW c, Puts(g, f, b, c), bm \subseteq cm, cm \subseteq bm \union {b},
         b \in cm \/ (c.kind # "table" /\ c # Signature),
         Fine(f, bm, n, p), p.at = "signature", q.at = "signature", SameCaller(q, p), q.ok = p.ok,
         q.limit = p.limit, m.map = n.map, m.protected = n.protected, q.prog => q.ba \notin cm
  PROVE  DiskOK(g, cm) /\ Fine(g, cm, m, q)
<1>1. Unsigned(f, bm, n, p)
  BY DEF Fine
<1>2. Loses(f, bm, g, cm) /\ Tabs(g, cm) = Tabs(f, bm) \ {b}
  <2>1. b \notin Signs(f, bm)
    BY <1>1 DEF Unsigned
  <2> QED BY <2>1, LostBlock
<1>3. Signs(g, cm) = {} /\ Tabs(g, cm) = {}
  BY <1>1, <1>2 DEF Unsigned, Loses
<1>4. Unsigned(g, cm, m, q)
  BY <1>1, <1>3 DEF Unsigned, SameCaller
<1>5. q.at \notin TableSites /\ q.at \notin RestSites
  BY DEF TableSites, RestSites
<1> QED BY <1>3, <1>4, <1>5 DEF DiskOK, Fine

\* Erasing a block keeps the invariant.
LEMMA InvErase ==
  ASSUME TypeInv, TypeInv', Inv, EraseBlock
  PROVE  Inv'
<1>1. /\ ni \in Instances /\ pc \in Places /\ flash \in [Blocks -> Contents]
      /\ ni' \in Instances /\ pc' \in Places /\ flash' \in [Blocks -> Contents]
  BY TypeGives, TypeGivesNext
<1>2. /\ pc.at \in Writers \union Erasers /\ Usable # {}
      /\ flash' = [flash EXCEPT ![Block] = Erased] /\ ni' = Skipped(ni)
      /\ pc' = IF pc.at \in Erasers THEN [pc EXCEPT !.ba = After(Block)]
               ELSE [pc EXCEPT !.ba = Block, !.prog = TRUE]
      /\ badmark' = badmark /\ ~pc.prog
  BY DEF EraseBlock
<1>3. DiskOK(flash, badmark) /\ Fine(flash, badmark, ni, pc)
  BY DEF Inv
<1>4. Puts(flash', flash, Block, Erased) /\ Erased.kind # "table" /\ Erased # Signature
  BY <1>2 DEF Puts, Erased, Signature
<1>5. Block \in Usable /\ Block \in Blocks
  BY <1>2, ExtentIs
<1>6. Block \notin badmark
  BY <1>5 DEF Usable
<1>7. /\ pc'.at = pc.at /\ pc'.limit = pc.limit /\ pc'.wba = pc.wba /\ pc'.tmp = pc.tmp
      /\ pc'.ok = pc.ok /\ SameCaller(pc', pc)
  BY <1>1, <1>2 DEF Places, SameCaller
<1>8. /\ pc'.prog => pc'.ba = Block
      /\ pc'.ba = Block \/ (pc'.ba = After(Block) /\ pc.at \in Erasers /\ ~pc'.prog)
  BY <1>1, <1>2 DEF Places
<1>9. /\ ni'.map = ni.map /\ ni'.wc = ni.wc /\ ni'.top = ni.top /\ ni'.sig = ni.sig
      /\ ni'.cache = ni.cache /\ ni'.main = ni.main /\ ni'.backup = ni.backup
      /\ ni'.mba = ni.mba /\ ni'.protected = ni.protected
      /\ \A b \in Blocks : (ni'.st[b] => ni.st[b]) /\ (ni.st[b] /\ ~ni'.st[b] => b \in badmark)
  BY <1>2, SkippedWorn
<1>10. /\ badmark \subseteq badmark' /\ badmark' \subseteq badmark \union {Block}
       /\ pc'.prog => pc'.ba = Block /\ Block \notin badmark'
  BY <1>2, <1>6, <1>8
<1>11. CASE pc.at = "signature"
  <2>1. pc'.prog => pc'.ba \notin badmark'
    BY <1>10
  <2>2. pc'.at = "signature"
    BY <1>7, <1>11
  <2>3. DiskOK(flash', badmark') /\ Fine(flash', badmark', ni', pc')
    BY <1>1, <1>3, <1>4, <1>5, <1>7, <1>9, <1>10, <1>11, <2>1, <2>2, UnsignedOn
  <2> QED BY <2>3, InvParts
<1>12. CASE pc.at # "signature"
  <2>1. pc.at \in TableSites
    BY <1>2, <1>12 DEF TableSites
  <2>2. FirstUsable(badmark, ni, pc, Block)
    BY <1>2, <2>1, BlockIs
  <2>3. After(Block) = Block + 1
    BY <1>12 DEF After, Down
  <2>4. Advanced(pc', pc, Block, badmark')
    BY <1>7, <1>8, <2>3 DEF Advanced
  <2>5. \A d \in Blocks : (ni'.st[d] => ni.st[d]) /\ (ni.st[d] /\ ~ni'.st[d] => d \in badmark')
    BY <1>2, <1>9
  <2>6. DiskOK(flash', badmark') /\ Fine(flash', badmark', ni', pc')
    BY <1>1, <1>3, <1>4, <1>5, <1>9, <1>10, <2>1, <2>2, <2>4, <2>5, GoesOn
  <2> QED BY <2>6, InvParts
<1> QED BY <1>11, <1>12

\* A block that fails keeps the invariant.
LEMMA InvFails ==
  ASSUME TypeInv, TypeInv', Inv, BlockFails
  PROVE  Inv'
<1>1. /\ ni \in Instances /\ pc \in Places /\ flash \in [Blocks -> Contents]
      /\ ni' \in Instances /\ pc' \in Places /\ flash' \in [Blocks -> Contents]
  BY TypeGives, TypeGivesNext
<1>2. /\ pc.at \in Writers \union Erasers /\ Usable # {}
      /\ \E c \in {flash[Block], Junk} : flash' = [flash EXCEPT ![Block] = c]
      /\ badmark' = badmark \union {Block} /\ ni' = SetBad(Skipped(ni), {Block})
      /\ pc' = [pc EXCEPT !.ba = After(Block), !.prog = FALSE]
  BY DEF BlockFails
<1>3. DiskOK(flash, badmark) /\ Fine(flash, badmark, ni, pc)
  BY DEF Inv
<1>4. PICK c : Puts(flash', flash, Block, c)
  BY <1>2 DEF Puts
<1>5. Block \in Blocks
  BY <1>2, ExtentIs
<1>6. /\ pc'.at = pc.at /\ pc'.limit = pc.limit /\ pc'.wba = pc.wba /\ pc'.tmp = pc.tmp
      /\ pc'.ok = pc.ok /\ SameCaller(pc', pc) /\ ~pc'.prog /\ pc'.ba = After(Block)
  BY <1>1, <1>2 DEF Places, SameCaller
<1>7. /\ ni'.map = ni.map /\ ni'.wc = ni.wc /\ ni'.top = ni.top /\ ni'.sig = ni.sig
      /\ ni'.cache = ni.cache /\ ni'.main = ni.main /\ ni'.backup = ni.backup
      /\ ni'.mba = ni.mba /\ ni'.protected = ni.protected
      /\ \A b \in Blocks : (ni'.st[b] => ni.st[b]) /\ (ni.st[b] /\ ~ni'.st[b] => b \in badmark')
  <2> DEFINE m == Skipped(ni)
  <2>1. /\ m \in Instances /\ m.map = ni.map /\ m.wc = ni.wc /\ m.top = ni.top /\ m.sig = ni.sig
        /\ m.cache = ni.cache /\ m.main = ni.main /\ m.backup = ni.backup
        /\ m.mba = ni.mba /\ m.protected = ni.protected
        /\ \A b \in Blocks : (m.st[b] => ni.st[b]) /\ (ni.st[b] /\ ~m.st[b] => b \in badmark)
    BY SkippedWorn
  <2>2. ni' = SetBad(m, {Block})
    BY <1>2
  <2> HIDE DEF m
  <2>3. /\ \A b \in Blocks : ni'.st[b] <=> m.st[b] /\ b \notin {Block}
        /\ ni'.map = m.map /\ ni'.wc = m.wc /\ ni'.top = m.top /\ ni'.sig = m.sig
        /\ ni'.cache = m.cache /\ ni'.main = m.main /\ ni'.backup = m.backup
        /\ ni'.mba = m.mba /\ ni'.protected = m.protected
    BY <2>1, <2>2, SetBadIs
  <2>4. \A b \in Blocks : (ni'.st[b] => ni.st[b]) /\ (ni.st[b] /\ ~ni'.st[b] => b \in badmark')
    BY <1>2, <2>1, <2>3
  <2> QED BY <2>1, <2>3, <2>4
<1>8. badmark \subseteq badmark' /\ badmark' \subseteq badmark \union {Block} /\ Block \in badmark'
  BY <1>2
<1>9. CASE pc.at = "signature"
  BY <1>1, <1>3, <1>4, <1>5, <1>6, <1>7, <1>8, <1>9, UnsignedOn, InvParts
<1>10. CASE pc.at # "signature"
  <2>1. pc.at \in TableSites
    BY <1>2, <1>10 DEF TableSites
  <2>2. FirstUsable(badmark, ni, pc, Block)
    BY <1>2, <2>1, BlockIs
  <2>3. After(Block) = Block + 1
    BY <1>10 DEF After, Down
  <2>4. Advanced(pc', pc, Block, badmark')
    BY <1>6, <1>8, <2>3 DEF Advanced
  <2>5. DiskOK(flash', badmark') /\ Fine(flash', badmark', ni', pc')
    BY <1>1, <1>3, <1>4, <1>5, <1>6, <1>7, <1>8, <2>1, <2>2, <2>4, GoesOn
  <2> QED BY <2>5, InvParts
<1> QED BY <1>9, <1>10

\* What the search has learned does not change what is known at its site.
LEMMA WornSite ==
  ASSUME NEW f \in [Blocks -> Contents], NEW bm, NEW n \in Instances, NEW m \in Instances,
         NEW p \in Places, Worn(f, bm, n, f, bm, m), Site(f, bm, n, p)
  PROVE  Site(f, bm, m, p)
<1>1. /\ m.map = n.map /\ m.wc = n.wc /\ m.top = n.top /\ m.sig = n.sig /\ m.cache = n.cache
      /\ m.main = n.main /\ m.backup = n.backup /\ m.mba = n.mba
      /\ \A b \in Blocks : (m.st[b] => n.st[b]) /\ (n.st[b] /\ ~m.st[b] => b \in bm)
  BY DEF Worn
<1>2. /\ \A b \in 0 .. NB : UsedUp(bm, n, b) => UsedUp(bm, m, b)
      /\ \A t : KnowsBad(bm, n, t) => KnowsBad(bm, m, t)
      /\ Synced(f, bm, n) => Synced(f, bm, m)
  BY WornKeeps
<1>3. p.ba \in 0 .. NB /\ n.backup \in 0 .. NB
  BY InstanceIs, BlockBounds DEF Places
<1>4. /\ UsedUp(bm, n, p.ba) => UsedUp(bm, m, p.ba)
      /\ UsedUp(bm, n, n.backup) => UsedUp(bm, m, n.backup)
  BY <1>2, <1>3
<1>5. AtUpdateBackup(f, bm, n, p) => AtUpdateBackup(f, bm, m, p)
  BY <1>1 DEF AtUpdateBackup
<1>6. AtUpdateMain(f, bm, n, p) => AtUpdateMain(f, bm, m, p)
  BY <1>1, <1>4 DEF AtUpdateMain
<1>7. AtRebuildMain(f, bm, n, p) => AtRebuildMain(f, bm, m, p)
  BY <1>1, <1>4 DEF AtRebuildMain
<1>8. AtRebuildBackup(f, bm, n, p) => AtRebuildBackup(f, bm, m, p)
  BY <1>1, <1>2 DEF AtRebuildBackup
<1>9. AtEraseBetween(f, bm, n, p) => AtEraseBetween(f, bm, m, p)
  BY <1>1, <1>2 DEF AtEraseBetween
<1>10. AtRescueFront(f, bm, n, p) => AtRescueFront(f, bm, m, p)
  <2>1. \A c \in MgmtStart .. n.main - 1 : c \in Blocks
    BY InstanceIs, Sizes DEF Blocks
  <2>2. (\A c \in MgmtStart .. n.main - 1 : f[n.main].st[c] /\ ~n.st[c] => c \in bm)
        => \A c \in MgmtStart .. n.main - 1 : f[n.main].st[c] /\ ~m.st[c] => c \in bm
    BY <1>1, <2>1
  <2> QED BY <1>1, <1>2, <1>4, <2>2 DEF AtRescueFront
<1>11. AtRescueBehind(f, bm, n, p) => AtRescueBehind(f, bm, m, p)
  BY <1>1, <1>2 DEF AtRescueBehind
<1>12. AtEraseBehind(f, bm, n, p) => AtEraseBehind(f, bm, m, p)
  BY <1>1, <1>2 DEF AtEraseBehind
<1>13. AtSingleMain(f, bm, n, p) => AtSingleMain(f, bm, m, p)
  BY <1>1, <1>2, <1>4 DEF AtSingleMain
<1>14. AtSingleBackup(f, bm, n, p) => AtSingleBackup(f, bm, m, p)
  BY <1>1 DEF AtSingleBackup
<1>15. AtRescueTmp(f, bm, n, p) => AtRescueTmp(f, bm, m, p)
  BY <1>1, <1>2, <1>4 DEF AtRescueTmp
<1>16. AtRescueMain(f, bm, n, p) => AtRescueMain(f, bm, m, p)
  BY <1>1, <1>2, <1>4 DEF AtRescueMain
<1> QED BY <1>5, <1>6, <1>7, <1>8, <1>9, <1>10, <1>11, <1>12, <1>13, <1>14, <1>15, <1>16 DEF Site

\* A step of the driver that ends in the state s.
LEMMA BecomeFine ==
  ASSUME NEW s, Become(s), DiskOK(flash', badmark'), FineStep(flash', badmark', s)
  PROVE  Inv'
<1>1. ni' = s.ni /\ pc' = s.pc
  BY DEF Become
<1> QED BY <1>1, InvParts DEF FineStep

\* The driver has given up, or is not attached.
LEMMA DeadFine ==
  ASSUME NEW f, NEW bm, NEW n, NEW p, p.at \in {"off", "dead"}
  PROVE  Fine(f, bm, n, p)
BY DEF Fine, TableSites, RestSites, Writers, Erasers

\* A table operation that has run out of blocks keeps the invariant.
LEMMA InvRangeEnds ==
  ASSUME TypeInv, Inv, RangeEnds
  PROVE  Inv'
<1> DEFINE m == Skipped(ni)
           s == IF pc.at \in Erasers THEN EraseNext(m, pc) ELSE WriteNext(m, pc, FALSE, None)
<1>1. /\ pc.at \in Writers \union Erasers /\ Usable = {} /\ Become(s)
      /\ flash' = flash /\ badmark' = badmark
  BY DEF RangeEnds
<1>2. ni \in Instances /\ pc \in Places /\ flash \in [Blocks -> Contents]
  BY TypeGives
<1>3. DiskOK(flash, badmark) /\ Fine(flash, badmark, ni, pc)
  BY DEF Inv
<1>4. /\ m \in Instances
      /\ m.map = ni.map /\ m.wc = ni.wc /\ m.top = ni.top /\ m.sig = ni.sig
      /\ m.cache = ni.cache /\ m.main = ni.main /\ m.backup = ni.backup
      /\ m.mba = ni.mba /\ m.protected = ni.protected
      /\ \A b \in Blocks : (m.st[b] => ni.st[b]) /\ (ni.st[b] /\ ~m.st[b] => b \in badmark)
  BY SkippedWorn
<1> HIDE DEF m, s
<1>5. SUFFICES FineStep(flash, badmark, s)
  BY <1>1, <1>3, BecomeFine
<1>6. CASE pc.at = "signature"
  <2>1. s = Step(m, Rest("dead"))
    BY <1>6 DEF s, Erasers, WriteNext, SignatureNext
  <2>2. s.pc.at = "dead"
    BY <2>1, RestIs DEF Step, Sites
  <2> QED BY <2>2, DeadFine DEF FineStep
<1>7. CASE pc.at # "signature"
  <2>1. pc.at \in TableSites
    BY <1>1, <1>7 DEF TableSites
  <2>2. Base(flash, badmark, ni, pc) /\ Site(flash, badmark, ni, pc)
    BY <1>3, <2>1, AtSite
  <2>3. Worn(flash, badmark, ni, flash, badmark, m)
    BY <1>4 DEF Worn, Loses
  <2>4. Site(flash, badmark, m, pc)
    BY <1>2, <1>4, <2>2, <2>3, WornSite
  <2>5. Base(flash, badmark, m, pc)
    <3>1. /\ Covers(flash, badmark, m) /\ Ordered(m) /\ OldSafe(m, pc)
          /\ CacheReady(flash, badmark, m)
      BY <1>2, <2>2, <2>3, WornKeeps DEF Base, Ready
    <3> QED BY <1>4, <2>2, <3>1 DEF Base, Ready
  <2>6. Exhausted(badmark, m, pc)
    <3>1. Extent = pc.ba .. pc.limit - 1 /\ Extent \subseteq Blocks
      BY <1>1, <1>7, ExtentIs DEF Extent, Down
    <3>2. \A c \in Extent : c \in badmark \/ ~ni.st[c]
      BY <1>1 DEF Usable
    <3> QED BY <1>4, <3>1, <3>2 DEF Exhausted
  <2>7. CASE pc.at \in Erasers
    BY <1>2, <1>3, <1>4, <2>4, <2>5, <2>7, ErasedFine DEF s
  <2>8. CASE pc.at \notin Erasers
    BY <1>1, <1>2, <1>4, <1>7, <2>4, <2>5, <2>6, <2>8, FailedFine DEF s
  <2> QED BY <2>7, <2>8
<1> QED BY <1>6, <1>7

\* nmbm_create_info_table, on a chip with a signature and no table.
LEMMA CreateFine ==
  ASSUME NEW f \in [Blocks -> Contents], NEW bm, NEW n \in Instances, NEW p \in Places,
         Signs(f, bm) = {n.sig}, Tabs(f, bm) = {}, MapFits(n.map, NB, NB),
         ~n.protected, ~p.mark, p.ok
  PROVE  FineStep(f, bm, CreateInfoTable(n, p))
<1> DEFINE top == WalkDesc(n, n.sig, 1, MgmtStart)
           t == [n EXCEPT !.top = top]
           c == GenCache(t)
           q == [p EXCEPT !.ret = "build"]
<1>1. CreateInfoTable(n, p) = IF top = None THEN Step(n, Rest("dead")) ELSE RebuildInfoTable(c, q)
  BY DEF CreateInfoTable
<1>2. FineStep(f, bm, Step(n, Rest("dead")))
  <2>1. Step(n, Rest("dead")).pc.at = "dead"
    BY RestIs DEF Step, Sites
  <2> QED BY <2>1, DeadFine DEF FineStep
<1>3. ASSUME top # None PROVE FineStep(f, bm, RebuildInfoTable(c, q))
  <2>1. n.sig \in Nat /\ n.sig \in Int /\ n.sig \in Blocks /\ MgmtStart \in Nat
    BY InstanceIs, Sizes
  <2>2. top \in Nat /\ MgmtStart < top /\ top < n.sig
    BY <1>3, <2>1, WalkFound
  <2> HIDE DEF top
  <2>3. top \in Blocks
    BY <2>1, <2>2, BlockBounds
  <2>4. /\ t \in Instances /\ t.top = top /\ t.sig = n.sig /\ t.map = n.map /\ t.st = n.st
        /\ t.protected = n.protected
    BY <2>3 DEF Instances
  <2> HIDE DEF t
  <2>5. /\ c \in Instances /\ c.top = top /\ c.sig = n.sig /\ c.map = n.map /\ c.st = n.st
        /\ c.protected = n.protected /\ c.cache.wc = c.wc /\ c.cache.map = c.map
        /\ c.cache.st = c.st
    BY <2>4, GenCacheIs
  <2> HIDE DEF c
  <2>6. q \in Places /\ q.ret = "build" /\ q.mark = p.mark /\ q.ok = p.ok
    BY DEF Places
  <2> HIDE DEF q
  <2>7. MapFits(c.map, c.top, c.sig)
    <3>1. ASSUME NEW i \in LBlocks PROVE ~(c.map[i] >= MgmtStart)
      <4>1. c.map[i] \in Int /\ (c.map[i] = Unmapped \/ c.map[i] \in Blocks)
        BY <2>5, InstanceIs, MapIs
      <4>2. c.map[i] >= MgmtStart => NB < c.map[i] /\ c.map[i] < NB
        BY <2>5 DEF MapFits
      <4> QED BY <4>1, <4>2, Sizes
    <3>2. \A i, j \in LBlocks : c.map[i] # Unmapped /\ c.map[i] = c.map[j] => i = j
      BY <2>5 DEF MapFits
    <3> QED BY <3>1, <3>2 DEF MapFits
  <2>8. Covers(f, bm, c)
    BY <2>2, <2>5, <2>7 DEF Covers
  <2>9. CacheReady(f, bm, c)
    BY <2>5 DEF CacheReady, KnowsBad
  <2>10. Ready(f, bm, c, q)
    BY <2>5, <2>6, <2>8, <2>9 DEF Ready, OldSafe
  <2> QED BY <2>2, <2>5, <2>6, <2>10, RebuildFine
<1> QED BY <1>1, <1>2, <1>3

\* The first signature is written.
LEMMA SignatureWritten ==
  ASSUME NEW f \in [Blocks -> Contents], NEW bm, NEW n \in Instances, NEW p \in Places,
         Fine(f, bm, n, p), p.at = "signature", p.prog, p.ba \in Blocks,
         NEW g \in [Blocks -> Contents], Puts(g, f, p.ba, Signature)
  PROVE  DiskOK(g, bm) /\ FineStep(g, bm, WriteNext(n, p, TRUE, p.ba))
<1> DEFINE x == p.ba
           m == [n EXCEPT !.sig = x]
<1>1. WriteNext(n, p, TRUE, x) = CreateInfoTable(m, p)
  BY DEF WriteNext, SignatureNext
<1>2. m \in Instances /\ m.sig = x /\ m.map = n.map /\ m.protected = n.protected
  BY DEF Instances
<1> HIDE DEF m, x
<1>3. Unsigned(f, bm, n, p)
  BY DEF Fine
<1>4. /\ Signs(f, bm) = {} /\ Tabs(f, bm) = {} /\ MapFits(n.map, NB, NB)
      /\ ~n.protected /\ ~p.mark /\ p.ok /\ x \notin bm
  BY <1>3 DEF Unsigned, x
<1>5. x \in Blocks /\ g[x] = Signature /\ \A t \in Blocks : t # x => g[t] = f[t]
  BY DEF x, Puts
<1>6. Signs(g, bm) = {x}
  BY <1>4, <1>5 DEF Signs
<1>7. Tabs(g, bm) = {}
  <2>1. Signature.kind # "table" /\ \A t \in Area : t \in Blocks
    BY Sizes DEF Signature
  <2> QED BY <1>4, <1>5, <2>1 DEF Tabs
<1>8. DiskOK(g, bm)
  <2>1. MgmtStart \in Area /\ TablesFit(g, bm, x)
    BY <1>7, Sizes DEF Area, TablesFit
  <2> QED BY <1>5, <1>6, <1>7, <2>1 DEF DiskOK
<1>9. FineStep(g, bm, CreateInfoTable(m, p))
  BY <1>2, <1>4, <1>6, <1>7, CreateFine
<1> QED BY <1>1, <1>8, <1>9 DEF x

\* Programming a block keeps the invariant.
LEMMA InvProgram ==
  ASSUME TypeInv, TypeInv', Inv, ProgramBlock
  PROVE  Inv'
<1>1. /\ pc.prog /\ Become(WriteNext(ni, pc, TRUE, pc.ba)) /\ badmark' = badmark
      /\ flash' = [flash EXCEPT ![pc.ba] = IF pc.at = "signature" THEN Signature ELSE ni.cache]
  BY DEF ProgramBlock
<1>2. /\ ni \in Instances /\ pc \in Places /\ flash \in [Blocks -> Contents] /\ InRange(pc)
      /\ flash' \in [Blocks -> Contents]
  BY TypeGives, TypeGivesNext
<1>3. pc.at \in Writers
  BY <1>1, <1>2 DEF InRange
<1>4. DiskOK(flash, badmark) /\ Fine(flash, badmark, ni, pc)
  BY DEF Inv
<1>5. SUFFICES DiskOK(flash', badmark) /\ FineStep(flash', badmark, WriteNext(ni, pc, TRUE, pc.ba))
  BY <1>1, BecomeFine
<1>6. CASE pc.at = "signature"
  <2>1. pc.ba \in Blocks
    BY <1>2, <1>6 DEF InRange
  <2>2. Puts(flash', flash, pc.ba, Signature)
    BY <1>1, <1>6 DEF Puts
  <2> QED BY <1>1, <1>2, <1>4, <1>6, <2>1, <2>2, SignatureWritten
<1>7. CASE pc.at # "signature"
  <2>1. pc.at \in TableSites /\ pc.ba < pc.limit
    BY <1>1, <1>2, <1>3, <1>7 DEF TableSites, InRange
  <2>2. /\ Base(flash, badmark, ni, pc) /\ Site(flash, badmark, ni, pc)
        /\ pc.ba \notin Tabs(flash, badmark) /\ pc.ba \notin badmark /\ ni.st[pc.ba]
    BY <1>1, <1>4, <2>1, AtSite
  <2>3. Puts(flash', flash, pc.ba, ni.cache)
    BY <1>1, <1>7 DEF Puts
  <2>4. Programs(flash, badmark, ni, pc, flash')
    BY <1>1, <1>4, <2>1, <2>2, <2>3 DEF Programs
  <2>5. Wrote(badmark, ni, pc, flash')
    BY <1>2, <1>3, <1>7, <2>2, <2>4, WrittenFine
  <2> QED BY <2>5 DEF Wrote
<1> QED BY <1>6, <1>7

-----------------------------------------------------------------------------
(* The driver between its writes of tables. *)

\* What holds whenever no table is being written.
RestCore(f, bm, n) ==
  /\ Covers(f, bm, n) /\ Ordered(n)
  /\ Tabs(f, bm) \subseteq {n.main, n.backup}
  /\ SameMaps(f, bm)
  /\ ~n.protected => n.main \in Tabs(f, bm)
  /\ n.main \in Tabs(f, bm) => Tight(f, bm, n.main)

\* ... and what depends on the place.
RestAt(f, bm, n, p) ==
  /\ p.at = "idle" /\ ~n.protected => Synced(f, bm, n)
  /\ p.at = "return" /\ p.ret \in Updates =>
       (p.ok \/ n.protected) /\ (~n.protected /\ ~n.dirty => Synced(f, bm, n))
  /\ p.at = "return" /\ p.ret \notin Updates =>
       ~p.mark /\ (p.ok => ~n.protected /\ Synced(f, bm, n))
  /\ p.at = "create_map" => ~n.protected /\ (~n.dirty => Synced(f, bm, n))
  /\ p.at \in {"remap_erase", "remap_copy"} => n.dirty

\* The invariant where no table is being written.
LEMMA AtRest ==
  ASSUME NEW f, NEW bm, NEW n, NEW p, p.at \in RestSites
  PROVE  Fine(f, bm, n, p) <=> RestCore(f, bm, n) /\ OldSafe(n, p) /\ RestAt(f, bm, n, p)
<1>1. p.at # "signature" /\ p.at \notin TableSites
  BY DEF RestSites, TableSites, Writers, Erasers
<1> QED BY <1>1 DEF Fine, Resting, RestCore, RestAt

\* The blocks of the data are not those of the tables or the signature.
LEMMA DataBlock ==
  ASSUME NEW f \in [Blocks -> Contents], NEW bm, NEW n \in Instances, RestCore(f, bm, n),
         NEW b \in Blocks, b < MgmtStart \/ (n.top < b /\ b < n.sig)
  PROVE  b \notin Tabs(f, bm) /\ b \notin Signs(f, bm)
<1>1. /\ Signs(f, bm) = {n.sig} /\ n.top < n.sig
      /\ \A t \in Tabs(f, bm) : t < n.top /\ t \in Nat /\ t >= MgmtStart
  BY TabsIs DEF RestCore, Covers, Fits
<1>2. n.sig \in Nat /\ n.top \in Nat /\ n.mba \in Nat /\ b \in Nat
  BY InstanceIs, Sizes
<1>3. MgmtStart < n.mba /\ n.mba <= n.top
  BY DEF RestCore, Ordered
<1>4. b # n.sig
  BY <1>1, <1>2, <1>3, Sizes
<1>5. ASSUME b \in Tabs(f, bm) PROVE FALSE
  <2>1. b < n.top /\ b >= MgmtStart
    BY <1>1, <1>5
  <2> QED BY <1>2, <2>1, Sizes
<1> QED BY <1>1, <1>4, <1>5

\* Marking such a block bad, or writing data to it, leaves the tables alone.
LEMMA DataChanges ==
  ASSUME NEW f \in [Blocks -> Contents], NEW bm, NEW n \in Instances, RestCore(f, bm, n),
         DiskOK(f, bm), NEW g \in [Blocks -> Contents], NEW cm,
         Loses(f, bm, g, cm), Tabs(g, cm) = Tabs(f, bm)
  PROVE  /\ DiskOK(g, cm) /\ RestCore(g, cm, n)
         /\ \A p : RestAt(f, bm, n, p) => RestAt(g, cm, n, p)
<1>1. Worn(f, bm, n, g, cm, n)
  BY DEF Worn
<1>2. DiskOK(g, cm)
  BY LosesDisk
<1>3. Covers(g, cm, n) /\ Ordered(n) /\ SameMaps(g, cm)
      /\ (Synced(f, bm, n) => Synced(g, cm, n))
      /\ \A t \in Tabs(g, cm) : Tight(f, bm, t) => Tight(g, cm, t)
  BY <1>1, WornKeeps DEF RestCore
<1>4. RestCore(g, cm, n)
  BY <1>3 DEF RestCore
<1>5. \A p : RestAt(f, bm, n, p) => RestAt(g, cm, n, p)
  BY <1>3 DEF RestAt
<1> QED BY <1>2, <1>4, <1>5

\* Block b, which is none of theirs, is marked bad or gets other data.
LEMMA DataLost ==
  ASSUME NEW f \in [Blocks -> Contents], NEW bm, NEW n \in Instances, RestCore(f, bm, n),
         NEW b \in Blocks, b < MgmtStart \/ (n.top < b /\ b < n.sig),
         NEW g, NEW c, Puts(g, f, b, c), NEW cm, bm \subseteq cm, cm \subseteq bm \union {b},
         b \in cm \/ (c.kind # "table" /\ c # Signature)
  PROVE  Loses(f, bm, g, cm) /\ Tabs(g, cm) = Tabs(f, bm)
<1>1. b \notin Tabs(f, bm) /\ b \notin Signs(f, bm)
  BY DataBlock
<1>2. Loses(f, bm, g, cm) /\ Tabs(g, cm) = Tabs(f, bm) \ {b}
  BY <1>1, LostBlock
<1> QED BY <1>1, <1>2

\* The block of a logic block is in the data area or above the pool.
LEMMA MappedBlock ==
  ASSUME NEW f, NEW bm, NEW n \in Instances, RestCore(f, bm, n), NEW i \in LBlocks,
         n.map[i] # Unmapped
  PROVE  /\ n.map[i] \in Blocks /\ n.map[i] \in Nat
         /\ n.map[i] < MgmtStart \/ (n.top < n.map[i] /\ n.map[i] < n.sig)
<1>1. n.map[i] \in Blocks /\ n.map[i] \in Nat
  BY InstanceIs, MapIs, Sizes
<1>2. n.map[i] >= MgmtStart => n.top < n.map[i] /\ n.map[i] < n.sig
  BY DEF RestCore, Covers, MapFits
<1> QED BY <1>1, <1>2, Sizes

\* Data is written to the block of the logic block i.
LEMMA DataWritten ==
  ASSUME NEW f \in [Blocks -> Contents], NEW bm, NEW n \in Instances, RestCore(f, bm, n),
         NEW i \in LBlocks, NEW g, NEW c, Puts(g, f, n.map[i], c),
         c.kind # "table" /\ c # Signature
  PROVE  Loses(f, bm, g, bm) /\ Tabs(g, bm) = Tabs(f, bm)
<1>1. CASE n.map[i] = Unmapped
  <2>1. Unmapped \notin Blocks
    BY Sizes
  <2>2. g = f
    BY <1>1, <2>1 DEF Puts
  <2> QED BY <2>2 DEF Loses
<1>2. CASE n.map[i] # Unmapped
  <2>1. /\ n.map[i] \in Blocks
        /\ n.map[i] < MgmtStart \/ (n.top < n.map[i] /\ n.map[i] < n.sig)
    BY <1>2, MappedBlock
  <2> QED BY <2>1, DataLost
<1> QED BY <1>1, <1>2

\* nmbm_map_block takes the block at the top of the pool.
LEMMA TakesTopKeeps ==
  ASSUME NEW f \in [Blocks -> Contents], NEW bm, NEW n \in Instances, RestCore(f, bm, n),
         n.mba < n.top, NEW lb \in LBlocks, NEW m \in Instances,
         m.map = [n.map EXCEPT ![lb] = n.top], m.top = n.top - 1,
         m.st = n.st, m.wc = n.wc, m.sig = n.sig, m.main = n.main, m.backup = n.backup,
         m.mba = n.mba, m.protected = n.protected
  PROVE  RestCore(f, bm, m) /\ \A p \in Places : OldSafe(n, p) => OldSafe(m, p)
<1>1. /\ n.main \in Nat /\ n.backup \in Nat /\ n.mba \in Nat /\ n.top \in Nat /\ n.sig \in Nat
      /\ n.top \in Blocks /\ m.top \in Nat
  BY InstanceIs
<1>2. Covers(f, bm, n) /\ Ordered(n) /\ Tabs(f, bm) \subseteq {n.main, n.backup}
  BY DEF RestCore
<1>3. Signs(f, bm) = {n.sig} /\ n.top < n.sig /\ MapFits(n.map, n.top, n.sig)
  BY <1>2 DEF Covers
<1>4. MgmtStart < n.mba /\ m.top < n.top /\ n.mba <= m.top /\ m.top < m.sig /\ MgmtStart <= n.top
  BY <1>1, <1>2, <1>3, Sizes DEF Ordered
<1>5. /\ m.map[lb] = n.top
      /\ \A i \in LBlocks : i # lb => m.map[i] = n.map[i]
  BY InstanceIs DEF Mappings
<1>6. \A i \in LBlocks : n.map[i] \in Int /\ m.map[i] \in Int
  BY InstanceIs, MapIs
<1>7. \A i \in LBlocks : n.map[i] # n.top
  <2>1. \A i \in LBlocks : n.map[i] >= MgmtStart => n.top < n.map[i]
    BY <1>3 DEF MapFits
  <2> QED BY <1>1, <1>4, <1>6, <2>1, Sizes
<1>8. MapFits(m.map, m.top, m.sig)
  <2>1. ASSUME NEW i \in LBlocks, NEW j \in LBlocks, m.map[i] # Unmapped, m.map[i] = m.map[j]
        PROVE  i = j
    BY <1>3, <1>5, <1>7, <2>1 DEF MapFits
  <2>2. ASSUME NEW i \in LBlocks, m.map[i] >= MgmtStart PROVE m.top < m.map[i] /\ m.map[i] < m.sig
    <3>1. CASE i = lb
      BY <1>3, <1>4, <1>5, <3>1
    <3>2. CASE i # lb
      <4>1. n.map[i] \in Int /\ m.map[i] = n.map[i]
        BY <1>5, <1>6, <3>2
      <4>2. n.top < n.map[i] /\ n.map[i] < n.sig
        BY <1>3, <2>2, <4>1 DEF MapFits
      <4> QED BY <1>1, <1>4, <4>1, <4>2
    <3> QED BY <3>1, <3>2
  <2> QED BY <2>1, <2>2 DEF MapFits
<1>9. ASSUME NEW t \in Tabs(f, bm) PROVE Fits(f, m, t)
  <2>1. Fits(f, n, t) /\ t \in Nat /\ t # None /\ f[t].map \in Mappings
    BY <1>2, TabsIs DEF Covers
  <2>2. t < n.mba
    BY <1>2, <2>1 DEF Ordered
  <2>3. t < m.top
    BY <1>1, <1>4, <2>1, <2>2
  <2>4. \A i \in LBlocks : f[t].map[i] \in Int /\ (f[t].map[i] >= MgmtStart => n.top < f[t].map[i] /\ f[t].map[i] < n.sig)
    BY <2>1, MapIs DEF Fits, MapFits
  <2>5. MapFits(f[t].map, m.top, m.sig)
    <3>1. \A i \in LBlocks : f[t].map[i] >= MgmtStart => m.top < f[t].map[i] /\ f[t].map[i] < m.sig
      BY <1>1, <1>4, <2>4
    <3> QED BY <2>1, <3>1 DEF Fits, MapFits
  <2>6. Low(f[t].map, m.map)
    <3>1. \A i \in LBlocks : f[t].map[i] >= MgmtStart => MgmtStart <= m.map[lb] /\ m.map[lb] <= f[t].map[i]
      BY <1>1, <1>4, <1>5, <2>4
    <3> QED BY <3>1 DEF Low
  <2> QED BY <2>1, <2>3, <2>5, <2>6 DEF Fits
<1>10. Covers(f, bm, m)
  BY <1>3, <1>4, <1>8, <1>9 DEF Covers
<1>11. Ordered(m)
  BY <1>2, <1>4 DEF Ordered
<1>12. RestCore(f, bm, m)
  BY <1>10, <1>11 DEF RestCore
<1>13. ASSUME NEW p \in Places, OldSafe(n, p) PROVE OldSafe(m, p)
  <2>1. p.old \in Nat
    BY PlaceIs
  <2>2. n.top < p.old => m.top < p.old
    BY <1>1, <1>4, <2>1
  <2> QED BY <1>13, <2>2 DEF OldSafe
<1> QED BY <1>12, <1>13

\* A step to a place where the invariant holds.
LEMMA StepFine ==
  ASSUME NEW f, NEW bm, NEW n, NEW p, Fine(f, bm, n, p)
  PROVE  FineStep(f, bm, Step(n, p))
BY DEF FineStep, Step

\* The driver waits for its user.
LEMMA IdleFine ==
  ASSUME NEW f, NEW bm, NEW n, RestCore(f, bm, n), ~n.protected => Synced(f, bm, n)
  PROVE  FineStep(f, bm, Step(n, Rest("idle")))
<1> DEFINE p == Rest("idle")
<1>1. p.at = "idle" /\ ~p.mark
  BY RestIs DEF Sites
<1> HIDE DEF p
<1>2. p.at \in RestSites /\ OldSafe(n, p) /\ RestAt(f, bm, n, p)
  BY <1>1 DEF RestSites, OldSafe, RestAt
<1> QED BY <1>2, AtRest, StepFine DEF p

\* nmbm_update_info_table is called.
LEMMA UpdateFine ==
  ASSUME NEW f, NEW bm, NEW n, NEW p \in Places, NEW ret \in Updates,
         RestCore(f, bm, n), OldSafe(n, p), ~n.protected /\ ~n.dirty => Synced(f, bm, n)
  PROVE  FineStep(f, bm, UpdateInfoTable(n, p, ret))
<1> DEFINE s == UpdateInfoTable(n, p, ret)
<1>1. /\ s.ni = n /\ s.pc.at = "return" /\ s.pc.ok /\ s.pc.ret = ret /\ s.pc.old = p.old
      /\ s.pc.mark = p.mark
  BY UpdateInfoTableIs
<1> HIDE DEF s
<1>2. s.pc.at \in RestSites /\ OldSafe(n, s.pc) /\ RestAt(f, bm, n, s.pc)
  BY <1>1 DEF RestSites, OldSafe, RestAt
<1>3. Fine(f, bm, n, s.pc)
  BY <1>2, AtRest
<1> QED BY <1>1, <1>3 DEF FineStep, s

\* The loop of nmbm_update_info_table keeps the invariant.
LEMMA InvUpdateAgain ==
  ASSUME TypeInv, Inv, UpdateAgain
  PROVE  Inv'
<1> DEFINE c == GenCache(ni)
<1>1. /\ pc.at = "return" /\ pc.ret \in Updates /\ pc.ok /\ ~ni.protected /\ ni.dirty
      /\ Become(UpdateOnce(ni, pc)) /\ flash' = flash /\ badmark' = badmark
  BY DEF UpdateAgain, MustUpdate
<1>2. ni \in Instances /\ pc \in Places /\ flash \in [Blocks -> Contents]
  BY TypeGives
<1>3. /\ DiskOK(flash, badmark) /\ RestCore(flash, badmark, ni) /\ OldSafe(ni, pc)
  BY <1>1, AtRest DEF Inv, RestSites
<1>4. UpdateOnce(ni, pc) = IF c.backup = None THEN WriteMain(c, pc, c.top)
                           ELSE Write(c, pc, "update_backup", c.backup, c.top)
  BY DEF UpdateOnce
<1>5. /\ c \in Instances /\ c.st = ni.st /\ c.map = ni.map /\ c.top = ni.top /\ c.sig = ni.sig
      /\ c.main = ni.main /\ c.backup = ni.backup /\ c.mba = ni.mba /\ c.protected = ni.protected
      /\ c.wc = ni.wc + 1 /\ c.cache.wc = c.wc /\ c.cache.map = c.map /\ c.cache.st = c.st
  BY <1>1, <1>2, GenCacheIs
<1> HIDE DEF c
<1>6. /\ Covers(flash, badmark, ni) /\ Ordered(ni) /\ SameMaps(flash, badmark)
      /\ ni.main \in Tabs(flash, badmark) /\ Tight(flash, badmark, ni.main)
      /\ Tabs(flash, badmark) \subseteq {ni.main, ni.backup}
  BY <1>1, <1>3 DEF RestCore
<1>7. Covers(flash, badmark, c) /\ CacheReady(flash, badmark, c)
  <2>1. ASSUME NEW t \in Tabs(flash, badmark)
        PROVE  Fits(flash, c, t) /\ Older(flash[t], c.cache)
    <3>1. Fits(flash, ni, t) /\ flash[t].wc \in Nat
      BY <1>2, <1>6, TabsIs DEF Covers
    <3>2. ni.wc \in Nat
      BY <1>2, InstanceIs
    <3>3. flash[t].wc <= c.wc /\ flash[t].wc # c.wc
      BY <1>5, <3>1, <3>2 DEF Fits
    <3>4. Fits(flash, c, t)
      BY <1>5, <3>1, <3>3 DEF Fits
    <3>5. Older(flash[t], c.cache)
      BY <1>5, <3>1, <3>3 DEF Fits, Older
    <3> QED BY <3>4, <3>5
  <2>2. Covers(flash, badmark, c)
    BY <1>5, <1>6, <2>1 DEF Covers
  <2>3. CacheReady(flash, badmark, c)
    BY <1>5, <2>1 DEF CacheReady, KnowsBad
  <2> QED BY <2>2, <2>3
<1>8. Ordered(c) /\ OldSafe(c, pc)
  BY <1>3, <1>5, <1>6 DEF Ordered, OldSafe
<1>9. Base(flash, badmark, c, pc)
  BY <1>1, <1>5, <1>7, <1>8 DEF Base, Ready
<1>10. SameCore(c, c) /\ c.top \in Blocks /\ c.backup \in Blocks /\ c.backup \in 0 .. NB
  BY <1>5, InstanceIs, BlockBounds DEF SameCore
<1>11. CASE c.backup = None
  <2>1. FineStep(flash, badmark, WriteMain(c, pc, c.top))
    BY <1>1, <1>2, <1>5, <1>6, <1>8, <1>9, <1>10, <1>11, WriteMainFine
  <2> QED BY <1>1, <1>3, <1>4, <1>11, <2>1, BecomeFine
<1>12. CASE c.backup # None
  <2> DEFINE s == Write(c, pc, "update_backup", c.backup, c.top)
  <2>1. /\ s.pc.at = "update_backup" /\ s.pc.ba = c.backup /\ s.pc.limit = c.top /\ ~s.pc.prog
        /\ SameCaller(s.pc, pc)
    BY <1>2, <1>10, SiteIn, WriteIs
  <2> HIDE DEF s
  <2>2. c.backup <= s.pc.ba
    BY <1>5, <2>1, InstanceIs
  <2>3. AtUpdateBackup(flash, badmark, c, s.pc)
    BY <1>1, <1>5, <1>6, <1>12, <2>1, <2>2 DEF AtUpdateBackup, Replaces, SameCaller
  <2>4. Site(flash, badmark, c, s.pc)
    BY <2>1, <2>3 DEF Site
  <2>5. SameCaller(pc, pc) /\ "update_backup" \in TableSites
    BY SiteIn DEF SameCaller
  <2>6. FineStep(flash, badmark, s)
    BY <1>2, <1>5, <1>8, <1>9, <1>10, <2>4, <2>5, WriteFine DEF s
  <2> QED BY <1>1, <1>3, <1>4, <1>12, <2>6, BecomeFine DEF s
<1> QED BY <1>11, <1>12

\* The pool is given up.
LEMMA NoPoolKeeps ==
  ASSUME NEW f \in [Blocks -> Contents], NEW bm, NEW n \in Instances, RestCore(f, bm, n)
  PROVE  /\ RestCore(f, bm, NoPool(n))
         /\ Synced(f, bm, n) => Synced(f, bm, NoPool(n))
         /\ \A p \in Places : OldSafe(n, p) => OldSafe(NoPool(n), p)
<1> DEFINE m == NoPool(n)
<1>1. /\ m \in Instances /\ m.st = n.st /\ m.map = n.map /\ m.wc = n.wc /\ m.sig = n.sig
      /\ m.main = n.main /\ m.backup = n.backup /\ m.mba = n.mba /\ m.protected = n.protected
      /\ m.top = n.mba
  BY NoPoolIs
<1> HIDE DEF m
<1>2. n.mba \in Nat /\ n.top \in Nat /\ n.sig \in Nat
  BY InstanceIs
<1>3. Covers(f, bm, n) /\ Ordered(n) /\ Tabs(f, bm) \subseteq {n.main, n.backup}
  BY DEF RestCore
<1>4. n.mba <= n.top /\ n.top < n.sig /\ MapFits(n.map, n.top, n.sig) /\ Signs(f, bm) = {n.sig}
  BY <1>3 DEF Ordered, Covers
<1>5. ASSUME NEW map \in Mappings, MapFits(map, n.top, n.sig) PROVE MapFits(map, m.top, m.sig)
  <2>1. \A i \in LBlocks : map[i] \in Int
    BY MapIs
  <2> QED BY <1>1, <1>2, <1>4, <1>5, <2>1 DEF MapFits
<1>6. ASSUME NEW t \in Tabs(f, bm) PROVE Fits(f, m, t)
  <2>1. Fits(f, n, t) /\ t # None /\ f[t].map \in Mappings
    BY <1>3, TabsIs DEF Covers
  <2>2. t < n.mba
    BY <1>3, <2>1 DEF Ordered
  <2>3. MapFits(f[t].map, m.top, m.sig)
    BY <1>5, <2>1 DEF Fits
  <2> QED BY <1>1, <2>1, <2>2, <2>3 DEF Fits
<1>7. Covers(f, bm, m)
  <2>1. MapFits(m.map, m.top, m.sig)
    BY <1>1, <1>4, <1>5, InstanceIs
  <2>2. m.top < m.sig
    BY <1>1, <1>2, <1>4
  <2> QED BY <1>1, <1>4, <1>6, <2>1, <2>2 DEF Covers
<1>8. Ordered(m)
  BY <1>1, <1>2, <1>3 DEF Ordered
<1>9. RestCore(f, bm, m)
  BY <1>1, <1>7, <1>8 DEF RestCore
<1>10. Synced(f, bm, n) => Synced(f, bm, m)
  BY <1>1 DEF Synced
<1>11. ASSUME NEW p \in Places, OldSafe(n, p) PROVE OldSafe(m, p)
  <2>1. p.old \in Nat
    BY PlaceIs
  <2>2. n.top < p.old => m.top < p.old
    BY <1>1, <1>2, <1>4, <2>1
  <2> QED BY <1>1, <1>11, <2>2 DEF OldSafe
<1> QED BY <1>9, <1>10, <1>11 DEF m

\* mtk_bmt_block_markbad marks a block that is no longer in use.
LEMMA OldMarked ==
  ASSUME NEW f \in [Blocks -> Contents], NEW bm, NEW n \in Instances, RestCore(f, bm, n),
         DiskOK(f, bm), NEW b \in Blocks, b < MgmtStart \/ (n.top < b /\ b < n.sig),
         NEW cm, cm = bm \/ cm = bm \union {b}
  PROVE  /\ DiskOK(f, cm) /\ RestCore(f, cm, n)
         /\ Synced(f, bm, n) => Synced(f, cm, n)
<1>1. CASE cm = bm
  BY <1>1
<1>2. CASE cm = bm \union {b}
  <2>1. Puts(f, f, b, f[b])
    BY DEF Puts
  <2>2. bm \subseteq cm /\ cm \subseteq bm \union {b} /\ b \in cm
    BY <1>2
  <2>3. Loses(f, bm, f, cm) /\ Tabs(f, cm) = Tabs(f, bm)
    BY <2>1, <2>2, DataLost
  <2>4. DiskOK(f, cm) /\ RestCore(f, cm, n)
    BY <2>3, DataChanges
  <2> QED BY <2>3, <2>4 DEF Synced
<1> QED BY <1>1, <1>2

\* nmbm_update_info_table has returned to its caller.
LEMMA InvUpdateDone ==
  ASSUME TypeInv, Inv, UpdateDone
  PROVE  Inv'
<1>1. /\ pc.at = "return" /\ pc.ret \in Updates /\ ~MustUpdate
      /\ badmark' = (IF pc.mark THEN badmark \union {pc.old} ELSE badmark)
      /\ flash' = flash
  BY DEF UpdateDone
<1>2. ni \in Instances /\ pc \in Places /\ flash \in [Blocks -> Contents]
  BY TypeGives
<1>3. /\ DiskOK(flash, badmark) /\ RestCore(flash, badmark, ni) /\ OldSafe(ni, pc)
      /\ RestAt(flash, badmark, ni, pc)
  BY <1>1, AtRest DEF Inv, RestSites
<1>4. /\ pc.ok \/ ni.protected
      /\ ~ni.protected => Synced(flash, badmark, ni)
  BY <1>1, <1>3 DEF RestAt, MustUpdate
<1>5. /\ DiskOK(flash', badmark') /\ RestCore(flash', badmark', ni)
      /\ ~ni.protected => Synced(flash', badmark', ni)
  <2>1. CASE pc.mark
    <3>1. pc.old \in Blocks
      BY <1>2, PlaceIs
    <3>2. pc.old < MgmtStart \/ (ni.top < pc.old /\ pc.old < ni.sig)
      BY <1>3, <2>1 DEF OldSafe
    <3>3. badmark' = badmark \union {pc.old}
      BY <1>1, <2>1
    <3>4. /\ DiskOK(flash, badmark') /\ RestCore(flash, badmark', ni)
          /\ Synced(flash, badmark, ni) => Synced(flash, badmark', ni)
      BY <1>2, <1>3, <3>1, <3>2, <3>3, OldMarked
    <3> QED BY <1>1, <1>4, <3>4
  <2>2. CASE ~pc.mark
    BY <1>1, <1>3, <1>4, <2>2
  <2> QED BY <2>1, <2>2
<1>6. flash' \in [Blocks -> Contents]
  BY <1>1, <1>2
<1>7. CASE pc.ret = "remap"
  <2>1. Become(Step(ni, Rest("idle")))
    BY <1>7 DEF UpdateDone
  <2> QED BY <1>5, <2>1, IdleFine, BecomeFine
<1>8. CASE pc.ret = "nospare"
  <2>1. Become(Step(NoPool(ni), Rest("idle")))
    BY <1>8 DEF UpdateDone
  <2>2. /\ RestCore(flash', badmark', NoPool(ni))
        /\ Synced(flash', badmark', ni) => Synced(flash', badmark', NoPool(ni))
        /\ NoPool(ni).protected = ni.protected
    BY <1>2, <1>5, <1>6, NoPoolKeeps, NoPoolIs
  <2>3. ~NoPool(ni).protected => Synced(flash', badmark', NoPool(ni))
    BY <1>5, <2>2
  <2> QED BY <1>5, <2>1, <2>2, <2>3, IdleFine, BecomeFine
<1>9. CASE pc.ret = "create_nospare"
  <2>1. Become(UpdateInfoTable(NoPool(ni), pc, "create"))
    BY <1>9 DEF UpdateDone
  <2>2. /\ RestCore(flash', badmark', NoPool(ni)) /\ OldSafe(NoPool(ni), pc)
        /\ Synced(flash', badmark', ni) => Synced(flash', badmark', NoPool(ni))
        /\ NoPool(ni).protected = ni.protected
    BY <1>2, <1>3, <1>5, <1>6, NoPoolKeeps, NoPoolIs
  <2>3. ~NoPool(ni).protected /\ ~NoPool(ni).dirty => Synced(flash', badmark', NoPool(ni))
    BY <1>5, <2>2
  <2>4. "create" \in Updates
    BY DEF Updates
  <2>5. FineStep(flash', badmark', UpdateInfoTable(NoPool(ni), pc, "create"))
    BY <1>2, <2>2, <2>3, <2>4, UpdateFine
  <2> QED BY <1>5, <2>1, <2>5, BecomeFine
<1>10. CASE pc.ret = "create"
  <2>1. Become(Step(ni, Rest(IF pc.ok THEN "idle" ELSE "dead")))
    BY <1>10 DEF UpdateDone
  <2>2. CASE pc.ok
    BY <1>5, <2>1, <2>2, IdleFine, BecomeFine
  <2>3. CASE ~pc.ok
    <3>1. Rest("dead").at = "dead"
      BY RestIs DEF Sites
    <3>2. FineStep(flash', badmark', Step(ni, Rest("dead")))
      BY <3>1, DeadFine, StepFine
    <3> QED BY <1>5, <2>1, <2>3, <3>2, BecomeFine
  <2> QED BY <2>2, <2>3
<1> QED BY <1>1, <1>7, <1>8, <1>9, <1>10 DEF Updates

\* The tables of a new chip are written, or cannot be.
LEMMA InvBuildDone ==
  ASSUME TypeInv, Inv, BuildDone
  PROVE  Inv'
<1>1. /\ pc.at = "return" /\ pc.ret = "build" /\ pc.ret \notin Updates
      /\ pc' = Rest(IF pc.ok THEN "create_map" ELSE "dead")
      /\ ni' = ni /\ flash' = flash /\ badmark' = badmark
  BY DEF BuildDone, Updates
<1>2. /\ DiskOK(flash, badmark) /\ RestCore(flash, badmark, ni)
      /\ pc.ok => ~ni.protected /\ Synced(flash, badmark, ni)
  BY <1>1, AtRest DEF Inv, RestSites, RestAt
<1>3. CASE pc.ok
  <2> DEFINE p == Rest("create_map")
  <2>1. p.at = "create_map" /\ ~p.mark /\ pc' = p
    BY <1>1, <1>3, RestIs DEF Sites
  <2> HIDE DEF p
  <2>2. p.at \in RestSites /\ OldSafe(ni, p) /\ RestAt(flash, badmark, ni, p)
    BY <1>2, <1>3, <2>1 DEF RestSites, OldSafe, RestAt
  <2>3. Fine(flash, badmark, ni, p)
    BY <1>2, <2>2, AtRest
  <2> QED BY <1>1, <1>2, <2>1, <2>3, InvParts
<1>4. CASE ~pc.ok
  <2>1. pc' = Rest("dead") /\ Rest("dead").at = "dead"
    BY <1>1, <1>4, RestIs DEF Sites
  <2>2. Fine(flash', badmark', ni', pc')
    BY <2>1, DeadFine
  <2> QED BY <1>1, <1>2, <2>2, InvParts
<1> QED BY <1>3, <1>4

\* One more logic block of a new chip is mapped.
LEMMA InvCreateMap ==
  ASSUME TypeInv, Inv, TakesTop, CreateMap
  PROVE  Inv'
<1> DEFINE a == MapTo(ni, ni.dcount, Spare(ni))
           m == [a EXCEPT !.dcount = @ + 1]
<1>1. pc.at = "create_map" /\ flash' = flash /\ badmark' = badmark
  BY DEF CreateMap
<1>2. ni \in Instances /\ pc \in Places /\ flash \in [Blocks -> Contents]
  BY TypeGives
<1>3. /\ DiskOK(flash, badmark) /\ RestCore(flash, badmark, ni) /\ OldSafe(ni, pc)
      /\ ~ni.protected /\ (~ni.dirty => Synced(flash, badmark, ni))
  BY <1>1, AtRest DEF Inv, RestSites, RestAt
<1>4. "create" \in Updates /\ "create_nospare" \in Updates
  BY DEF Updates
<1>5. /\ FineStep(flash, badmark, UpdateInfoTable(ni, pc, "create"))
      /\ FineStep(flash, badmark, UpdateInfoTable(ni, pc, "create_nospare"))
  BY <1>2, <1>3, <1>4, UpdateFine
<1>6. \/ Become(UpdateInfoTable(ni, pc, "create"))
      \/ Become(UpdateInfoTable(ni, pc, "create_nospare"))
      \/ Spare(ni) # None /\ ni.dcount # MgmtStart /\ Become(Step(m, pc))
  BY DEF CreateMap
<1>7. ASSUME Spare(ni) # None, ni.dcount # MgmtStart PROVE FineStep(flash, badmark, Step(m, pc))
  <2>1. ni.dcount \in LBlocks /\ ni.dcount + 1 \in 0 .. MgmtStart
    <3>1. ni.dcount \in 0 .. MgmtStart
      BY <1>2 DEF Instances
    <3> QED BY <1>7, <3>1, Sizes DEF LBlocks
  <2>2. Spare(ni) = ni.top
    BY <1>1, <1>7 DEF TakesTop
  <2>3. ni.mba < ni.top /\ ni.top \in Blocks /\ ni.top - 1 \in Blocks
    BY <1>2, <1>7, <2>2, SpareIs
  <2>4. /\ a \in Instances /\ a.map = [ni.map EXCEPT ![ni.dcount] = ni.top]
        /\ a.top = ni.top - 1 /\ a.dirty
        /\ a.st = ni.st /\ a.wc = ni.wc /\ a.sig = ni.sig /\ a.main = ni.main
        /\ a.backup = ni.backup /\ a.mba = ni.mba /\ a.protected = ni.protected
        /\ a.dcount = ni.dcount
    BY <1>2, <2>1, <2>2, <2>3, MapToIs
  <2> HIDE DEF a
  <2>5. m \in Instances
    BY <2>1, <2>4 DEF Instances
  <2>6. /\ m.map = a.map /\ m.top = a.top /\ m.dirty = a.dirty
        /\ m.st = a.st /\ m.wc = a.wc /\ m.sig = a.sig /\ m.main = a.main
        /\ m.backup = a.backup /\ m.mba = a.mba /\ m.protected = a.protected
    BY <2>4 DEF Instances
  <2> HIDE DEF m
  <2>7. RestCore(flash, badmark, m) /\ OldSafe(m, pc)
    BY <1>2, <1>3, <2>1, <2>3, <2>4, <2>5, <2>6, TakesTopKeeps
  <2>8. m.dirty /\ ~m.protected
    BY <1>3, <2>4, <2>6
  <2>9. RestAt(flash, badmark, m, pc)
    BY <1>1, <2>8 DEF RestAt
  <2>10. Fine(flash, badmark, m, pc)
    BY <1>1, <2>7, <2>9, AtRest DEF RestSites
  <2> QED BY <2>10, StepFine
<1> HIDE DEF m, a
<1> QED BY <1>1, <1>3, <1>5, <1>6, <1>7, BecomeFine

\* A block of the data is learned to be bad.
LEMMA WornOut ==
  ASSUME NEW f \in [Blocks -> Contents], NEW bm, NEW n \in Instances, RestCore(f, bm, n),
         NEW b \in Blocks, b < MgmtStart \/ (n.top < b /\ b < n.sig),
         NEW m, m = SetBad(n, {b})
  PROVE  /\ m \in Instances /\ RestCore(f, bm, m) /\ (Synced(f, bm, n) => Synced(f, bm, m))
         /\ Spare(m) = Spare(n)
<1>1. /\ m \in Instances
      /\ \A c \in Blocks : m.st[c] <=> n.st[c] /\ c \notin {b}
      /\ m.map = n.map /\ m.wc = n.wc /\ m.top = n.top /\ m.sig = n.sig
      /\ m.main = n.main /\ m.backup = n.backup
      /\ m.mba = n.mba /\ m.protected = n.protected
  BY SetBadIs
<1>2. Covers(f, bm, n) /\ Ordered(n)
  BY DEF RestCore
<1>3. ASSUME NEW t \in Tabs(f, bm) PROVE Fits(f, m, t)
  <2>1. Fits(f, n, t) /\ t # b /\ t \in Blocks
    BY <1>2, DataBlock, TabsIs DEF Covers
  <2>2. m.st[t] /\ \A c \in Blocks : m.st[c] => f[t].st[c]
    BY <1>1, <2>1 DEF Fits
  <2> QED BY <1>1, <2>1, <2>2 DEF Fits
<1>4. Covers(f, bm, m) /\ Ordered(m)
  BY <1>1, <1>2, <1>3 DEF Covers, Ordered
<1>5. RestCore(f, bm, m)
  BY <1>1, <1>4 DEF RestCore
<1>6. Synced(f, bm, n) => Synced(f, bm, m)
  BY <1>1 DEF Synced
<1>7. Good(m, m.mba + 1, m.top) = Good(n, n.mba + 1, n.top)
  <2>1. n.mba \in Nat /\ n.top \in Blocks /\ n.top \in Nat /\ b \in Nat /\ MgmtStart < n.mba
    BY <1>2, InstanceIs, Sizes DEF Ordered
  <2>2. \A c \in n.mba + 1 .. n.top : c # b /\ c \in Blocks
    BY <2>1, Sizes DEF Blocks
  <2> QED BY <1>1, <2>2 DEF Good
<1>8. Spare(m) = Spare(n)
  BY <1>1, <1>7 DEF Spare, WalkDesc
<1> QED BY <1>1, <1>5, <1>6, <1>8

\* remap_block_nmbm up to the erase of the new block.
LEMMA InvRemap ==
  ASSUME TypeInv, Inv, TakesTop, NEW lb \in LBlocks, NEW copy \in BOOLEAN, NEW mark \in BOOLEAN,
         Remap(lb, copy, mark)
  PROVE  Inv'
<1> DEFINE old == ni.map[lb]
           n == SetBad(ni, {old})
           p == [Rest("idle") EXCEPT !.lb = lb, !.old = old, !.copy = copy, !.mark = mark]
           q == [p EXCEPT !.at = "remap_erase"]
           early == n.mba = n.top
           s == IF early THEN Step(n, Rest("idle"))
                ELSE IF Spare(n) = None THEN UpdateInfoTable(n, p, "nospare")
                ELSE Step(MapTo(n, lb, Spare(n)), q)
<1>1. /\ pc.at = "idle" /\ old # Unmapped /\ Become(s)
      /\ badmark' = IF early /\ mark THEN badmark \union {old} ELSE badmark
      /\ flash' = flash
  BY DEF Remap
<1>2. ni \in Instances /\ flash \in [Blocks -> Contents]
  BY TypeGives
<1>3. /\ DiskOK(flash, badmark) /\ RestCore(flash, badmark, ni)
      /\ ~ni.protected => Synced(flash, badmark, ni)
  BY <1>1, AtRest DEF Inv, RestSites, RestAt
<1>4. /\ old \in Blocks
      /\ old < MgmtStart \/ (ni.top < old /\ old < ni.sig)
  BY <1>1, <1>2, <1>3, MappedBlock
<1>5. /\ n \in Instances /\ RestCore(flash, badmark, n) /\ Spare(n) = Spare(ni)
      /\ Synced(flash, badmark, ni) => Synced(flash, badmark, n)
  <2> HIDE DEF old
  <2> QED BY <1>2, <1>3, <1>4, WornOut
<1>6. n.protected = ni.protected /\ n.top = ni.top /\ n.sig = ni.sig
  BY <1>2, SetBadIs
<1>7. /\ p \in Places /\ p.mark = mark /\ p.old = old
      /\ q \in Places /\ q.at = "remap_erase" /\ q.mark = mark /\ q.old = old
  <2>1. Rest("idle") \in Places /\ "remap_erase" \in Sites
    BY RestIs DEF Sites
  <2> HIDE DEF old
  <2>2. p \in Places /\ p.mark = mark /\ p.old = old
    BY <1>4, <2>1 DEF Places
  <2> HIDE DEF p
  <2> QED BY <2>1, <2>2 DEF Places
<1>8. \/ s = Step(n, Rest("idle")) /\ early
      \/ ~early /\ Spare(n) = None /\ s = UpdateInfoTable(n, p, "nospare")
      \/ ~early /\ Spare(n) # None /\ s = Step(MapTo(n, lb, Spare(n)), q)
  OBVIOUS
<1> HIDE DEF old, n, p, q, s, early
<1>9. CASE s = Step(n, Rest("idle")) /\ early
  <2>1. badmark' = badmark \/ badmark' = badmark \union {old}
    BY <1>1
  <2>2. old < MgmtStart \/ (n.top < old /\ old < n.sig)
    BY <1>4, <1>6
  <2>3. /\ DiskOK(flash, badmark') /\ RestCore(flash, badmark', n)
        /\ Synced(flash, badmark, n) => Synced(flash, badmark', n)
    BY <1>2, <1>3, <1>4, <1>5, <2>1, <2>2, OldMarked
  <2>4. FineStep(flash, badmark', s)
    BY <1>3, <1>5, <1>6, <1>9, <2>3, IdleFine
  <2> QED BY <1>1, <2>3, <2>4, BecomeFine
<1>10. CASE ~early /\ Spare(n) = None /\ s = UpdateInfoTable(n, p, "nospare")
  <2>1. OldSafe(n, p)
    BY <1>4, <1>6, <1>7 DEF OldSafe
  <2>2. "nospare" \in Updates
    BY DEF Updates
  <2>3. FineStep(flash, badmark, s)
    BY <1>3, <1>5, <1>6, <1>7, <1>10, <2>1, <2>2, UpdateFine
  <2>4. badmark' = badmark
    BY <1>1, <1>10
  <2> QED BY <1>1, <1>3, <2>3, <2>4, BecomeFine
<1>11. CASE ~early /\ Spare(n) # None /\ s = Step(MapTo(n, lb, Spare(n)), q)
  <2> DEFINE m == MapTo(n, lb, Spare(n))
  <2>1. Spare(n) = n.top
    BY <1>1, <1>5, <1>6, <1>11 DEF TakesTop
  <2>2. n.mba < n.top /\ n.top \in Blocks /\ n.top - 1 \in Blocks
    BY <1>5, <1>11, <2>1, SpareIs
  <2>3. /\ m \in Instances /\ m.map = [n.map EXCEPT ![lb] = n.top]
        /\ m.top = n.top - 1 /\ m.dirty
        /\ m.st = n.st /\ m.wc = n.wc /\ m.sig = n.sig /\ m.main = n.main
        /\ m.backup = n.backup /\ m.mba = n.mba /\ m.protected = n.protected
    BY <1>5, <2>1, <2>2, MapToIs
  <2> HIDE DEF m
  <2>4. OldSafe(n, q)
    BY <1>4, <1>6, <1>7 DEF OldSafe
  <2>5. RestCore(flash, badmark, m) /\ OldSafe(m, q)
    BY <1>2, <1>5, <1>7, <2>2, <2>3, <2>4, TakesTopKeeps
  <2>6. RestAt(flash, badmark, m, q)
    BY <1>7, <2>3 DEF RestAt
  <2>7. Fine(flash, badmark, m, q)
    BY <1>7, <2>5, <2>6, AtRest DEF RestSites
  <2>8. FineStep(flash, badmark, s)
    BY <1>11, <2>7, StepFine DEF m
  <2>9. badmark' = badmark
    BY <1>1, <1>11
  <2> QED BY <1>1, <1>3, <2>8, <2>9, BecomeFine
<1> QED BY <1>8, <1>9, <1>10, <1>11

\* The driver goes on with remapping after something happened to the new block.
LEMMA RemapGoesOn ==
  ASSUME TypeInv, TypeInv', Inv, pc.at \in {"remap_erase", "remap_copy"}, badmark' = badmark,
         Loses(flash, badmark, flash', badmark), Tabs(flash', badmark) = Tabs(flash, badmark),
         \/ Become(Step(ni, [pc EXCEPT !.at = "remap_copy"]))
         \/ Become(UpdateInfoTable(ni, pc, "remap"))
  PROVE  Inv'
<1>1. /\ ni \in Instances /\ pc \in Places /\ flash \in [Blocks -> Contents]
      /\ flash' \in [Blocks -> Contents]
  BY TypeGives, TypeGivesNext
<1>2. /\ DiskOK(flash, badmark) /\ RestCore(flash, badmark, ni) /\ OldSafe(ni, pc) /\ ni.dirty
  BY AtRest DEF Inv, RestSites, RestAt
<1>3. DiskOK(flash', badmark') /\ RestCore(flash', badmark', ni)
  BY <1>1, <1>2, DataChanges
<1>4. CASE Become(Step(ni, [pc EXCEPT !.at = "remap_copy"]))
  <2> DEFINE q == [pc EXCEPT !.at = "remap_copy"]
  <2>1. q.at = "remap_copy" /\ q.mark = pc.mark /\ q.old = pc.old
    BY <1>1 DEF Places
  <2> HIDE DEF q
  <2>2. q.at \in RestSites /\ OldSafe(ni, q) /\ RestAt(flash', badmark', ni, q)
    BY <1>2, <2>1 DEF RestSites, OldSafe, RestAt
  <2>3. Fine(flash', badmark', ni, q)
    BY <1>3, <2>2, AtRest
  <2> QED BY <1>3, <1>4, <2>3, StepFine, BecomeFine DEF q
<1>5. CASE Become(UpdateInfoTable(ni, pc, "remap"))
  <2>1. "remap" \in Updates
    BY DEF Updates
  <2>2. FineStep(flash', badmark', UpdateInfoTable(ni, pc, "remap"))
    BY <1>1, <1>2, <1>3, <2>1, UpdateFine
  <2> QED BY <1>3, <1>5, <2>2, BecomeFine
<1> QED BY <1>4, <1>5

\* While a block is remapped no table is being written.
LEMMA RemapCore ==
  ASSUME TypeInv, Inv, pc.at \in {"remap_erase", "remap_copy"}
  PROVE  /\ ni \in Instances /\ pc.lb \in LBlocks /\ flash \in [Blocks -> Contents]
         /\ RestCore(flash, badmark, ni)
BY TypeGives, PlaceIs, AtRest DEF Inv, RestSites

\* The new block gets the content c.
LEMMA RemapPuts ==
  ASSUME TypeInv, Inv, pc.at \in {"remap_erase", "remap_copy"},
         NEW c, Puts(flash', flash, ni.map[pc.lb], c), c.kind # "table", c # Signature
  PROVE  Loses(flash, badmark, flash', badmark) /\ Tabs(flash', badmark) = Tabs(flash, badmark)
<1> DEFINE g == flash'
<1>1. Puts(g, flash, ni.map[pc.lb], c)
  OBVIOUS
<1> HIDE DEF g
<1>2. Loses(flash, badmark, g, badmark) /\ Tabs(g, badmark) = Tabs(flash, badmark)
  BY <1>1, RemapCore, DataWritten
<1> QED BY <1>2 DEF g

\* Erasing the new block of a remap keeps the invariant.
LEMMA InvRemapErase ==
  ASSUME TypeInv, TypeInv', Inv, RemapErase
  PROVE  Inv'
<1>1. /\ pc.at = "remap_erase" /\ badmark' = badmark
      /\ Puts(flash', flash, ni.map[pc.lb], Erased)
      /\ \/ Become(Step(ni, [pc EXCEPT !.at = "remap_copy"]))
         \/ Become(UpdateInfoTable(ni, pc, "remap"))
  BY DEF RemapErase, Puts
<1>2. Erased.kind # "table" /\ Erased # Signature
  BY DEF Erased, Signature
<1>3. Loses(flash, badmark, flash', badmark) /\ Tabs(flash', badmark) = Tabs(flash, badmark)
  BY <1>1, <1>2, RemapPuts
<1> QED BY <1>1, <1>3, RemapGoesOn

\* Copying to the new block of a remap keeps the invariant.
LEMMA InvRemapCopy ==
  ASSUME TypeInv, TypeInv', Inv, RemapCopy
  PROVE  Inv'
<1>1. /\ pc.at = "remap_copy" /\ badmark' = badmark
      /\ Become(UpdateInfoTable(ni, pc, "remap"))
      /\ flash' = [flash EXCEPT ![ni.map[pc.lb]] =
                     IF flash[pc.old].kind = "data" THEN flash[pc.old] ELSE flash[ni.map[pc.lb]]]
  BY DEF RemapCopy
<1>2. /\ ni \in Instances /\ pc.lb \in LBlocks /\ flash \in [Blocks -> Contents]
      /\ RestCore(flash, badmark, ni)
  BY <1>1, RemapCore
<1>3. CASE flash[pc.old].kind = "data"
  <2>1. flash[pc.old].kind # "table" /\ flash[pc.old] # Signature
    BY <1>3 DEF Signature
  <2>2. Puts(flash', flash, ni.map[pc.lb], flash[pc.old])
    BY <1>1, <1>3 DEF Puts
  <2>3. Loses(flash, badmark, flash', badmark) /\ Tabs(flash', badmark) = Tabs(flash, badmark)
    BY <1>1, <2>1, <2>2, RemapPuts
  <2> QED BY <1>1, <2>3, RemapGoesOn
<1>4. CASE flash[pc.old].kind # "data"
  <2>1. flash' = flash
    BY <1>1, <1>2, <1>4
  <2>2. Loses(flash, badmark, flash', badmark) /\ Tabs(flash', badmark) = Tabs(flash, badmark)
    BY <2>1 DEF Loses
  <2> QED BY <1>1, <2>2, RemapGoesOn
<1> QED BY <1>3, <1>4

\* A remap whose new block fails keeps the invariant.
LEMMA InvRemapFails ==
  ASSUME TypeInv, TypeInv', Inv, RemapFails
  PROVE  Inv'
<1>1. /\ pc.at \in {"remap_erase", "remap_copy"} /\ badmark' = badmark
      /\ Puts(flash', flash, ni.map[pc.lb], Junk)
      /\ \/ Become(Step(ni, [pc EXCEPT !.at = "remap_copy"]))
         \/ Become(UpdateInfoTable(ni, pc, "remap"))
  BY DEF RemapFails, Puts
<1>2. Junk.kind # "table" /\ Junk # Signature
  BY DEF Junk, Signature
<1>3. Loses(flash, badmark, flash', badmark) /\ Tabs(flash', badmark) = Tabs(flash, badmark)
  BY <1>1, <1>2, RemapPuts
<1> QED BY <1>1, <1>3, RemapGoesOn

\* A write of the user keeps the invariant.
LEMMA InvUserWrite ==
  ASSUME TypeInv, TypeInv', Inv, NEW lb \in LBlocks, UserWrite(lb)
  PROVE  Inv'
<1>1. /\ pc.at = "idle" /\ badmark' = badmark /\ ni' = ni /\ pc' = pc
      /\ Puts(flash', flash, ni.map[lb], Data(lb, want[lb] + 1))
  BY DEF UserWrite, Puts
<1>2. /\ ni \in Instances /\ flash \in [Blocks -> Contents] /\ flash' \in [Blocks -> Contents]
  BY TypeGives, TypeGivesNext
<1>3. /\ DiskOK(flash, badmark) /\ RestCore(flash, badmark, ni) /\ OldSafe(ni, pc)
      /\ RestAt(flash, badmark, ni, pc)
  BY <1>1, AtRest DEF Inv, RestSites
<1>4. Data(lb, want[lb] + 1).kind # "table" /\ Data(lb, want[lb] + 1) # Signature
  <2>1. Data(lb, want[lb] + 1).kind = "data" /\ Signature.kind = "signature"
    BY DEF Data, Signature
  <2> QED BY <2>1
<1>5. Loses(flash, badmark, flash', badmark) /\ Tabs(flash', badmark) = Tabs(flash, badmark)
  BY <1>1, <1>2, <1>3, <1>4, DataWritten
<1>6. DiskOK(flash', badmark) /\ RestCore(flash', badmark, ni) /\ RestAt(flash', badmark, ni, pc)
  BY <1>2, <1>3, <1>5, DataChanges
<1>7. Fine(flash', badmark', ni', pc')
  BY <1>1, <1>3, <1>6, AtRest DEF RestSites
<1> QED BY <1>1, <1>6, <1>7, InvParts

\* Write protection only asks less of the tables.
LEMMA ProtectedKeeps ==
  ASSUME NEW f, NEW bm, NEW n, NEW m, RestCore(f, bm, n),
         m.st = n.st, m.map = n.map, m.wc = n.wc, m.top = n.top, m.sig = n.sig,
         m.main = n.main, m.backup = n.backup, m.mba = n.mba, n.protected => m.protected
  PROVE  RestCore(f, bm, m) /\ (Synced(f, bm, n) => Synced(f, bm, m))
<1>1. Covers(f, bm, m)
  BY DEF RestCore, Covers, Fits
<1>2. Ordered(m)
  BY DEF RestCore, Ordered
<1> QED BY <1>1, <1>2 DEF RestCore, Synced

\* The end of loading the tables keeps the invariant.
LEMMA InvLoadDone ==
  ASSUME TypeInv, Inv, LoadDone
  PROVE  Inv'
<1> DEFINE m == [ni EXCEPT !.protected = @ \/ ni.mba = ni.top \/ ~pc.ok]
<1>1. /\ pc.at = "return" /\ pc.ret = "load" /\ pc.ret \notin Updates
      /\ Become(Step(m, Rest("idle"))) /\ flash' = flash /\ badmark' = badmark
  BY DEF LoadDone, Updates
<1>2. ni \in Instances
  BY TypeGives
<1>3. /\ DiskOK(flash, badmark) /\ RestCore(flash, badmark, ni)
      /\ pc.ok => Synced(flash, badmark, ni)
  BY <1>1, AtRest DEF Inv, RestSites, RestAt
<1>4. /\ m.st = ni.st /\ m.map = ni.map /\ m.wc = ni.wc /\ m.top = ni.top /\ m.sig = ni.sig
      /\ m.main = ni.main /\ m.backup = ni.backup /\ m.mba = ni.mba
      /\ ni.protected => m.protected
      /\ ~m.protected => pc.ok
  BY <1>2 DEF Instances
<1> HIDE DEF m
<1>5. /\ RestCore(flash, badmark, m)
      /\ Synced(flash, badmark, ni) => Synced(flash, badmark, m)
  BY <1>3, <1>4, ProtectedKeeps
<1>6. FineStep(flash, badmark, Step(m, Rest("idle")))
  BY <1>3, <1>4, <1>5, IdleFine
<1> QED BY <1>1, <1>3, <1>6, BecomeFine

-----------------------------------------------------------------------------
(* Attach. *)

LEMMA OlderSelf ==
  ASSUME NEW s \in Tables
  PROVE  Older(s, s)
<1>1. s.wc \in Nat /\ s.map \in Mappings
  BY DEF Tables
<1>2. \A i \in LBlocks : s.map[i] \in Int
  BY <1>1, MapIs
<1>3. Low(s.map, s.map)
  BY <1>2, Sizes DEF Low
<1> QED BY <1>1, <1>3 DEF Older

\* The signature nmbm_find_signature finds is the only one.
LEMMA SignFound ==
  ASSUME TypeInv, DiskOK(flash, badmark)
  PROVE  SignatureBlock = Signs(flash, badmark)
<1>1. \A b \in Blocks : IsSignature(b) <=> b \in Signs(flash, badmark)
  BY DEF IsSignature, Signs
<1>2. \A s, t \in Signs(flash, badmark) : s = t
  BY DEF DiskOK
<1>3. \A s \in Blocks : \A b \in s + 1 .. NB - 1 : b \in Blocks /\ b # s
  BY Sizes DEF Blocks
<1>4. \A s \in Signs(flash, badmark) : s \in Blocks
  BY DEF Signs
<1>5. ASSUME NEW s \in Signs(flash, badmark), NEW b \in s + 1 .. NB - 1 PROVE ~IsSignature(b)
  <2>1. b \in Blocks /\ b # s
    BY <1>3, <1>4
  <2> QED BY <1>1, <1>2, <2>1
<1>6. Signs(flash, badmark) \subseteq SignatureBlock
  BY <1>1, <1>4, <1>5 DEF SignatureBlock
<1>7. SignatureBlock \subseteq Signs(flash, badmark)
  BY <1>1 DEF SignatureBlock
<1> QED BY <1>6, <1>7

\* nmbm_try_load_info_table accepts every table on the flash.
LEMMA TableAccepted ==
  ASSUME TypeInv, DiskOK(flash, badmark), NEW b \in Area
  PROVE  IsTable(b) <=> b \in Tabs(flash, badmark)
<1>1. IsTable(b) => b \in Tabs(flash, badmark)
  BY DEF IsTable, Tabs
<1>2. ASSUME b \in Tabs(flash, badmark) PROVE IsTable(b)
  <2>1. PICK sig \in Blocks : Signs(flash, badmark) = {sig} /\ TablesFit(flash, badmark, sig)
    BY <1>2 DEF DiskOK
  <2>2. sig \in SignatureBlock
    BY <2>1, SignFound
  <2>3. b + 1 < sig /\ flash[b].st[b] /\ MapFits(flash[b].map, b + 1, sig)
    BY <1>2, <2>1 DEF TablesFit
  <2>4. /\ b \in Nat /\ b >= MgmtStart /\ sig \in Nat /\ flash[b].map \in Mappings
        /\ b \notin badmark /\ flash[b].kind = "table"
    BY <1>2, TypeGives, TabsIs, Sizes DEF Tabs
  <2>5. ASSUME NEW lb \in LBlocks
        PROVE  flash[b].map[lb] \notin MgmtStart .. b /\ flash[b].map[lb] # sig
    <3>1. flash[b].map[lb] \in Int
      BY <2>4, MapIs
    <3>2. flash[b].map[lb] >= MgmtStart => b + 1 < flash[b].map[lb] /\ flash[b].map[lb] < sig
      BY <2>3 DEF MapFits
    <3> QED BY <2>3, <2>4, <3>1, <3>2, Sizes
  <2>6. CheckTable(b, sig)
    BY <2>3, <2>5 DEF CheckTable
  <2>7. b < sig - 1
    BY <2>3, <2>4
  <2> QED BY <2>2, <2>4, <2>6, <2>7 DEF IsTable
<1> QED BY <1>1, <1>2

\* nmbm_search_info_table finds no table only if there is none.
LEMMA NoneFound ==
  ASSUME TypeInv, DiskOK(flash, badmark), FirstTable = {}
  PROVE  Tabs(flash, badmark) = {}
<1> SUFFICES ASSUME Tabs(flash, badmark) # {} PROVE FALSE
  OBVIOUS
<1> DEFINE m == Min(Tabs(flash, badmark))
<1>1. Tabs(flash, badmark) \subseteq Nat
  BY Sizes DEF Tabs
<1>2. m \in Tabs(flash, badmark) /\ \A t \in Tabs(flash, badmark) : m <= t
  BY <1>1, MinFound
<1> HIDE DEF m
<1>3. m \in Area /\ m \in Nat
  BY <1>1, <1>2 DEF Tabs
<1>4. ASSUME NEW b \in MgmtStart .. m - 1 PROVE ~IsTable(b)
  <2>1. b \in Area /\ b \in Nat /\ b < m
    BY <1>3, Sizes DEF Area
  <2>2. b \notin Tabs(flash, badmark)
    BY <1>2, <1>3, <2>1
  <2> QED BY <2>1, <2>2, TableAccepted
<1>5. m \in FirstTable
  BY <1>2, <1>3, <1>4, TableAccepted DEF FirstTable, Area
<1> QED BY <1>5

\* What the two searches find.
Searched(sig, m) ==
  LET bk == LoadBackup(m)
      nb == LoadNewest(m)
  IN  /\ Signs(flash, badmark) = {sig} /\ TablesFit(flash, badmark, sig)
      /\ m \in Tabs(flash, badmark) /\ nb \in Tabs(flash, badmark)
      /\ bk = None => Tabs(flash, badmark) = {m} /\ nb = m
      /\ bk # None => /\ Tabs(flash, badmark) = {m, bk} /\ m < bk
                      /\ nb = IF flash[bk].wc > flash[m].wc THEN bk ELSE m
      /\ \A t \in Tabs(flash, badmark) : Older(flash[t], flash[nb])

\* The search of nmbm_load_existing finds the tables there are.
LEMMA SearchFinds ==
  ASSUME TypeInv, DiskOK(flash, badmark), NEW sig \in SignatureBlock, NEW m \in FirstTable
  PROVE  Searched(sig, m)
<1> DEFINE T == Tabs(flash, badmark)
<1>1. flash \in [Blocks -> Contents]
  BY TypeGives
<1>2. Signs(flash, badmark) = {sig} /\ TablesFit(flash, badmark, sig)
  BY SignFound DEF DiskOK
<1>3. m \in Area /\ m \in T
  BY SearchIs, TableAccepted
<1>4. \A t \in T : t \in Area /\ t \in Nat
  BY <1>1, TabsIs
<1>5. ASSUME NEW t \in T PROVE m <= t
  <2> SUFFICES ASSUME t < m PROVE FALSE
    BY <1>3, <1>4
  <2>1. t \in MgmtStart .. m - 1
    BY <1>3, <1>4, Sizes DEF Area
  <2>2. IsTable(t)
    BY <1>4, TableAccepted
  <2> QED BY <2>1, <2>2 DEF FirstTable
<1>6. \A s, t \in T : flash[s].st[t] /\ (Older(flash[s], flash[t]) \/ Older(flash[t], flash[s]))
  BY <1>2 DEF TablesFit
<1>7. \E x, y \in Area : T \subseteq {x, y}
  BY <1>3 DEF DiskOK
<1>8. SecondTable(m) = T \ {m}
  <2> DEFINE after(lo, hi) == {b \in lo .. hi : flash[m].st[b] /\ IsTable(b)}
  <2>1. SecondTable(m) = {b \in after(m + 1, NB - 1) : after(m + 1, b - 1) = {}}
    BY DEF SecondTable
  <2>2. ASSUME NEW b \in SecondTable(m) PROVE b \in T \ {m}
    <3>1. b \in Area /\ IsTable(b) /\ m < b
      BY SearchIs
    <3>2. b \in T
      BY <3>1, TableAccepted
    <3>3. b # m
      BY <1>3, <1>4, <3>1
    <3> QED BY <3>2, <3>3
  <2>3. ASSUME NEW b \in T \ {m} PROVE b \in SecondTable(m)
    <3>1. m < b /\ b \in m + 1 .. NB - 1
      BY <1>3, <1>4, <1>5, Sizes DEF Area
    <3>2. b \in after(m + 1, NB - 1)
      BY <1>3, <1>4, <1>6, <3>1, TableAccepted
    <3>3. ASSUME NEW c \in after(m + 1, b - 1) PROVE FALSE
      <4>1. c \in m + 1 .. b - 1 /\ IsTable(c)
        OBVIOUS
      <4>2. c \in Area /\ c # m /\ c # b
        BY <1>3, <1>4, <3>1, <4>1, Sizes DEF Area
      <4>3. c \in T
        BY <4>1, <4>2, TableAccepted
      <4> QED BY <1>3, <1>7, <4>2, <4>3
    <3> QED BY <2>1, <3>2, <3>3
  <2> QED BY <2>2, <2>3
<1>9. LoadBackup(m) = None => T = {m}
  <2>1. ASSUME SecondTable(m) # {} PROVE LoadBackup(m) # None
    <3>1. LoadBackup(m) \in SecondTable(m)
      <4>1. SecondTable(m) \in SUBSET Nat
        BY <1>4, <1>8
      <4> QED BY <2>1, <4>1, MinFound DEF LoadBackup
    <3> QED BY <1>1, <1>8, <3>1, TabsIs
  <2> QED BY <1>3, <1>8, <2>1
<1>10. ASSUME LoadBackup(m) # None
       PROVE  /\ T = {m, LoadBackup(m)} /\ m < LoadBackup(m) /\ LoadBackup(m) \in T
              /\ SecondTable(m) = {LoadBackup(m)}
  <2>1. LoadBackup(m) \in SecondTable(m)
    BY <1>10, LoadBlocks
  <2>2. LoadBackup(m) \in T /\ LoadBackup(m) # m
    BY <1>8, <2>1
  <2>3. T = {m, LoadBackup(m)}
    BY <1>3, <1>7, <2>2
  <2>4. m < LoadBackup(m)
    BY <1>3, <1>4, <1>5, <2>2
  <2> QED BY <1>8, <2>2, <2>3, <2>4
<1>11. LoadNewest(m) \in NewestTable(m)
  BY LoadBlocks
<1>12. LoadBackup(m) = None => LoadNewest(m) = m
  BY <1>8, <1>9, <1>11 DEF NewestTable
<1>13. LoadBackup(m) # None =>
         LoadNewest(m) = IF flash[LoadBackup(m)].wc > flash[m].wc THEN LoadBackup(m) ELSE m
  BY <1>10, <1>11 DEF NewestTable
<1>14. LoadNewest(m) \in T
  BY <1>3, <1>10, <1>12, <1>13
<1>15. ASSUME NEW t \in T PROVE Older(flash[t], flash[LoadNewest(m)])
  <2>1. \A s \in T : flash[s] \in Tables /\ flash[s].wc \in Nat /\ Older(flash[s], flash[s])
    BY <1>1, TabsIs, OlderSelf
  <2>2. CASE t = LoadNewest(m)
    BY <2>1, <2>2
  <2>3. CASE t # LoadNewest(m)
    <3>1. LoadBackup(m) # None
      BY <1>9, <1>12, <2>3
    <3>2. flash[t].wc <= flash[LoadNewest(m)].wc
      BY <1>3, <1>10, <1>13, <2>1, <2>3, <3>1
    <3>3. CASE Older(flash[t], flash[LoadNewest(m)])
      BY <3>3
    <3>4. CASE Older(flash[LoadNewest(m)], flash[t])
      <4>1. flash[LoadNewest(m)].wc <= flash[t].wc
        BY <3>4 DEF Older
      <4>2. flash[LoadNewest(m)].wc = flash[t].wc
        BY <1>14, <2>1, <3>2, <4>1
      <4>3. flash[LoadNewest(m)] = flash[t]
        BY <3>4, <4>2 DEF Older
      <4> QED BY <2>1, <4>3
    <3> QED BY <1>6, <1>14, <3>3, <3>4
  <2> QED BY <2>2, <2>3
<1> QED BY <1>2, <1>3, <1>9, <1>10, <1>12, <1>13, <1>14, <1>15 DEF Searched

\* mapping_blocks_top_ba is between the tables and the mapped blocks.
LEMMA LoadedTop ==
  ASSUME TypeInv, NEW sig \in SignatureBlock, NEW m \in FirstTable, NEW ecc, NEW n,
         Searched(sig, m), Loaded(n, ecc, sig, m)
  PROVE  /\ n.top < sig /\ \A t \in Tabs(flash, badmark) : t < n.top
         /\ \A i \in LBlocks : n.map[i] >= MgmtStart => n.top < n.map[i] /\ n.map[i] < sig
<1> DEFINE nb == LoadNewest(m)
           S == LoadAbove(sig, m) \union {sig}
<1>1. /\ n \in Instances /\ n.top = TopBelow(S) /\ n.map = flash[nb].map
      /\ nb \in Tabs(flash, badmark) /\ TablesFit(flash, badmark, sig)
  BY DEF Loaded, Searched
<1>2. /\ flash \in [Blocks -> Contents] /\ sig \in Nat
  BY TypeGives, LoadBlocks, Sizes
<1>3. \A t \in Tabs(flash, badmark) : t \in Nat /\ t >= MgmtStart
  BY <1>2, TabsIs
<1>4. LoadAbove(sig, m) = {flash[nb].map[lb] : lb \in LoadUsed(m)} \intersect (nb .. sig)
  BY DEF LoadAbove
<1>5. LoadUsed(m) = {lb \in LBlocks : flash[nb].map[lb] # Unmapped}
  BY DEF LoadUsed
<1> HIDE DEF nb
<1>6. S \in SUBSET Nat /\ S # {} /\ sig \in S
  BY <1>1, <1>2, <1>3, <1>4
<1>7. Min(S) \in S /\ \A y \in S : Min(S) <= y
  BY <1>6, MinFound
<1>8. n.top = Min(S) - 1 /\ Min(S) \in Nat
  BY <1>1, <1>6, <1>7 DEF TopBelow
<1>9. n.top < sig
  BY <1>2, <1>6, <1>7, <1>8
<1>10. ASSUME NEW t \in Tabs(flash, badmark) PROVE t < n.top
  <2>1. /\ t + 1 < sig
        /\ \A i \in LBlocks : flash[nb].map[i] >= MgmtStart => t + 1 < flash[nb].map[i]
    BY <1>1 DEF TablesFit, MapFits
  <2>2. ASSUME NEW y \in S PROVE t + 1 < y
    <3>1. CASE y = sig
      BY <2>1, <3>1
    <3>2. CASE y \in LoadAbove(sig, m)
      <4>1. PICK lb \in LBlocks : y = flash[nb].map[lb]
        BY <1>4, <1>5, <3>2
      <4>2. y >= MgmtStart
        BY <1>1, <1>3, <1>4, <3>2, Sizes
      <4> QED BY <2>1, <4>1, <4>2
    <3> QED BY <3>1, <3>2
  <2> QED BY <1>3, <1>7, <1>8, <2>2
<1>11. ASSUME NEW i \in LBlocks, n.map[i] >= MgmtStart PROVE n.top < n.map[i] /\ n.map[i] < sig
  <2>1. flash[nb].map[i] \in Int /\ nb \in Nat
    BY <1>1, <1>3, MapIs, InstanceIs
  <2>2. nb + 1 < flash[nb].map[i] /\ flash[nb].map[i] < sig
    BY <1>1, <1>11 DEF TablesFit, MapFits
  <2>3. flash[nb].map[i] # Unmapped
    BY <1>1, <1>11, Sizes
  <2>4. flash[nb].map[i] \in S
    BY <1>2, <1>4, <1>5, <2>1, <2>2, <2>3
  <2>5. n.map[i] = flash[nb].map[i]
    BY <1>1
  <2>6. Min(S) <= flash[nb].map[i]
    BY <1>7, <2>4
  <2>7. n.top < flash[nb].map[i]
    BY <1>8, <2>1, <2>6
  <2> QED BY <2>2, <2>5, <2>7
<1> QED BY <1>9, <1>10, <1>11

\* A table is given by its write count, its mapping and its block states.
LEMMA TableFields ==
  ASSUME NEW s \in Tables, NEW wc, NEW map, NEW st \in GoodBlocks,
         s.wc = wc, s.map = map, \A b \in Blocks : s.st[b] <=> st[b]
  PROVE  s = Table(wc, map, st)
<1>1. s.st \in GoodBlocks /\ s.kind = "table"
  BY DEF Tables
<1>2. \A b \in Blocks : s.st[b] = st[b]
  BY <1>1 DEF GoodBlocks
<1>3. s.st = st
  BY <1>1, <1>2 DEF GoodBlocks
<1>4. s = [kind |-> s.kind, wc |-> s.wc, map |-> s.map, st |-> s.st]
  BY DEF Tables
<1> QED BY <1>1, <1>3, <1>4 DEF Table

\* The parts of a table.
LEMMA TableParts ==
  ASSUME NEW wc, NEW map, NEW st
  PROVE  Table(wc, map, st).wc = wc /\ Table(wc, map, st).map = map /\ Table(wc, map, st).st = st
BY DEF Table

\* The instance nmbm_load_info_table puts together covers both tables.
LEMMA LoadedFits ==
  ASSUME TypeInv, NEW sig \in SignatureBlock, NEW m \in FirstTable, NEW ecc \in EccErrors, NEW n,
         Searched(sig, m), Loaded(n, ecc, sig, m)
  PROVE  /\ Covers(flash, badmark, n) /\ Ordered(n) /\ CacheReady(flash, badmark, n)
<1> DEFINE nb == LoadNewest(m)
           seen == LoadSeen(ecc, sig, m)
<1>1. flash \in [Blocks -> Contents] /\ n \in Instances
  BY TypeGives DEF Loaded
<1>2. /\ n.sig = sig /\ n.main = m /\ n.backup = LoadBackup(m) /\ n.map = flash[nb].map
      /\ n.mba = IF LoadBackup(m) = None THEN m + 1 ELSE LoadBackup(m) + 1
      /\ \A b \in Blocks : n.st[b] <=> flash[nb].st[b] /\ (nb = LoadBackup(m) \/ b \notin seen)
      /\ n.wc = IF n.dirty THEN flash[nb].wc + 1 ELSE flash[nb].wc
      /\ seen # {} => n.dirty
      /\ n.cache = Table(n.wc, n.map, n.st)
  BY DEF Loaded
<1>3. /\ Signs(flash, badmark) = {sig} /\ TablesFit(flash, badmark, sig)
      /\ m \in Tabs(flash, badmark) /\ nb \in Tabs(flash, badmark)
      /\ LoadBackup(m) # None => LoadBackup(m) \in Tabs(flash, badmark) /\ m < LoadBackup(m)
      /\ \A t \in Tabs(flash, badmark) : Older(flash[t], flash[nb])
  BY DEF Searched
<1>4. /\ n.top < sig /\ \A t \in Tabs(flash, badmark) : t < n.top
      /\ \A i \in LBlocks : n.map[i] >= MgmtStart => n.top < n.map[i] /\ n.map[i] < sig
  BY LoadedTop
<1>5. \A t \in Tabs(flash, badmark) : /\ t \in Nat /\ t \in Blocks /\ t >= MgmtStart
                                      /\ flash[t] \in Tables /\ flash[t].wc \in Nat
                                      /\ flash[t].map \in Mappings
  BY <1>1, TabsIs
<1>6. ASSUME NEW t \in Tabs(flash, badmark) PROVE t \notin seen
  <2>1. t \notin badmark /\ flash[t].kind = "table"
    BY DEF Tabs
  <2>2. t \notin ecc
    <3>1. Junk.kind = "junk"
      BY DEF Junk
    <3>2. \A b \in ecc : flash[b] = Junk
      BY DEF EccErrors
    <3> QED BY <2>1, <3>1, <3>2
  <2> QED BY <2>1, <2>2 DEF LoadSeen
<1> HIDE DEF nb, seen
<1>7. ASSUME NEW i \in LBlocks, NEW j \in LBlocks, n.map[i] # Unmapped, n.map[i] = n.map[j]
      PROVE  i = j
  BY <1>2, <1>3, <1>7 DEF TablesFit, MapFits
<1>8. n.top \in Nat /\ n.wc \in Nat /\ sig \in Nat /\ n.main \in Nat /\ n.backup \in Nat /\ n.mba \in Nat
  BY <1>1, <1>2, InstanceIs
<1>9. ASSUME NEW t \in Tabs(flash, badmark)
      PROVE  Fits(flash, n, t) /\ Older(flash[t], n.cache)
  <2>1. Older(flash[t], flash[nb]) /\ flash[t].wc \in Nat /\ flash[nb].wc \in Nat
    BY <1>3, <1>5
  <2>2. /\ flash[t].wc <= flash[nb].wc /\ flash[nb].wc <= n.wc /\ flash[t].wc <= n.wc
    BY <1>2, <2>1 DEF Older
  <2>3. n.st[t]
    BY <1>2, <1>3, <1>5, <1>6 DEF TablesFit
  <2>4. \A b \in Blocks : n.st[b] => flash[t].st[b]
    BY <1>2, <2>1 DEF Older
  <2>5. Low(flash[t].map, n.map)
    BY <1>2, <2>1 DEF Older
  <2>6. MapFits(flash[t].map, n.top, n.sig)
    <3>1. \A i, j \in LBlocks : flash[t].map[i] # Unmapped /\ flash[t].map[i] = flash[t].map[j] => i = j
      BY <1>3 DEF TablesFit, MapFits
    <3>2. ASSUME NEW i \in LBlocks, flash[t].map[i] >= MgmtStart
          PROVE  n.top < flash[t].map[i] /\ flash[t].map[i] < n.sig
      <4>1. flash[t].map[i] < sig
        BY <1>3, <3>2 DEF TablesFit, MapFits
      <4>2. PICK k \in LBlocks : MgmtStart <= n.map[k] /\ n.map[k] <= flash[t].map[i]
        BY <2>5, <3>2 DEF Low
      <4>3. n.map[k] \in Int /\ flash[t].map[i] \in Int
        BY <1>1, <1>5, MapIs, InstanceIs
      <4>4. n.top < n.map[k]
        BY <1>4, <4>2, <4>3, Sizes
      <4> QED BY <1>2, <1>8, <4>1, <4>2, <4>3, <4>4
    <3> QED BY <3>1, <3>2 DEF MapFits
  <2>7. Fits(flash, n, t)
    BY <1>4, <2>2, <2>3, <2>4, <2>5, <2>6 DEF Fits
  <2>8. n.cache.wc = n.wc /\ n.cache.map = n.map /\ n.cache.st = n.st
    BY <1>2, TableParts
  <2>9. ASSUME flash[t].wc = n.wc PROVE flash[t] = n.cache
    <3>1. ~n.dirty /\ flash[t].wc = flash[nb].wc
      BY <1>2, <2>1, <2>2, <2>9
    <3>2. flash[t] = flash[nb]
      BY <2>1, <3>1 DEF Older
    <3>3. seen = {}
      BY <1>2, <3>1
    <3>4. \A b \in Blocks : flash[nb].st[b] <=> n.st[b]
      BY <1>2, <3>3
    <3>5. n.st \in GoodBlocks /\ flash[nb] \in Tables
      BY <1>1, <1>3, <1>5 DEF Instances
    <3>6. flash[nb].wc = n.wc /\ flash[nb].map = n.map
      BY <1>2, <2>9, <3>1
    <3>7. flash[nb] = Table(n.wc, n.map, n.st)
      BY <3>4, <3>5, <3>6, TableFields
    <3> QED BY <1>2, <3>2, <3>7
  <2>10. Older(flash[t], n.cache)
    BY <2>2, <2>4, <2>5, <2>8, <2>9 DEF Older
  <2> QED BY <2>7, <2>10
<1>10. Covers(flash, badmark, n)
  <2>1. MapFits(n.map, n.top, n.sig)
    BY <1>2, <1>4, <1>7 DEF MapFits
  <2> QED BY <1>2, <1>3, <1>4, <1>9, <2>1 DEF Covers
<1>11. Ordered(n)
  <2>1. m \in Nat /\ MgmtStart <= m /\ m < n.top
    BY <1>3, <1>4, <1>5
  <2>2. LoadBackup(m) # None => LoadBackup(m) < n.top /\ m < LoadBackup(m)
    BY <1>3, <1>4
  <2>3. m # None
    BY <2>1, Sizes
  <2> QED BY <1>2, <1>8, <2>1, <2>2, <2>3, Sizes DEF Ordered
<1>12. CacheReady(flash, badmark, n)
  <2>1. n.cache.wc = n.wc /\ n.cache.map = n.map /\ n.cache.st = n.st
    BY <1>2, TableParts
  <2> QED BY <1>9, <2>1 DEF CacheReady, KnowsBad
<1> QED BY <1>10, <1>11, <1>12

\* nmbm_load_info_table goes on with a rescue, an update of the older table, or
\* nothing at all.
LEMMA LoadFine ==
  ASSUME TypeInv, NEW sig \in SignatureBlock, NEW m \in FirstTable, NEW ecc \in EccErrors, NEW n,
         Searched(sig, m), Loaded(n, ecc, sig, m), LoadGoesOn(n, ecc, sig, m)
  PROVE  FineStep(flash, badmark, LoadInfoTable(ecc, sig, m))
<1> DEFINE p == Rest("return")
           bk == LoadBackup(m)
           nb == LoadNewest(m)
           T == Tabs(flash, badmark)
<1>1. /\ p \in Places /\ ~p.prog /\ p.ok /\ ~p.mark /\ p.ret = "load" /\ p.ret \notin Updates
  BY RestIs DEF Sites, Updates
<1> HIDE DEF p
<1>2. flash \in [Blocks -> Contents] /\ n \in Instances
  BY TypeGives DEF Loaded
<1>3. Covers(flash, badmark, n) /\ Ordered(n) /\ CacheReady(flash, badmark, n)
  BY LoadedFits
<1>4. /\ n.main = m /\ n.backup = bk /\ n.map = flash[nb].map /\ ~n.protected
      /\ \A b \in Blocks : n.st[b] <=> flash[nb].st[b] /\ (nb = bk \/ b \notin LoadSeen(ecc, sig, m))
  BY DEF Loaded
<1>5. /\ m \in T /\ nb \in T /\ TablesFit(flash, badmark, sig)
      /\ bk = None => T = {m} /\ nb = m
      /\ bk # None => T = {m, bk} /\ m < bk /\ nb = IF flash[bk].wc > flash[m].wc THEN bk ELSE m
      /\ \A t \in T : Older(flash[t], flash[nb])
  BY DEF Searched
<1>6. Base(flash, badmark, n, p)
  BY <1>1, <1>3, <1>4 DEF Base, Ready, OldSafe
<1>7. LoadInfoTable(ecc, sig, m) =
        IF bk = None THEN RescueSingle(n, p)
        ELSE IF flash[m].wc = flash[bk].wc THEN Return(n, p, TRUE)
        ELSE UpdateSingle([n EXCEPT !.dirty = TRUE], p, nb = bk)
  BY DEF LoadGoesOn, p
<1>8. /\ m \in Blocks /\ m \in Nat /\ m # None /\ m \in 0 .. NB /\ MgmtStart \in 0 .. NB
      /\ n.top \in Blocks /\ bk \in Blocks /\ bk \in 0 .. NB
      /\ \A t \in T : t \in Nat /\ t \in Blocks /\ flash[t].wc \in Nat
  <2>1. m \in Blocks /\ m \in Nat /\ m # None
    BY <1>2, <1>5, TabsIs
  <2>2. n.top \in Blocks /\ bk \in Blocks
    BY <1>2, <1>4, InstanceIs
  <2> QED BY <1>2, <2>1, <2>2, TabsIs, BlockBounds, Sizes
<1>9. SameCaller(p, p) /\ SameCore(n, n)
  BY DEF SameCaller, SameCore
<1> HIDE DEF bk, nb, T
<1>10. CASE bk = None
  <2> DEFINE s == Write(n, p, "rescue_front", MgmtStart, n.main)
  <2>1. /\ s.pc.at = "rescue_front" /\ s.pc.ba = MgmtStart /\ s.pc.limit = m /\ ~s.pc.prog
        /\ SameCaller(s.pc, p)
    BY <1>1, <1>4, <1>8, SiteIn, WriteIs
  <2> HIDE DEF s
  <2>2. T = {m} /\ nb = m /\ n.backup = None
    BY <1>4, <1>5, <1>10
  <2>3. Synced(flash, badmark, n)
    BY <1>4, <2>2 DEF Synced, T
  <2>4. UsedUp(badmark, n, MgmtStart) /\ MgmtStart <= MgmtStart
    BY Sizes DEF UsedUp
  <2>5. \A c \in MgmtStart .. m - 1 : flash[m].st[c] /\ ~n.st[c] => c \in badmark
    <3>1. ASSUME NEW c \in MgmtStart .. m - 1 PROVE c \in Blocks /\ c \notin LoadSeen(ecc, sig, m)
      <4>1. c \in Nat /\ c < m
        BY <1>8, Sizes
      <4>2. c \in Blocks
        BY <1>8, <4>1, BlockBounds
      <4>3. c \notin m + 1 .. (IF LoadBackup(m) = None THEN sig - 2 ELSE LoadBackup(m))
        BY <1>8, <4>1
      <4> QED BY <4>2, <4>3 DEF LoadSeen
    <3> QED BY <1>4, <2>2, <3>1
  <2>6. AtRescueFront(flash, badmark, n, s.pc)
    BY <1>1, <1>4, <2>1, <2>2, <2>3, <2>4, <2>5 DEF AtRescueFront, SameCaller, T
  <2>7. Site(flash, badmark, n, s.pc)
    BY <2>1, <2>6 DEF Site
  <2>8. FineStep(flash, badmark, s)
    BY <1>1, <1>2, <1>3, <1>4, <1>6, <1>8, <1>9, <2>7, SiteIn, WriteFine DEF s
  <2> QED BY <1>7, <1>10, <2>8 DEF RescueSingle, s
<1>11. ASSUME bk # None
       PROVE  /\ T = {m, bk} /\ m < bk /\ bk \in T /\ Tight(flash, badmark, m)
              /\ Older(flash[bk], flash[m]) \/ Older(flash[m], flash[bk])
  <2>1. T = {m, bk} /\ m < bk /\ bk \in T
    BY <1>5, <1>11
  <2> QED BY <1>5, <2>1 DEF TablesFit, T
<1>12. CASE bk # None /\ flash[m].wc = flash[bk].wc
  <2>1. flash[m] = flash[bk]
    BY <1>11, <1>12 DEF Older
  <2>2. Synced(flash, badmark, n)
    BY <1>4, <1>5, <1>11, <1>12, <2>1 DEF Synced, T
  <2>3. FineStep(flash, badmark, Return(n, p, TRUE))
    BY <1>1, <1>2, <1>4, <1>5, <1>6, <1>11, <1>12, <2>2, PlainReturn DEF T
  <2> QED BY <1>7, <1>12, <2>3
<1>13. CASE bk # None /\ flash[m].wc # flash[bk].wc
  <2> DEFINE d == [n EXCEPT !.dirty = TRUE]
  <2>1. d \in Instances
    BY <1>2 DEF Instances
  <2>2. SameCore(d, n) /\ d.main = n.main /\ d.backup = n.backup /\ d.mba = n.mba
    BY <1>2 DEF Instances, SameCore
  <2>3. d.st = n.st /\ d.map = n.map /\ d.top = n.top
    BY <2>2 DEF SameCore
  <2> HIDE DEF d
  <2>4. Ordered(d)
    BY <1>3, <2>2, <2>3 DEF Ordered
  <2>5. T \subseteq {d.main, d.backup} /\ d.main = m /\ d.backup = bk
    BY <1>4, <1>11, <1>13, <2>2
  <2>6. CASE nb = bk
    <3> DEFINE s == Write(d, p, "single_main", d.main, d.backup)
    <3>1. /\ s.pc.at = "single_main" /\ s.pc.ba = m /\ s.pc.limit = bk /\ ~s.pc.prog
          /\ SameCaller(s.pc, p)
      BY <1>1, <1>8, <2>5, SiteIn, WriteIs
    <3> HIDE DEF s
    <3>2. flash[m].wc < flash[bk].wc
      BY <1>5, <1>8, <1>11, <1>13, <2>6
    <3>3. UsedUp(badmark, n, m)
      BY <1>2, <1>3, <1>5, <1>11, <1>13, UsedUpByTight DEF T
    <3>4. UsedUp(badmark, d, m) /\ KnowsBad(badmark, d, flash[bk])
      BY <1>4, <2>3, <2>6, <3>3 DEF UsedUp, KnowsBad
    <3>5. Replaces(flash, badmark, s.pc, m)
      BY <1>8, <3>1 DEF Replaces
    <3>6. AtSingleMain(flash, badmark, d, s.pc)
      BY <1>1, <1>4, <1>11, <1>13, <2>3, <2>5, <2>6, <3>1, <3>2, <3>4, <3>5
         DEF AtSingleMain, SameCaller, T
    <3>7. Site(flash, badmark, d, s.pc)
      BY <3>1, <3>6 DEF Site
    <3>8. FineStep(flash, badmark, s)
      BY <1>1, <1>2, <1>6, <1>8, <1>9, <2>1, <2>2, <2>4, <2>5, <3>7, SiteIn, WriteFine DEF s
    <3> QED BY <1>7, <1>13, <2>6, <3>8 DEF UpdateSingle, s, d
  <2>7. CASE nb # bk
    <3> DEFINE s == Write(d, p, "single_backup", d.backup, d.top)
    <3>1. /\ s.pc.at = "single_backup" /\ s.pc.ba = bk /\ s.pc.limit = d.top /\ ~s.pc.prog
          /\ SameCaller(s.pc, p)
      <4>1. d.backup \in 0 .. NB /\ d.top \in Blocks /\ "single_backup" \in Sites
        BY <1>8, <2>3, <2>5, SiteIn
      <4>2. /\ s.pc.at = "single_backup" /\ s.pc.ba = d.backup /\ s.pc.limit = d.top /\ ~s.pc.prog
            /\ SameCaller(s.pc, p)
        BY <1>1, <4>1, WriteIs
      <4> QED BY <2>5, <4>2
    <3> HIDE DEF s
    <3>2. flash[bk].wc < flash[m].wc /\ nb = m
      BY <1>5, <1>8, <1>11, <1>13, <2>7
    <3>3. Replaces(flash, badmark, s.pc, bk)
      BY <1>8, <1>11, <1>13, <3>1 DEF Replaces
    <3>4. AtSingleBackup(flash, badmark, d, s.pc)
      <4>1. m \in T /\ Tight(flash, badmark, m) /\ flash[m].map = d.map /\ s.pc.ret = "load"
        BY <1>1, <1>4, <1>5, <1>11, <1>13, <2>3, <3>1, <3>2 DEF SameCaller
      <4> QED BY <2>5, <3>1, <3>2, <3>3, <4>1 DEF AtSingleBackup, T
    <3>5. Site(flash, badmark, d, s.pc)
      BY <3>1, <3>4 DEF Site
    <3>6. FineStep(flash, badmark, s)
      BY <1>1, <1>2, <1>6, <1>8, <1>9, <2>1, <2>2, <2>3, <2>4, <2>5, <3>5, SiteIn, WriteFine DEF s
    <3> QED BY <1>7, <1>13, <2>7, <3>6 DEF UpdateSingle, s, d
  <2> QED BY <2>6, <2>7
<1> QED BY <1>10, <1>12, <1>13

\* Attaching to a chip with tables establishes the invariant.
LEMMA InvAttachLoad ==
  ASSUME TypeInv, Inv, AttachLoad
  PROVE  Inv'
<1>1. flash' = flash /\ badmark' = badmark
  BY DEF AttachLoad
<1>2. PICK sig \in SignatureBlock, m \in FirstTable, ecc \in EccErrors :
        Become(LoadInfoTable(ecc, sig, m))
  BY DEF AttachLoad
<1>3. DiskOK(flash, badmark)
  BY DEF Inv
<1>4. PICK n : Loaded(n, ecc, sig, m) /\ LoadGoesOn(n, ecc, sig, m)
  BY LoadIs
<1>5. FineStep(flash, badmark, LoadInfoTable(ecc, sig, m))
  BY <1>3, <1>4, SearchFinds, LoadFine
<1> QED BY <1>1, <1>2, <1>3, <1>5, BecomeFine

\* Attaching to a new chip establishes the invariant.
LEMMA InvAttachCreate ==
  ASSUME TypeInv, Inv, AttachCreate
  PROVE  Inv'
<1> DEFINE n == Scan(Fresh)
           s == Write(n, Rest("off"), "signature", NB - 1, MgmtStart)
<1>1. SignatureBlock = {} /\ Become(s) /\ flash' = flash /\ badmark' = badmark
  BY DEF AttachCreate
<1>2. DiskOK(flash, badmark)
  BY DEF Inv
<1>3. Signs(flash, badmark) = {} /\ Tabs(flash, badmark) = {}
  BY <1>1, <1>2, SignFound DEF DiskOK
<1>4. MapFits(n.map, NB, NB) /\ ~n.protected
  <2> DEFINE a == SetBad(Fresh, badmark)
  <2>1. a \in Instances /\ ~a.protected
    BY FreshIs, SetBadIs
  <2>2. n = BuildMapping(a)
    BY DEF Scan
  <2> HIDE DEF a, n
  <2> QED BY <2>1, <2>2, BuildMaps
<1> HIDE DEF n
<1>5. /\ s.ni = n /\ s.pc.at = "signature" /\ s.pc.limit = MgmtStart /\ ~s.pc.prog /\ s.pc.ok
      /\ ~s.pc.mark
  <2>1. Rest("off") \in Places /\ Rest("off").ok /\ ~Rest("off").mark /\ "signature" \in Sites
    BY RestIs DEF Sites, Writers
  <2>2. NB - 1 \in 0 .. NB /\ MgmtStart \in Blocks
    BY Sizes
  <2> QED BY <2>1, <2>2, WriteIs DEF SameCaller
<1> HIDE DEF s
<1>6. Unsigned(flash, badmark, n, s.pc)
  BY <1>3, <1>4, <1>5 DEF Unsigned
<1>7. s.pc.at \notin TableSites \union RestSites
  BY <1>5 DEF TableSites, RestSites
<1>8. FineStep(flash, badmark, s)
  BY <1>5, <1>6, <1>7 DEF FineStep, Fine
<1> QED BY <1>1, <1>2, <1>8, BecomeFine

\* Attaching to a chip with a signature and no table establishes the invariant.
LEMMA InvAttachRebuild ==
  ASSUME TypeInv, Inv, AttachRebuild
  PROVE  Inv'
<1>1. flash' = flash /\ badmark' = badmark /\ FirstTable = {}
  BY DEF AttachRebuild
<1>2. PICK sig \in SignatureBlock, ecc \in EccErrors :
        LET bad == (badmark \union ecc) \intersect (MgmtStart .. sig - 2)
        IN  Become(CreateInfoTable(Scan([SetBad(Fresh, bad) EXCEPT !.sig = sig]), Rest("off")))
  BY DEF AttachRebuild
<1> DEFINE bad == (badmark \union ecc) \intersect (MgmtStart .. sig - 2)
           n == [SetBad(Fresh, bad) EXCEPT !.sig = sig]
           c == Scan(n)
<1>3. n \in Instances /\ n.sig = sig /\ ~n.protected
  <2>1. sig \in Blocks /\ SetBad(Fresh, bad) \in Instances /\ ~SetBad(Fresh, bad).protected
    BY FreshIs, SetBadIs DEF SignatureBlock
  <2> HIDE DEF bad
  <2> QED BY <2>1 DEF Instances
<1>4. Become(CreateInfoTable(c, Rest("off")))
  BY <1>2
<1> HIDE DEF n
<1>5. c \in Instances /\ c.sig = sig /\ ~c.protected /\ MapFits(c.map, NB, NB)
  <2> DEFINE a == SetBad(n, badmark)
  <2>1. a \in Instances /\ ~a.protected /\ a.sig = sig
    BY <1>3, SetBadIs
  <2>2. c = BuildMapping(a)
    BY DEF Scan
  <2> HIDE DEF a, c
  <2> QED BY <2>1, <2>2, BuildMaps
<1> HIDE DEF c
<1>6. DiskOK(flash, badmark)
  BY DEF Inv
<1>7. Signs(flash, badmark) = {sig} /\ Tabs(flash, badmark) = {}
  BY <1>1, <1>2, <1>6, SignFound, NoneFound DEF DiskOK
<1>8. Rest("off") \in Places /\ ~Rest("off").mark /\ Rest("off").ok
  BY RestIs DEF Sites
<1>9. FineStep(flash, badmark, CreateInfoTable(c, Rest("off")))
  BY <1>5, <1>7, <1>8, TypeGives, CreateFine
<1> QED BY <1>1, <1>4, <1>6, <1>9, BecomeFine

\* An attach that fails keeps the invariant.
LEMMA InvAttachFails ==
  ASSUME Inv, AttachFails
  PROVE  Inv'
<1>1. pc' = Rest("dead") /\ ni' = ni /\ flash' = flash /\ badmark' = badmark
  BY DEF AttachFails
<1>2. Rest("dead").at = "dead"
  BY RestIs DEF Sites
<1>3. Fine(flash', badmark', ni', pc')
  BY <1>1, <1>2, DeadFine
<1> QED BY <1>1, <1>3, InvParts DEF Inv

\* The block being erased or programmed is none of a signature; what happens to it
\* only costs the table in it.
LEMMA BlockLost ==
  ASSUME TypeInv, Inv, pc.at \in Writers \union Erasers, Usable # {},
         NEW c, Puts(flash', flash, Block, c),
         badmark \subseteq badmark', badmark' \subseteq badmark \union {Block},
         Block \in badmark' \/ (c.kind # "table" /\ c # Signature)
  PROVE  /\ Loses(flash, badmark, flash', badmark')
         /\ Tabs(flash', badmark') = Tabs(flash, badmark) \ {Block}
<1>1. flash \in [Blocks -> Contents] /\ ni \in Instances /\ pc \in Places
  BY TypeGives
<1>2. Fine(flash, badmark, ni, pc)
  BY DEF Inv
<1>3. Block \in Blocks
  BY ExtentIs
<1>4. Block \notin Signs(flash, badmark)
  <2>1. CASE pc.at = "signature"
    BY <1>2, <2>1 DEF Fine, Unsigned
  <2>2. CASE pc.at # "signature"
    <3>1. pc.at \in TableSites
      BY <2>2 DEF TableSites
    <3>2. FirstUsable(badmark, ni, pc, Block)
      BY <3>1, BlockIs
    <3>3. Base(flash, badmark, ni, pc) /\ Site(flash, badmark, ni, pc)
      BY <1>2, <3>1, AtSite
    <3>4. /\ Block \in pc.ba .. pc.limit - 1 /\ pc.limit <= ni.top /\ ni.top < ni.sig
          /\ Signs(flash, badmark) = {ni.sig}
      BY <1>1, <3>1, <3>2, <3>3, LimitIs DEF FirstUsable, Base, Ready, Covers
    <3>5. /\ pc.ba \in Nat /\ pc.limit \in Nat /\ ni.top \in Nat /\ ni.sig \in Nat
      BY <1>1, PlaceIs, InstanceIs
    <3> QED BY <3>4, <3>5
  <2> QED BY <2>1, <2>2
<1> DEFINE g == flash'
           cm == badmark'
<1>5. /\ Puts(g, flash, Block, c) /\ badmark \subseteq cm /\ cm \subseteq badmark \union {Block}
      /\ Block \in cm \/ (c.kind # "table" /\ c # Signature)
  OBVIOUS
<1> HIDE DEF g, cm
<1>6. Loses(flash, badmark, g, cm) /\ Tabs(g, cm) = Tabs(flash, badmark) \ {Block}
  BY <1>1, <1>3, <1>4, <1>5, LostBlock
<1> QED BY <1>6 DEF g, cm

\* Whatever operation the power loss hits, the next attach finds a good flash.
LEMMA InvCrash ==
  ASSUME TypeInv, Inv, Crash
  PROVE  Inv'
<1>1. /\ pc' = Rest("off") /\ badmark' = badmark
      /\ flash' = flash \/ \E b \in InFlight : Puts(flash', flash, b, Junk)
  BY DEF Crash, Puts
<1>2. DiskOK(flash, badmark)
  BY DEF Inv
<1>3. Junk.kind # "table" /\ Junk # Signature
  BY DEF Junk, Signature
<1>4. ASSUME NEW b \in InFlight, Puts(flash', flash, b, Junk)
      PROVE  Loses(flash, badmark, flash', badmark')
  <2>1. CASE pc.at \in {"remap_erase", "remap_copy"}
    <3>1. b = ni.map[pc.lb]
      BY <2>1 DEF InFlight, Writers, Erasers
    <3> QED BY <1>1, <1>3, <1>4, <2>1, <3>1, RemapPuts
  <2>2. CASE pc.at \in Writers \union Erasers
    <3>1. Usable # {} /\ b = Block
      BY <2>2 DEF InFlight
    <3>2. badmark \subseteq badmark' /\ badmark' \subseteq badmark \union {Block}
      BY <1>1
    <3> QED BY <1>3, <1>4, <2>2, <3>1, <3>2, BlockLost
  <2>3. pc.at \in {"remap_erase", "remap_copy"} \/ pc.at \in Writers \union Erasers
    BY DEF InFlight
  <2> QED BY <2>1, <2>2, <2>3
<1>5. DiskOK(flash', badmark')
  BY <1>1, <1>2, <1>4, LosesDisk
<1>6. Rest("off").at = "off"
  BY RestIs DEF Sites
<1>7. Fine(flash', badmark', ni', pc')
  BY <1>1, <1>6, DeadFine
<1> QED BY <1>5, <1>7, InvParts

\* The invariant holds of a new chip.
LEMMA InvInit ==
  ASSUME Init
  PROVE  Inv
<1>1. pc = Rest("off") /\ flash = [b \in Blocks |-> Erased]
  BY DEF Init
<1>2. Erased.kind # "table" /\ Erased # Signature
  BY DEF Erased, Signature
<1>3. Signs(flash, badmark) = {} /\ Tabs(flash, badmark) = {}
  BY <1>1, <1>2, Sizes DEF Signs, Tabs
<1>4. Rest("off").at = "off"
  BY RestIs DEF Sites
<1>5. Fine(flash, badmark, ni, pc)
  BY <1>1, <1>4, DeadFine
<1> QED BY <1>3, <1>5 DEF Inv, DiskOK

\* Every step keeps the invariant while nmbm_map_block takes the top of the pool.
LEMMA InvNext ==
  ASSUME TypeInv, TypeInv', Inv, TakesTop, [Next]_vars
  PROVE  Inv'
<1>1. CASE UNCHANGED vars
  BY <1>1 DEF vars, Inv
<1>2. CASE Flash
  BY <1>2, InvErase, InvProgram, InvRangeEnds DEF Flash
<1>3. CASE UpdateAgain \/ UpdateDone \/ BuildDone \/ CreateMap \/ LoadDone
  BY <1>3, InvUpdateAgain, InvUpdateDone, InvBuildDone, InvCreateMap, InvLoadDone
<1>4. CASE RemapErase \/ RemapCopy \/ RemapFails
  BY <1>4, InvRemapErase, InvRemapCopy, InvRemapFails
<1>5. CASE Attach
  BY <1>5, InvAttachLoad, InvAttachCreate, InvAttachRebuild, InvAttachFails DEF Attach
<1>6. CASE User
  BY <1>6, InvUserWrite, InvRemap DEF User
<1>7. CASE BlockFails \/ Crash
  BY <1>7, InvFails, InvCrash
<1> QED BY <1>1, <1>2, <1>3, <1>4, <1>5, <1>6, <1>7 DEF Next, Driver

\* As long as nmbm_map_block skips no bad block of the pool, the flash is one the
\* next attach can use at every moment, and the driver knows what is on it.
THEOREM TablesKept == Spec /\ []TakesTop => [](TypeInv /\ Inv)
<1>1. Init => TypeInv /\ Inv
  BY TypeInit, InvInit
<1>2. TypeInv /\ Inv /\ TakesTop /\ [Next]_vars => (TypeInv /\ Inv)'
  BY TypeNext, InvNext
<1> QED BY <1>1, <1>2, PTL DEF Spec

-----------------------------------------------------------------------------
(* What follows for the mapping. *)

LEMMA SitesSplit ==
  ASSUME NEW p \in Places
  PROVE  \/ p.at \in {"off", "dead"} \/ p.at = "signature"
         \/ p.at \in TableSites \/ p.at \in RestSites
BY PlaceIs DEF Sites, TableSites, RestSites

\* The mapping in memory has no sharing.
LEMMA AttachedFits ==
  ASSUME TypeInv, Inv, Attached
  PROVE  \A i, j \in LBlocks : ni.map[i] # Unmapped /\ ni.map[i] = ni.map[j] => i = j
<1>1. pc.at = "signature" \/ pc.at \in TableSites \/ pc.at \in RestSites
  BY TypeGives, SitesSplit DEF Attached
<1>2. Fine(flash, badmark, ni, pc)
  BY DEF Inv
<1>3. CASE pc.at = "signature"
  BY <1>2, <1>3 DEF Fine, Unsigned, MapFits
<1>4. CASE pc.at \in TableSites \/ pc.at \in RestSites
  BY <1>2, <1>4 DEF Fine, Covers, MapFits
<1> QED BY <1>1, <1>3, <1>4

\* No two logic blocks share a physical block.
LEMMA SharingExcluded == TypeInv /\ Inv => NoSharing
<1> SUFFICES ASSUME TypeInv, Inv, Attached, NEW i \in LBlocks, NEW j \in LBlocks
             PROVE  /\ i # j /\ ni.map[i] # Unmapped => ni.map[i] # ni.map[j]
                    /\ ni.map[i] >= MgmtStart /\ pc.at = "idle"
                         => ni.map[i] > ni.mba /\ ni.map[i] # ni.sig
  BY DEF NoSharing
<1>1. i # j /\ ni.map[i] # Unmapped => ni.map[i] # ni.map[j]
  BY AttachedFits
<1>2. ASSUME ni.map[i] >= MgmtStart, pc.at = "idle"
      PROVE  ni.map[i] > ni.mba /\ ni.map[i] # ni.sig
  <2>1. Covers(flash, badmark, ni) /\ Ordered(ni)
    BY <1>2 DEF Inv, Fine, RestSites
  <2>2. ni.top < ni.map[i] /\ ni.map[i] < ni.sig /\ ni.mba <= ni.top
    BY <1>2, <2>1 DEF Covers, MapFits, Ordered
  <2>3. ni.map[i] \in Int /\ ni.top \in Nat /\ ni.mba \in Nat /\ ni.sig \in Nat
    BY TypeGives, InstanceIs, MapIs
  <2> QED BY <2>2, <2>3
<1> QED BY <1>1, <1>2

\* No two logic blocks share a block, and none has a block of the tables, the spare
\* blocks or the signature, in nmbm_create_info_table, remap_block_nmbm and after
\* every attach.
THEOREM MappingExclusive == Spec /\ []TakesTop => []NoSharing
BY TablesKept, SharingExcluded, PTL

\* The mapping an attach would load is the one of the newest table.
DiskIs ==
  /\ Tabs(flash, badmark) = {} => DiskMap = {}
  /\ Tabs(flash, badmark) # {} =>
       \E t \in Tabs(flash, badmark) :
         /\ DiskMap = {flash[t].map}
         /\ \A s \in Tabs(flash, badmark) : Older(flash[s], flash[t])

\* What the next attach would read, in terms of the tables on the flash.
LEMMA DiskRead == TypeInv /\ DiskOK(flash, badmark) => DiskIs
<1> SUFFICES ASSUME TypeInv, DiskOK(flash, badmark) PROVE DiskIs
  OBVIOUS
<1>1. CASE FirstTable = {}
  <2>1. Tabs(flash, badmark) = {}
    BY <1>1, NoneFound
  <2>2. DiskMap = {}
    BY <1>1 DEF DiskMap
  <2> QED BY <2>1, <2>2 DEF DiskIs
<1>2. CASE FirstTable # {}
  <2>1. PICK m : m \in FirstTable
    BY <1>2
  <2>2. IsTable(m) /\ m \in Area
    BY <2>1, SearchIs
  <2>3. PICK sig \in SignatureBlock : TRUE
    BY <2>2 DEF IsTable
  <2>4. Searched(sig, m)
    BY <2>1, SearchFinds
  <2>5. LoadNewest(m) \in Tabs(flash, badmark)
        /\ \A t \in Tabs(flash, badmark) : Older(flash[t], flash[LoadNewest(m)])
    BY <2>4 DEF Searched
  <2>6. FirstTable = {m}
    <3>1. ASSUME NEW x \in FirstTable PROVE x = m
      <4>1. x \in Nat /\ m \in Nat /\ x >= MgmtStart /\ m >= MgmtStart /\ IsTable(x)
        BY <2>1, <2>2, SearchIs, Sizes DEF Area
      <4>2. ~(x < m)
        <5>1. x < m => x \in MgmtStart .. m - 1
          BY <4>1, Sizes
        <5> QED BY <2>1, <4>1, <5>1 DEF FirstTable
      <4>3. ~(m < x)
        <5>1. m < x => m \in MgmtStart .. x - 1
          BY <4>1, Sizes
        <5> QED BY <2>2, <3>1, <4>1, <5>1 DEF FirstTable
      <4> QED BY <4>1, <4>2, <4>3
    <3> QED BY <2>1, <3>1
  <2>7. NewestTable(m) = {LoadNewest(m)}
    <3>1. LoadNewest(m) \in NewestTable(m)
      BY <2>1, <2>3, LoadBlocks
    <3>2. ASSUME NEW b \in SecondTable(m) PROVE b = LoadBackup(m) /\ b # m
      <4>1. b \in Area /\ IsTable(b) /\ m < b
        BY <2>1, SearchIs
      <4>2. b \in Tabs(flash, badmark) /\ b # m
        BY <2>2, <4>1, TableAccepted, Sizes
      <4> QED BY <2>4, <4>2 DEF Searched
    <3> QED BY <3>1, <3>2 DEF NewestTable
  <2>8. DiskMap = {flash[LoadNewest(m)].map}
    BY <2>6, <2>7 DEF DiskMap
  <2> QED BY <2>5, <2>8 DEF DiskIs
<1> QED BY <1>1, <1>2

\* The same after a step.
LEMMA DiskReadNext == (TypeInv /\ DiskOK(flash, badmark))' => DiskIs'
BY DiskRead, PTL

\* When the driver is idle, the mapping in memory is the one on the flash.
LEMMA AlwaysWritten == TypeInv /\ Inv => Persisted
<1> SUFFICES ASSUME TypeInv, Inv, pc.at = "idle", ~ni.protected PROVE DiskMap = {ni.map}
  BY DEF Persisted
<1>1. Resting(flash, badmark, ni, pc) /\ DiskOK(flash, badmark)
  BY DEF Inv, Fine, RestSites
<1>2. ni.main \in Tabs(flash, badmark) /\ Synced(flash, badmark, ni)
  BY <1>1 DEF Resting
<1>3. DiskIs
  BY <1>1, DiskRead
<1> QED BY <1>2, <1>3 DEF DiskIs, Synced

\* Whenever the driver waits for its user, the mapping it uses is the one the next
\* attach will load, whatever the updates, rescues and power losses before.
THEOREM MappingPersisted == Spec /\ []TakesTop => []Persisted
BY TablesKept, AlwaysWritten, PTL

-----------------------------------------------------------------------------
(* Nmbm implements DurableMap. *)

LEMMA OlderBoth ==
  ASSUME NEW s, NEW t, s.wc \in Nat, t.wc \in Nat, Older(s, t), Older(t, s)
  PROVE  s = t
BY DEF Older

\* If the table in block b is lost, another one has the newest mapping as well.
LEMMA Remains ==
  ASSUME NEW f \in [Blocks -> Contents], NEW bm, NEW n \in Instances, NEW p \in Places,
         Base(f, bm, n, p), Site(f, bm, n, p), p.at \in TableSites,
         p.at = "update_main" => n.backup # None,
         NEW b \in Tabs(f, bm), FirstUsable(bm, n, p, b),
         NEW t \in Tabs(f, bm), \A s \in Tabs(f, bm) : Older(f[s], f[t])
  PROVE  \E x \in Tabs(f, bm) : x # b /\ f[x].map = f[t].map
<1>1. /\ n.main \in Nat /\ n.backup \in Nat /\ n.mba \in Nat /\ n.top \in Nat
      /\ p.ba \in Nat /\ p.limit \in Nat /\ p.wba \in Nat /\ p.tmp \in Nat
  BY InstanceIs, PlaceIs
<1>2. b \in Nat /\ b # None /\ p.ba <= b /\ b < p.limit
  BY <1>1, TabsIs DEF FirstUsable
<1>3. /\ n.main # None => n.main < n.mba
      /\ n.backup # None => n.main # None /\ n.main < n.backup /\ n.backup < n.mba
  BY DEF Base, Ordered
<1>4. \A s \in Tabs(f, bm) : f[s].wc \in Nat
  BY TabsIs
<1>5. CASE p.at = "update_backup"
  <2>1. AtUpdateBackup(f, bm, n, p)
    BY <1>5 DEF Site
  <2>2. n.main \in Tabs(f, bm) /\ SameMaps(f, bm) /\ n.backup # None /\ n.backup <= p.ba
    BY <2>1 DEF AtUpdateBackup, Replaces
  <2>3. n.main # b
    BY <1>1, <1>2, <1>3, <2>2
  <2> QED BY <2>2, <2>3 DEF SameMaps
<1>6. CASE p.at = "update_main"
  <2>1. AtUpdateMain(f, bm, n, p)
    BY <1>6 DEF Site
  <2>2. n.backup \in Tabs(f, bm) /\ f[n.backup] = n.cache /\ p.limit = n.backup
    BY <1>6, <2>1 DEF AtUpdateMain
  <2>3. Older(f[t], n.cache) /\ Older(n.cache, f[t])
    BY <2>2 DEF Base, Ready, CacheReady
  <2>4. f[t] = f[n.backup]
    BY <1>4, <2>2, <2>3, OlderBoth
  <2>5. n.backup # b
    BY <1>1, <1>2, <2>2
  <2> QED BY <2>2, <2>4, <2>5
<1>7. CASE p.at \in {"rebuild_main", "rebuild_backup"}
  <2>1. AtRebuildMain(f, bm, n, p) \/ AtRebuildBackup(f, bm, n, p)
    BY <1>7 DEF Site
  <2>2. b = n.main /\ n.main + 1 <= p.ba
    BY <2>1 DEF AtRebuildMain, AtRebuildBackup
  <2> QED BY <1>1, <1>2, <2>2
<1>8. CASE p.at \in {"erase_rebuild", "erase_front"}
  <2>1. AtEraseBetween(f, bm, n, p)
    BY <1>8 DEF Site
  <2>2. b \in {n.main, n.backup} /\ n.main < p.ba /\ p.limit = n.backup
    BY <2>1 DEF AtEraseBetween
  <2> QED BY <1>1, <1>2, <2>2
<1>9. CASE p.at = "rescue_front"
  <2>1. AtRescueFront(f, bm, n, p)
    BY <1>9 DEF Site
  <2>2. b = n.main /\ p.limit = n.main
    BY <2>1 DEF AtRescueFront
  <2> QED BY <1>1, <1>2, <2>2
<1>10. CASE p.at = "rescue_behind"
  <2>1. AtRescueBehind(f, bm, n, p)
    BY <1>10 DEF Site
  <2>2. b = n.main /\ n.mba <= p.wba /\ p.wba <= p.ba
    BY <2>1 DEF AtRescueBehind
  <2> QED BY <1>1, <1>2, <1>3, <2>2
<1>11. CASE p.at = "erase_behind"
  <2>1. AtEraseBehind(f, bm, n, p)
    BY <1>11 DEF Site
  <2>2. b \in {n.main, p.tmp} /\ n.mba <= p.ba /\ p.limit = p.tmp
    BY <2>1 DEF AtEraseBehind
  <2> QED BY <1>1, <1>2, <1>3, <2>2
<1>12. CASE p.at = "single_main"
  <2>1. AtSingleMain(f, bm, n, p)
    BY <1>12 DEF Site
  <2>2. /\ n.backup \in Tabs(f, bm) /\ Tabs(f, bm) \subseteq {n.main, n.backup} /\ p.limit = n.backup
        /\ n.main \in Tabs(f, bm) => f[n.main].wc < f[n.backup].wc
    BY <2>1 DEF AtSingleMain
  <2>3. n.backup # b
    BY <1>1, <1>2, <2>2
  <2>4. Older(f[n.backup], f[t])
    BY <2>2
  <2>5. f[n.backup].wc <= f[t].wc
    BY <2>4 DEF Older
  <2>6. t = n.backup
    BY <1>4, <2>2, <2>5
  <2> QED BY <2>2, <2>3, <2>6
<1>13. CASE p.at = "single_backup"
  <2>1. AtSingleBackup(f, bm, n, p)
    BY <1>13 DEF Site
  <2>2. /\ n.main \in Tabs(f, bm) /\ Tabs(f, bm) \subseteq {n.main, n.backup}
        /\ n.backup # None /\ n.backup <= p.ba
        /\ n.backup \in Tabs(f, bm) => f[n.backup].wc < f[n.main].wc
    BY <2>1 DEF AtSingleBackup, Replaces
  <2>3. n.main # b
    BY <1>1, <1>2, <1>3, <2>2
  <2>4. Older(f[n.main], f[t])
    BY <2>2
  <2>5. f[n.main].wc <= f[t].wc
    BY <2>4 DEF Older
  <2>6. t = n.main
    BY <1>4, <2>2, <2>5
  <2> QED BY <2>2, <2>3, <2>6
<1>14. CASE p.at = "rescue_tmp"
  <2>1. AtRescueTmp(f, bm, n, p)
    BY <1>14 DEF Site
  <2>2. b = n.backup /\ n.backup # None /\ n.mba <= p.wba /\ p.wba <= p.ba
    BY <2>1 DEF AtRescueTmp
  <2> QED BY <1>1, <1>2, <1>3, <2>2
<1>15. CASE p.at = "rescue_main"
  <2>1. AtRescueMain(f, bm, n, p)
    BY <1>15 DEF Site
  <2>2. p.tmp \in Tabs(f, bm) /\ Synced(f, bm, n) /\ p.limit = p.tmp
    BY <2>1 DEF AtRescueMain
  <2>3. p.tmp # b
    BY <1>1, <1>2, <2>2
  <2> QED BY <2>2, <2>3 DEF Synced
<1> QED BY <1>5, <1>6, <1>7, <1>8, <1>9, <1>10, <1>11, <1>12, <1>13, <1>14, <1>15
        DEF TableSites, Writers, Erasers

\* What the next attach would load only depends on the tables.
LEMMA SameTables ==
  ASSUME TypeInv, DiskIs, DiskIs', Tabs(flash', badmark') = Tabs(flash, badmark),
         \A t \in Tabs(flash, badmark) : flash'[t] = flash[t]
  PROVE  DiskMap' = DiskMap
<1>1. CASE Tabs(flash, badmark) = {}
  BY <1>1 DEF DiskIs
<1>2. CASE Tabs(flash, badmark) # {}
  <2>1. PICK t \in Tabs(flash, badmark) :
          DiskMap = {flash[t].map} /\ \A s \in Tabs(flash, badmark) : Older(flash[s], flash[t])
    BY <1>2 DEF DiskIs
  <2>2. PICK u \in Tabs(flash, badmark) :
          DiskMap' = {flash'[u].map} /\ \A s \in Tabs(flash, badmark) : Older(flash'[s], flash'[u])
    BY <1>2 DEF DiskIs
  <2>3. flash[t].wc \in Nat /\ flash[u].wc \in Nat
    BY TypeGives, TabsIs
  <2>4. Older(flash[t], flash[u]) /\ Older(flash[u], flash[t])
    BY <2>1, <2>2
  <2>5. flash[t] = flash[u]
    BY <2>3, <2>4, OlderBoth
  <2> QED BY <2>1, <2>2, <2>5
<1> QED BY <1>1, <1>2

\* An erase, a failing block and a power loss during a table write leave the mapping
\* on the flash as it is.
LEMMA LossKeeps ==
  ASSUME TypeInv, Inv, DiskIs, DiskIs', TwoTables,
         pc.at \in Writers \union Erasers, Usable # {},
         Loses(flash, badmark, flash', badmark'),
         Tabs(flash', badmark') = Tabs(flash, badmark) \ {Block}
  PROVE  DiskMap' = DiskMap
<1>1. \A t \in Tabs(flash', badmark') : flash'[t] = flash[t]
  BY DEF Loses
<1>2. CASE Block \notin Tabs(flash, badmark)
  <2>1. Tabs(flash', badmark') = Tabs(flash, badmark)
    BY <1>2
  <2> QED BY <1>1, <2>1, SameTables
<1>3. CASE Block \in Tabs(flash, badmark)
  <2>1. DiskOK(flash, badmark) /\ Fine(flash, badmark, ni, pc)
    BY DEF Inv
  <2>2. pc.at # "signature"
    BY <1>3, <2>1 DEF Fine, Unsigned
  <2>3. pc.at \in TableSites
    BY <2>2 DEF TableSites
  <2>4. Base(flash, badmark, ni, pc) /\ Site(flash, badmark, ni, pc)
    BY <2>1, <2>3, AtSite
  <2>5. FirstUsable(badmark, ni, pc, Block)
    BY <2>3, BlockIs
  <2>6. PICK t \in Tabs(flash, badmark) :
          DiskMap = {flash[t].map} /\ \A s \in Tabs(flash, badmark) : Older(flash[s], flash[t])
    BY <1>3 DEF DiskIs
  <2>7. pc.at = "update_main" => ni.backup # None
    BY DEF TwoTables
  <2>8. PICK x \in Tabs(flash, badmark) : x # Block /\ flash[x].map = flash[t].map
    BY <1>3, <2>3, <2>4, <2>5, <2>6, <2>7, Remains, TypeGives
  <2>9. \E y, z \in Area : Tabs(flash, badmark) \subseteq {y, z}
    BY <1>3, <2>1 DEF DiskOK
  <2>10. Tabs(flash', badmark') = {x}
    BY <1>3, <2>8, <2>9
  <2>11. DiskMap' = {flash'[x].map}
    BY <2>10 DEF DiskIs
  <2> QED BY <1>1, <2>6, <2>8, <2>10, <2>11
<1> QED BY <1>2, <1>3

\* After a write: the mapping in memory and the caller are the same, the driver goes
\* on, and only a rebuild that fails write protects the tables.
Goes(s, n, p) ==
  /\ s.ni.map = n.map /\ s.pc.ret = p.ret
  /\ s.pc.at \in Writers \union Erasers \union {"return"}
  /\ s.pc.at = "rebuild_main" =>
       \/ p.at = "update_main" /\ n.backup = None
       \/ p.at \in {"update_backup", "return"} /\ n.main = None
  /\ p.at # "rebuild_main" => s.ni.protected = n.protected

\* nmbm_write_info_table returns to a function that goes on in this way.

LEMMA WriteGoes ==
  ASSUME NEW n \in Instances, NEW p \in Places, NEW ok \in BOOLEAN, NEW ts,
         p.at \in Writers \ {"signature"}
  PROVE  Goes(WriteNext(n, p, ok, ts), n, p)
<1>1. CASE p.at = "update_backup"
  BY <1>1 DEF WriteNext, UpdateOnceNext, WriteMain, RebuildInfoTable, Clean, Return,
     Write, Step, Goes, Instances, Places, Writers, Erasers
<1>2. CASE p.at = "update_main"
  BY <1>2 DEF WriteNext, UpdateOnceNext, RebuildInfoTable, RescueMain, BackupBecomesMain, WriteBehind, Clean, Return,
     Write, Step, Goes, Instances, Places, Writers, Erasers
<1>3. CASE p.at = "rebuild_main"
  BY <1>3 DEF WriteNext, RebuildNext, Clean, Return,
     Write, Step, Goes, Instances, Places, Writers, Erasers
<1>4. CASE p.at = "rebuild_backup"
  BY <1>4 DEF WriteNext, RebuildNext, Clean, Return,
     Write, Step, Goes, Instances, Places, Writers, Erasers
<1>5. CASE p.at = "rescue_front"
  BY <1>5 DEF WriteNext, RescueSingleNext, WriteBehind, Clean, Return,
     Write, Step, Goes, Instances, Places, Writers, Erasers
<1>6. CASE p.at = "rescue_behind"
  BY <1>6 DEF WriteNext, RescueSingleNext, WriteBehind, Clean, Return,
     Write, Step, Goes, Instances, Places, Writers, Erasers
<1>7. CASE p.at = "single_main"
  BY <1>7 DEF WriteNext, UpdateSingleNext, RescueSingle, Clean, Return,
     Write, Step, Goes, Instances, Places, Writers, Erasers
<1>8. CASE p.at = "single_backup"
  BY <1>8 DEF WriteNext, UpdateSingleNext, Clean, Return,
     Write, Step, Goes, Instances, Places, Writers, Erasers
<1>9. CASE p.at = "rescue_tmp"
  BY <1>9 DEF WriteNext, RescueMainNext, WriteBehind, BackupBecomesMain, Clean, Return,
     Write, Step, Goes, Instances, Places, Writers, Erasers
<1>10. CASE p.at = "rescue_main"
  BY <1>10 DEF WriteNext, RescueMainNext, Clean, Return,
     Write, Step, Goes, Instances, Places, Writers, Erasers
<1> QED BY <1>1, <1>2, <1>3, <1>4, <1>5, <1>6, <1>7, <1>8, <1>9, <1>10 DEF Writers

\* nmbm_create_info_table starts with the main table and leaves the mapping alone.
LEMMA CreateGoes ==
  ASSUME NEW n \in Instances, NEW p \in Places
  PROVE  /\ CreateInfoTable(n, p).ni.map = n.map
         /\ CreateInfoTable(n, p).pc.at \in {"rebuild_main", "dead"}
BY DEF CreateInfoTable, RebuildInfoTable, GenCache, Write, Step, Rest, Instances, Places

\* So does what follows the writing of the signature.
LEMMA SignatureGoes ==
  ASSUME NEW n \in Instances, NEW p \in Places, p.at = "signature", NEW ok \in BOOLEAN,
         NEW ts \in Blocks
  PROVE  /\ WriteNext(n, p, ok, ts).ni.map = n.map
         /\ WriteNext(n, p, ok, ts).pc.at \in {"rebuild_main", "dead"}
<1> DEFINE m == [n EXCEPT !.sig = ts]
<1>1. m \in Instances /\ m.map = n.map
  BY DEF Instances
<1>2. WriteNext(n, p, ok, ts) = IF ok THEN CreateInfoTable(m, p) ELSE Step(n, Rest("dead"))
  BY DEF WriteNext, SignatureNext
<1>3. Step(n, Rest("dead")).ni = n /\ Step(n, Rest("dead")).pc.at = "dead"
  BY DEF Step, Rest
<1> HIDE DEF m
<1> QED BY <1>1, <1>2, <1>3, CreateGoes

\* Tables are written to the management area only.
LEMMA AreaIs ==
  ASSUME NEW f \in [Blocks -> Contents], NEW bm, NEW n \in Instances, NEW p \in Places,
         Base(f, bm, n, p), Site(f, bm, n, p), p.at \in TableSites
  PROVE  MgmtStart <= p.ba
<1>1. /\ n.main \in Nat /\ n.backup \in Nat /\ n.mba \in Nat /\ p.ba \in Nat
      /\ p.wba \in Nat /\ p.tmp \in Nat
  BY InstanceIs, PlaceIs
<1>2. /\ MgmtStart < n.mba
      /\ n.main # None => MgmtStart <= n.main
      /\ n.backup # None => n.main # None /\ n.main < n.backup
  BY DEF Base, Ordered
<1>3. \A t \in Tabs(f, bm) : t >= MgmtStart
  BY TabsIs
<1>4. \/ MgmtStart <= p.ba
      \/ n.main # None /\ n.main <= p.ba
      \/ n.backup # None /\ n.backup <= p.ba
      \/ n.main \in Tabs(f, bm) /\ n.main < p.ba
      \/ n.main \in Tabs(f, bm) /\ n.main + 1 <= p.ba
      \/ n.mba <= p.ba \/ (n.mba <= p.wba /\ p.wba <= p.ba)
  BY DEF TableSites, Writers, Erasers, Site, Replaces, AtUpdateBackup, AtUpdateMain, AtRebuildMain,
         AtRebuildBackup, AtEraseBetween, AtRescueFront, AtRescueBehind, AtEraseBehind,
         AtSingleMain, AtSingleBackup, AtRescueTmp, AtRescueMain
<1> QED BY <1>1, <1>2, <1>3, <1>4, Sizes

\* What a step on the flash does to the two mappings.
LEMMA EraseDisk ==
  ASSUME TypeInv, Inv, DiskIs, DiskIs', TwoTables, EraseBlock
  PROVE  DiskMap' = DiskMap /\ ni'.map = ni.map /\ pc'.at = pc.at
<1>1. /\ pc.at \in Writers \union Erasers /\ Usable # {} /\ badmark' = badmark
      /\ Puts(flash', flash, Block, Erased) /\ ni' = Skipped(ni)
      /\ pc' = IF pc.at \in Erasers THEN [pc EXCEPT !.ba = After(Block)]
               ELSE [pc EXCEPT !.ba = Block, !.prog = TRUE]
  BY DEF EraseBlock, Puts
<1>2. Erased.kind # "table" /\ Erased # Signature
  BY DEF Erased, Signature
<1>3. badmark \subseteq badmark' /\ badmark' \subseteq badmark \union {Block}
  BY <1>1
<1>4. /\ Loses(flash, badmark, flash', badmark')
      /\ Tabs(flash', badmark') = Tabs(flash, badmark) \ {Block}
  BY <1>1, <1>2, <1>3, BlockLost
<1>5. DiskMap' = DiskMap
  BY <1>1, <1>4, LossKeeps
<1>6. pc'.at = pc.at
  BY <1>1, TypeGives DEF Places
<1>7. ni'.map = ni.map
  BY <1>1, SkippedWorn
<1> QED BY <1>5, <1>6, <1>7

\* A block that fails changes neither of the mappings.
LEMMA FailsDisk ==
  ASSUME TypeInv, Inv, DiskIs, DiskIs', TwoTables, BlockFails
  PROVE  DiskMap' = DiskMap /\ ni'.map = ni.map /\ pc'.at = pc.at
<1>1. /\ pc.at \in Writers \union Erasers /\ Usable # {} /\ badmark' = badmark \union {Block}
      /\ \E c : Puts(flash', flash, Block, c)
      /\ ni' = SetBad(Skipped(ni), {Block})
      /\ pc' = [pc EXCEPT !.ba = After(Block), !.prog = FALSE]
  BY DEF BlockFails, Puts
<1>2. PICK c : Puts(flash', flash, Block, c)
  BY <1>1
<1>3. badmark \subseteq badmark' /\ badmark' \subseteq badmark \union {Block} /\ Block \in badmark'
  BY <1>1
<1>4. /\ Loses(flash, badmark, flash', badmark')
      /\ Tabs(flash', badmark') = Tabs(flash, badmark) \ {Block}
  BY <1>1, <1>2, <1>3, BlockLost
<1>5. DiskMap' = DiskMap
  BY <1>1, <1>4, LossKeeps
<1>6. pc'.at = pc.at
  BY <1>1, TypeGives DEF Places
<1>7. ni'.map = ni.map
  <2> DEFINE m == Skipped(ni)
  <2>1. m \in Instances /\ m.map = ni.map /\ ni' = SetBad(m, {Block})
    BY <1>1, SkippedWorn
  <2> HIDE DEF m
  <2> QED BY <2>1, SetBadIs
<1> QED BY <1>5, <1>6, <1>7

\* A new table commits the mapping in memory.
LEMMA ProgramCommits ==
  ASSUME TypeInv, Inv, DiskIs', ProgramBlock, pc.at # "signature"
  PROVE  /\ DiskMap' = {ni.map} /\ ni'.map = ni.map /\ pc.at \in TableSites
         /\ pc'.at \in Writers \union Erasers \union {"return"}
<1>1. /\ pc.prog /\ Become(WriteNext(ni, pc, TRUE, pc.ba)) /\ badmark' = badmark
      /\ flash' = [flash EXCEPT ![pc.ba] = IF pc.at = "signature" THEN Signature ELSE ni.cache]
  BY DEF ProgramBlock
<1>2. /\ ni \in Instances /\ pc \in Places /\ flash \in [Blocks -> Contents]
      /\ pc.at \in Writers /\ pc.ba < pc.limit
  BY <1>1, TypeGives DEF InRange
<1>3. pc.at \in TableSites
  BY <1>2 DEF TableSites
<1>4. /\ Base(flash, badmark, ni, pc) /\ Site(flash, badmark, ni, pc)
      /\ pc.ba \notin Tabs(flash, badmark) /\ pc.ba \notin badmark
  BY <1>1, <1>3, AtSite DEF Inv
<1>5. pc.ba \in Blocks /\ pc.ba >= MgmtStart
  <2>1. pc.ba \in Nat /\ pc.limit \in Blocks
    BY <1>2, PlaceIs
  <2> QED BY <1>2, <1>3, <1>4, <2>1, AreaIs, BlockBounds, Sizes
<1>6. Puts(flash', flash, pc.ba, ni.cache)
  BY <1>1 DEF Puts
<1>7. CacheReady(flash, badmark, ni)
  BY <1>4 DEF Base, Ready
<1>8. Programmed(flash, badmark, ni, flash', pc.ba)
  <2> DEFINE g == flash'
  <2>1. Puts(g, flash, pc.ba, ni.cache)
    BY <1>6
  <2> HIDE DEF g
  <2>2. Programmed(flash, badmark, ni, g, pc.ba)
    BY <1>2, <1>4, <1>5, <1>7, <2>1, ProgramFlash
  <2> QED BY <2>2 DEF g
<1>9. /\ Tabs(flash', badmark') = Tabs(flash, badmark) \union {pc.ba}
      /\ flash'[pc.ba] = ni.cache /\ flash'[pc.ba].map = ni.map
      /\ \A t \in Tabs(flash, badmark) : flash'[t] = flash[t]
  BY <1>1, <1>8 DEF Programmed
<1>10. PICK u \in Tabs(flash', badmark') :
         DiskMap' = {flash'[u].map} /\ \A s \in Tabs(flash', badmark') : Older(flash'[s], flash'[u])
  BY <1>9 DEF DiskIs
<1>11. Older(flash'[u], ni.cache) /\ flash'[u].wc \in Nat
  <2>1. CASE u = pc.ba
    BY <1>2, <1>9, <2>1, InstanceIs, OlderSelf
  <2>2. CASE u \in Tabs(flash, badmark)
    <3>1. Older(flash[u], ni.cache) /\ flash[u].wc \in Nat
      BY <1>2, <1>7, <2>2, TabsIs DEF CacheReady
    <3> QED BY <1>9, <2>2, <3>1
  <2> QED BY <1>9, <2>1, <2>2
<1>12. Older(ni.cache, flash'[u])
  BY <1>9, <1>10
<1>13. flash'[u] = ni.cache
  BY <1>2, <1>11, <1>12, InstanceIs, OlderBoth
<1>14. DiskMap' = {ni.map}
  BY <1>9, <1>10, <1>13
<1>15. Goes(WriteNext(ni, pc, TRUE, pc.ba), ni, pc)
  BY <1>2, WriteGoes
<1>16. ni' = WriteNext(ni, pc, TRUE, pc.ba).ni /\ pc' = WriteNext(ni, pc, TRUE, pc.ba).pc
  BY <1>1 DEF Become
<1> QED BY <1>3, <1>14, <1>15, <1>16 DEF Goes

\* Writing the signature changes neither of the mappings.
LEMMA SignatureDisk ==
  ASSUME TypeInv, Inv, DiskIs, DiskIs', ProgramBlock, pc.at = "signature"
  PROVE  /\ DiskMap' = {} /\ DiskMap = {} /\ ni'.map = ni.map
         /\ pc'.at \in {"rebuild_main", "dead"}
<1>1. /\ Become(WriteNext(ni, pc, TRUE, pc.ba)) /\ badmark' = badmark
      /\ flash' = [flash EXCEPT ![pc.ba] = Signature]
  BY DEF ProgramBlock
<1>2. ni \in Instances /\ pc \in Places /\ flash \in [Blocks -> Contents] /\ pc.ba \in Blocks
  BY TypeGives DEF InRange
<1>3. Tabs(flash, badmark) = {}
  BY DEF Inv, Fine, Unsigned
<1>4. Tabs(flash', badmark') = {}
  <2>1. \A b \in Area : flash'[b] = flash[b] \/ flash'[b] = Signature
    BY <1>1, <1>2, Sizes
  <2>2. Signature.kind # "table"
    BY DEF Signature
  <2> QED BY <1>1, <1>3, <2>1, <2>2 DEF Tabs
<1>5. ni' = WriteNext(ni, pc, TRUE, pc.ba).ni /\ pc' = WriteNext(ni, pc, TRUE, pc.ba).pc
  BY <1>1 DEF Become
<1> QED BY <1>2, <1>3, <1>4, <1>5, SignatureGoes DEF DiskIs

\* Running out of blocks changes neither of the mappings.
LEMMA RangeEndsDisk ==
  ASSUME TypeInv, DiskIs, DiskIs', RangeEnds
  PROVE  /\ DiskMap' = DiskMap /\ ni'.map = ni.map /\ pc.at \in Writers \union Erasers
         /\ pc.at # "signature" => pc'.at \in Writers \union Erasers \union {"return"}
         /\ pc.at = "signature" => pc'.at \in {"rebuild_main", "dead"}
<1> DEFINE m == Skipped(ni)
<1>1. /\ pc.at \in Writers \union Erasers /\ flash' = flash /\ badmark' = badmark
      /\ Become(IF pc.at \in Erasers THEN EraseNext(m, pc) ELSE WriteNext(m, pc, FALSE, None))
  BY DEF RangeEnds
<1>2. m \in Instances /\ m.map = ni.map /\ pc \in Places /\ None \in Blocks
  BY SkippedWorn, TypeGives, Sizes
<1> HIDE DEF m
<1>3. DiskMap' = DiskMap
  BY <1>1, SameTables
<1>4. CASE pc.at \in Erasers
  <2>1. Goes(EraseNext(m, pc), m, pc)
    BY <1>2 DEF Goes, EraseNext, Clean, Return, Step, Instances, Places
  <2>2. ni' = EraseNext(m, pc).ni /\ pc' = EraseNext(m, pc).pc /\ pc.at # "signature"
    BY <1>1, <1>4 DEF Become, Erasers
  <2> QED BY <1>1, <1>2, <1>3, <2>1, <2>2 DEF Goes
<1>5. CASE pc.at \in Writers \ {"signature"}
  <2>1. Goes(WriteNext(m, pc, FALSE, None), m, pc)
    BY <1>2, <1>5, WriteGoes
  <2>2. /\ ni' = WriteNext(m, pc, FALSE, None).ni /\ pc' = WriteNext(m, pc, FALSE, None).pc
        /\ pc.at # "signature"
    BY <1>1, <1>5 DEF Become, Erasers, Writers
  <2> QED BY <1>1, <1>2, <1>3, <2>1, <2>2 DEF Goes
<1>6. CASE pc.at = "signature"
  <2>1. /\ ni' = WriteNext(m, pc, FALSE, None).ni /\ pc' = WriteNext(m, pc, FALSE, None).pc
    BY <1>1, <1>6 DEF Become, Erasers
  <2> QED BY <1>1, <1>2, <1>3, <1>6, <2>1, SignatureGoes
<1> QED BY <1>1, <1>4, <1>5, <1>6

\* The steps of DurableMap, by what happens to the mapping in memory.
LEMMA MappingStays ==
  ASSUME Attached, DiskMap' = DiskMap, Attached' => ni'.map = ni.map
  PROVE  [Durable!Next]_<<MemMap, DiskMap>>
<1>1. MemMap = {ni.map} /\ MemMap' = IF Attached' THEN {ni'.map} ELSE {}
  BY DEF MemMap
<1>2. CASE Attached'
  BY <1>1, <1>2
<1>3. CASE ~Attached'
  BY <1>1, <1>3 DEF Durable!Next, Durable!Detach
<1> QED BY <1>2, <1>3

\* Writing the mapping of the memory to the flash is a step of DurableMap.
LEMMA MappingCommitted ==
  ASSUME Attached, Attached', DiskMap' = {ni.map}, ni'.map = ni.map
  PROVE  [Durable!Next]_<<MemMap, DiskMap>>
<1>1. MemMap = {ni.map} /\ MemMap' = {ni'.map}
  BY DEF MemMap
<1> QED BY <1>1 DEF Durable!Next, Durable!Commit

\* Changing one entry of the mapping in memory is a step of DurableMap.
LEMMA MappingChanges ==
  ASSUME Attached, Attached', DiskMap' = DiskMap, ni \in Instances, ni' \in Instances,
         NEW lb \in LBlocks, \A k \in LBlocks \ {lb} : ni'.map[k] = ni.map[k]
  PROVE  [Durable!Next]_<<MemMap, DiskMap>>
<1>1. MemMap = {ni.map} /\ MemMap' = {ni'.map}
  BY DEF MemMap
<1>2. ni.map \in Mappings /\ ni'.map \in Mappings
  BY DEF Instances
<1>3. DOMAIN ni.map = LBlocks
  BY <1>2 DEF Mappings
<1> QED BY <1>1, <1>2, <1>3 DEF Durable!Next, Durable!Remap

\* Taking the mapping from the flash is a step of DurableMap.
LEMMA MappingTaken ==
  ASSUME ~Attached, DiskMap' = DiskMap, ni' \in Instances,
         Attached' => DiskMap = {} \/ DiskMap = {ni'.map}
  PROVE  [Durable!Next]_<<MemMap, DiskMap>>
<1>1. MemMap = {} /\ MemMap' = IF Attached' THEN {ni'.map} ELSE {}
  BY DEF MemMap
<1>2. ni'.map \in Mappings
  BY DEF Instances
<1>3. CASE ~Attached'
  BY <1>1, <1>3
<1>4. CASE Attached' /\ DiskMap = {}
  BY <1>1, <1>2, <1>4 DEF Durable!Next, Durable!Create
<1>5. CASE Attached' /\ DiskMap = {ni'.map}
  BY <1>1, <1>5 DEF Durable!Next, Durable!Attach
<1> QED BY <1>3, <1>4, <1>5

\* The driver is attached at all of these sites.
LEMMA Working ==
  ASSUME pc.at \in Writers \union Erasers \union RestSites
  PROVE  Attached
BY DEF Attached, Writers, Erasers, RestSites

\* Every erase and program operation of a table implements DurableMap.
LEMMA DurableFlash ==
  ASSUME TypeInv, Inv, DiskIs, DiskIs', TwoTables, Flash \/ BlockFails
  PROVE  [Durable!Next]_<<MemMap, DiskMap>>
<1>1. ASSUME pc.at \in Writers \union Erasers PROVE Attached
  BY <1>1, Working
<1>2. ASSUME pc'.at \in Writers \union Erasers \union {"return"} PROVE Attached'
  BY <1>2 DEF Attached, Writers, Erasers
<1>3. CASE EraseBlock
  <2>1. pc.at \in Writers \union Erasers
    BY <1>3 DEF EraseBlock
  <2> QED BY <1>1, <1>3, <2>1, EraseDisk, MappingStays
<1>4. CASE BlockFails
  <2>1. pc.at \in Writers \union Erasers
    BY <1>4 DEF BlockFails
  <2> QED BY <1>1, <1>4, <2>1, FailsDisk, MappingStays
<1>5. CASE RangeEnds
  BY <1>1, <1>5, RangeEndsDisk, MappingStays
<1>6. CASE ProgramBlock /\ pc.at # "signature"
  <2>1. /\ DiskMap' = {ni.map} /\ ni'.map = ni.map /\ pc.at \in TableSites
        /\ pc'.at \in Writers \union Erasers \union {"return"}
    BY <1>6, ProgramCommits
  <2>2. pc.at \in Writers \union Erasers
    BY <2>1 DEF TableSites
  <2> QED BY <1>1, <1>2, <2>1, <2>2, MappingCommitted
<1>7. CASE ProgramBlock /\ pc.at = "signature"
  <2>1. DiskMap' = {} /\ DiskMap = {} /\ ni'.map = ni.map
    BY <1>7, SignatureDisk
  <2>2. pc.at \in Writers \union Erasers
    BY <1>7 DEF Writers
  <2> QED BY <1>1, <2>1, <2>2, MappingStays
<1> QED BY <1>3, <1>4, <1>5, <1>6, <1>7 DEF Flash

\* The next pass of nmbm_update_info_table leaves the mapping alone.
LEMMA OnceGoes ==
  ASSUME NEW n \in Instances, NEW p \in Places, p.at = "return"
  PROVE  Goes(UpdateOnce(n, p), n, p)
BY DEF Goes, UpdateOnce, GenCache, WriteMain, RebuildInfoTable, Write, Step, Writers, Instances, Places

\* nmbm_update_info_table and the ends of its callers, of nmbm_create_info_table and
\* of nmbm_load_info_table leave both mappings alone.
LEMMA ReturnDisk ==
  ASSUME TypeInv, Inv, DiskIs, DiskIs', UpdateAgain \/ UpdateDone \/ BuildDone \/ LoadDone
  PROVE  pc.at = "return" /\ flash' = flash /\ DiskMap' = DiskMap /\ ni'.map = ni.map
<1>1. pc.at = "return" /\ flash' = flash
  BY DEF UpdateAgain, UpdateDone, BuildDone, LoadDone
<1>2. ni \in Instances /\ pc \in Places
  BY TypeGives
<1>3. Tabs(flash', badmark') = Tabs(flash, badmark)
  <2>1. CASE ~UpdateDone \/ ~pc.mark
    <3>1. badmark' = badmark
      BY <2>1 DEF UpdateAgain, UpdateDone, BuildDone, LoadDone
    <3> QED BY <1>1, <3>1
  <2>2. CASE UpdateDone /\ pc.mark
    <3>1. badmark' = badmark \union {pc.old}
      BY <2>2 DEF UpdateDone
    <3>2. /\ Covers(flash, badmark, ni)
          /\ pc.old < MgmtStart \/ (ni.top < pc.old /\ pc.old < ni.sig)
      BY <1>1, <2>2 DEF Inv, Fine, OldSafe, RestSites
    <3>3. \A t \in Tabs(flash, badmark) : MgmtStart <= t /\ t < ni.top /\ t \in Nat
      BY <3>2, TypeGives, TabsIs DEF Covers, Fits
    <3>4. pc.old \in Nat /\ ni.top \in Nat /\ MgmtStart \in Nat
      BY <1>2, PlaceIs, InstanceIs, Sizes
    <3>5. pc.old \notin Tabs(flash, badmark)
      BY <3>2, <3>3, <3>4
    <3> QED BY <1>1, <3>1, <3>5 DEF Tabs
  <2> QED BY <2>1, <2>2
<1>4. DiskMap' = DiskMap
  BY <1>1, <1>3, SameTables
<1>5. ni'.map = ni.map
  <2>1. CASE UpdateAgain
    <3>1. ni' = UpdateOnce(ni, pc).ni
      BY <2>1 DEF UpdateAgain, Become
    <3> QED BY <1>1, <1>2, <3>1, OnceGoes DEF Goes
  <2>2. CASE UpdateDone
    <3>1. \/ ni' = ni \/ ni' = NoPool(ni)
      BY <2>2 DEF UpdateDone, Become, Step, UpdateInfoTable, Return, Updates
    <3>2. NoPool(ni).map = ni.map
      BY <1>2 DEF NoPool, Instances
    <3> QED BY <3>1, <3>2
  <2>3. CASE BuildDone
    BY <2>3 DEF BuildDone
  <2>4. CASE LoadDone
    BY <1>2, <2>4 DEF LoadDone, Become, Step, Instances
  <2> QED BY <2>1, <2>2, <2>3, <2>4
<1> QED BY <1>1, <1>4, <1>5

\* The end of every table operation implements DurableMap.
LEMMA DurableReturn ==
  ASSUME TypeInv, Inv, DiskIs, DiskIs', UpdateAgain \/ UpdateDone \/ BuildDone \/ LoadDone
  PROVE  [Durable!Next]_<<MemMap, DiskMap>>
<1>1. pc.at = "return" /\ DiskMap' = DiskMap /\ ni'.map = ni.map
  BY ReturnDisk
<1>2. Attached
  BY <1>1 DEF Attached
<1> QED BY <1>1, <1>2, MappingStays

\* nmbm_create_block_mapping implements DurableMap.
LEMMA DurableCreateMap ==
  ASSUME TypeInv, TypeInv', DiskIs, DiskIs', CreateMap
  PROVE  [Durable!Next]_<<MemMap, DiskMap>>
<1> DEFINE a == MapTo(ni, ni.dcount, Spare(ni))
           m == [a EXCEPT !.dcount = @ + 1]
<1>1. pc.at = "create_map" /\ flash' = flash /\ badmark' = badmark
  BY DEF CreateMap
<1>2. Attached
  BY <1>1 DEF Attached
<1>3. ni \in Instances /\ pc \in Places /\ ni' \in Instances
  BY TypeGives DEF TypeInv, TypeOK
<1>4. DiskMap' = DiskMap
  BY <1>1, SameTables
<1>5. \/ Become(UpdateInfoTable(ni, pc, "create"))
      \/ Become(UpdateInfoTable(ni, pc, "create_nospare"))
      \/ ni.dcount # MgmtStart /\ Become(Step(m, pc))
  BY DEF CreateMap
<1>6. CASE Become(UpdateInfoTable(ni, pc, "create")) \/ Become(UpdateInfoTable(ni, pc, "create_nospare"))
  <2>1. ni' = ni
    BY <1>6 DEF Become, UpdateInfoTable, Return, Step
  <2> QED BY <1>2, <1>4, <2>1, MappingStays
<1>7. CASE ni.dcount # MgmtStart /\ Become(Step(m, pc))
  <2>1. ni' = m /\ pc' = pc
    BY <1>7 DEF Become, Step
  <2>2. ni.dcount \in LBlocks
    <3>1. ni.dcount \in 0 .. MgmtStart
      BY <1>3 DEF Instances
    <3> QED BY <1>7, <3>1, Sizes DEF LBlocks
  <2>3. ni.map \in [LBlocks -> Blocks \union {Unmapped}]
    BY <1>3 DEF Instances, Mappings
  <2>4. m.map = [ni.map EXCEPT ![ni.dcount] = Spare(ni)]
    BY <1>3 DEF MapTo, Instances
  <2>5. \A k \in LBlocks \ {ni.dcount} : ni'.map[k] = ni.map[k]
    BY <2>1, <2>2, <2>3, <2>4
  <2>6. Attached'
    BY <1>1, <2>1 DEF Attached
  <2> QED BY <1>2, <1>3, <1>4, <2>2, <2>5, <2>6, MappingChanges
<1> QED BY <1>5, <1>6, <1>7

\* Neither erasing the new block of a remapped logic block nor copying to it, with
\* success or without, touches a table.
LEMMA RemapStep ==
  ASSUME TypeInv, Inv, RemapErase \/ RemapCopy \/ RemapFails
  PROVE  /\ pc.at \in {"remap_erase", "remap_copy"} /\ badmark' = badmark /\ ni' = ni
         /\ Loses(flash, badmark, flash', badmark) /\ Tabs(flash', badmark) = Tabs(flash, badmark)
<1>1. pc.at \in {"remap_erase", "remap_copy"} /\ badmark' = badmark /\ ni' = ni
  BY DEF RemapErase, RemapCopy, RemapFails, Become, Step, UpdateInfoTable, Return
<1>2. flash \in [Blocks -> Contents]
  BY TypeGives
<1>3. \/ flash' = flash
      \/ Puts(flash', flash, ni.map[pc.lb], Erased) \/ Puts(flash', flash, ni.map[pc.lb], Junk)
      \/ flash[pc.old].kind = "data" /\ Puts(flash', flash, ni.map[pc.lb], flash[pc.old])
  <2>1. CASE RemapErase
    BY <2>1 DEF RemapErase, Puts
  <2>2. CASE RemapFails
    BY <2>2 DEF RemapFails, Puts
  <2>3. CASE RemapCopy /\ flash[pc.old].kind = "data"
    BY <2>3 DEF RemapCopy, Puts
  <2>4. CASE RemapCopy /\ flash[pc.old].kind # "data"
    BY <1>2, <2>4 DEF RemapCopy
  <2> QED BY <2>1, <2>2, <2>3, <2>4
<1>4. /\ Erased.kind # "table" /\ Erased # Signature /\ Junk.kind # "table" /\ Junk # Signature
      /\ flash[pc.old].kind = "data" => flash[pc.old].kind # "table" /\ flash[pc.old] # Signature
  BY DEF Erased, Junk, Signature
<1>5. CASE flash' = flash
  BY <1>1, <1>5 DEF Loses
<1>6. CASE flash' # flash
  BY <1>1, <1>3, <1>4, <1>6, RemapPuts
<1> QED BY <1>1, <1>5, <1>6

\* The operations on the new block of a remap implement DurableMap.
LEMMA DurableRemap ==
  ASSUME TypeInv, Inv, DiskIs, DiskIs', RemapErase \/ RemapCopy \/ RemapFails
  PROVE  [Durable!Next]_<<MemMap, DiskMap>>
<1>1. /\ pc.at \in {"remap_erase", "remap_copy"} /\ badmark' = badmark /\ ni' = ni
      /\ Loses(flash, badmark, flash', badmark) /\ Tabs(flash', badmark) = Tabs(flash, badmark)
  BY RemapStep
<1>2. DiskMap' = DiskMap
  BY <1>1, SameTables DEF Loses
<1>3. Attached
  BY <1>1 DEF Attached
<1> QED BY <1>1, <1>2, <1>3, MappingStays

\* mtk_bmt_mtd_erase and mtk_bmt_write write to a block of the data.
LEMMA WriteDisk ==
  ASSUME TypeInv, Inv, DiskIs, DiskIs', NEW lb \in LBlocks, UserWrite(lb)
  PROVE  DiskMap' = DiskMap
<1>1. /\ pc.at = "idle" /\ badmark' = badmark
      /\ Puts(flash', flash, ni.map[lb], Data(lb, want[lb] + 1))
  BY DEF UserWrite, Puts
<1>2. /\ ni \in Instances /\ flash \in [Blocks -> Contents]
      /\ RestCore(flash, badmark, ni)
  BY <1>1, TypeGives, AtRest DEF Inv, RestSites
<1>3. Data(lb, want[lb] + 1).kind # "table" /\ Data(lb, want[lb] + 1) # Signature
  <2>1. Data(lb, want[lb] + 1).kind = "data" /\ Signature.kind = "signature"
    BY DEF Data, Signature
  <2> QED BY <2>1
<1>4. Loses(flash, badmark, flash', badmark) /\ Tabs(flash', badmark) = Tabs(flash, badmark)
  <2> DEFINE g == flash'
             c == Data(lb, want[lb] + 1)
  <2>1. Puts(g, flash, ni.map[lb], c) /\ c.kind # "table" /\ c # Signature
    BY <1>1, <1>3
  <2> HIDE DEF g, c
  <2>2. ni \in Instances /\ flash \in [Blocks -> Contents]
    BY <1>2
  <2>3. RestCore(flash, badmark, ni)
    BY <1>2
  <2>4. Loses(flash, badmark, g, badmark) /\ Tabs(g, badmark) = Tabs(flash, badmark)
    BY <2>1, <2>2, <2>3, DataWritten
  <2> QED BY <2>4 DEF g
<1> QED BY <1>1, <1>4, SameTables DEF Loses

\* remap_block_nmbm marks a block of the data, at most.
LEMMA RemapDisk ==
  ASSUME TypeInv, Inv, DiskIs, DiskIs', NEW lb \in LBlocks, NEW copy \in BOOLEAN,
         NEW mark \in BOOLEAN, Remap(lb, copy, mark)
  PROVE  DiskMap' = DiskMap
<1> DEFINE old == ni.map[lb]
<1>1. /\ pc.at = "idle" /\ old # Unmapped /\ flash' = flash
      /\ badmark' = badmark \/ badmark' = badmark \union {old}
  BY DEF Remap
<1>2. /\ ni \in Instances /\ flash \in [Blocks -> Contents]
      /\ RestCore(flash, badmark, ni)
  BY <1>1, TypeGives, AtRest DEF Inv, RestSites
<1>3. /\ old \in Blocks
      /\ old < MgmtStart \/ (ni.top < old /\ old < ni.sig)
  BY <1>1, <1>2, MappedBlock
<1> HIDE DEF old
<1>4. old \notin Tabs(flash, badmark)
  BY <1>2, <1>3, DataBlock
<1>5. Tabs(flash', badmark') = Tabs(flash, badmark)
  BY <1>1, <1>4 DEF Tabs
<1> QED BY <1>1, <1>5, SameTables

\* What remap_block_nmbm does to the mapping in memory.
LEMMA RemapMaps ==
  ASSUME TypeInv, NEW lb \in LBlocks, NEW copy \in BOOLEAN, NEW mark \in BOOLEAN,
         Remap(lb, copy, mark)
  PROVE  \A k \in LBlocks \ {lb} : ni'.map[k] = ni.map[k]
<1> DEFINE n == SetBad(ni, {ni.map[lb]})
<1>1. ni' = n \/ ni' = MapTo(n, lb, Spare(n))
  BY DEF Remap, Become, Step, UpdateInfoTable, Return
<1>2. n \in Instances /\ n.map = ni.map
  BY TypeGives, SetBadIs
<1> HIDE DEF n
<1>3. MapTo(n, lb, Spare(n)).map = [n.map EXCEPT ![lb] = Spare(n)]
  BY <1>2 DEF MapTo, Instances
<1>4. ni.map \in [LBlocks -> Blocks \union {Unmapped}]
  BY TypeGives DEF Instances, Mappings
<1> QED BY <1>1, <1>2, <1>3, <1>4

\* mtk_bmt_mtd_erase, mtk_bmt_write and remap_block_nmbm.
LEMMA DurableUser ==
  ASSUME TypeInv, TypeInv', Inv, DiskIs, DiskIs', User
  PROVE  [Durable!Next]_<<MemMap, DiskMap>>
<1>1. pc.at = "idle"
  BY DEF User, UserWrite, Remap
<1>2. Attached /\ ni \in Instances /\ ni' \in Instances
  BY <1>1, TypeGives DEF Attached, TypeInv, TypeOK
<1>3. ASSUME NEW lb \in LBlocks, UserWrite(lb) PROVE [Durable!Next]_<<MemMap, DiskMap>>
  <2>1. ni' = ni /\ DiskMap' = DiskMap
    BY <1>3, WriteDisk DEF UserWrite
  <2> QED BY <1>2, <2>1, MappingStays
<1>4. ASSUME NEW lb \in LBlocks, NEW copy \in BOOLEAN, NEW mark \in BOOLEAN,
             Remap(lb, copy, mark)
      PROVE  [Durable!Next]_<<MemMap, DiskMap>>
  <2>1. DiskMap' = DiskMap /\ \A k \in LBlocks \ {lb} : ni'.map[k] = ni.map[k]
    BY <1>4, RemapDisk, RemapMaps
  <2>2. pc'.at \in {"idle", "return", "remap_erase"}
    BY <1>4 DEF Remap, Become, Step, Rest, UpdateInfoTable, Return
  <2>3. Attached'
    BY <2>2 DEF Attached
  <2> QED BY <1>2, <2>1, <2>3, MappingChanges
<1> QED BY <1>3, <1>4 DEF User

\* nmbm_load_info_table takes the mapping from the flash.
LEMMA LoadDisk ==
  ASSUME TypeInv, Inv, DiskIs, DiskIs', AttachLoad
  PROVE  /\ DiskMap' = DiskMap /\ DiskMap = {ni'.map} /\ ~ni'.protected /\ pc'.ret = "load"
         /\ pc'.at \in {"rescue_front", "return", "single_main", "single_backup"}
<1>1. flash' = flash /\ badmark' = badmark
  BY DEF AttachLoad
<1>2. DiskMap' = DiskMap
  BY <1>1, SameTables
<1>3. PICK sig \in SignatureBlock, m \in FirstTable, ecc \in EccErrors :
        Become(LoadInfoTable(ecc, sig, m))
  BY DEF AttachLoad
<1>4. PICK n : Loaded(n, ecc, sig, m) /\ LoadGoesOn(n, ecc, sig, m)
  BY LoadIs
<1>5. /\ LoadNewest(m) \in Tabs(flash, badmark)
      /\ \A t \in Tabs(flash, badmark) : Older(flash[t], flash[LoadNewest(m)])
  BY SearchFinds DEF Searched, Inv
<1>6. PICK t \in Tabs(flash, badmark) :
        DiskMap = {flash[t].map} /\ \A s \in Tabs(flash, badmark) : Older(flash[s], flash[t])
  BY <1>5 DEF DiskIs
<1>7. flash[t] = flash[LoadNewest(m)]
  BY <1>5, <1>6, TypeGives, TabsIs, OlderBoth
<1>8. n \in Instances /\ n.map = flash[LoadNewest(m)].map /\ ~n.protected
  BY <1>4 DEF Loaded
<1> DEFINE s == LoadInfoTable(ecc, sig, m)
<1>9. /\ s.ni.map = n.map /\ s.ni.protected = n.protected /\ s.pc.ret = "load"
      /\ s.pc.at \in {"rescue_front", "return", "single_main", "single_backup"}
  BY <1>4, <1>8 DEF LoadGoesOn, RescueSingle, Return, UpdateSingle, Write, Step, Rest, Instances
<1>10. ni' = s.ni /\ pc' = s.pc
  BY <1>3 DEF Become
<1> HIDE DEF s
<1> QED BY <1>2, <1>6, <1>7, <1>8, <1>9, <1>10

\* Without a table on the flash there is no mapping.
LEMMA CreateDisk ==
  ASSUME TypeInv, Inv, DiskIs, AttachCreate \/ AttachRebuild \/ AttachFails
  PROVE  DiskMap = {}
<1>1. CASE AttachCreate
  <2>1. SignatureBlock = {} /\ DiskOK(flash, badmark)
    BY <1>1 DEF AttachCreate, Inv
  <2>2. Tabs(flash, badmark) = {}
    BY <2>1, SignFound DEF DiskOK
  <2> QED BY <2>2 DEF DiskIs
<1>2. CASE AttachRebuild \/ AttachFails
  <2>1. FirstTable = {} /\ DiskOK(flash, badmark)
    BY <1>2 DEF AttachRebuild, AttachFails, Inv
  <2>2. Tabs(flash, badmark) = {}
    BY <2>1, NoneFound
  <2> QED BY <2>2 DEF DiskIs
<1> QED BY <1>1, <1>2

\* nmbm_attach: with a table on the flash, its mapping is taken over.
LEMMA DurableAttach ==
  ASSUME TypeInv, TypeInv', Inv, DiskIs, DiskIs', Attach
  PROVE  [Durable!Next]_<<MemMap, DiskMap>>
<1>1. pc.at = "off" /\ flash' = flash /\ badmark' = badmark
  BY DEF Attach, AttachLoad, AttachCreate, AttachRebuild, AttachFails
<1>2. ~Attached /\ ni' \in Instances
  BY <1>1 DEF Attached, TypeInv, TypeOK
<1>3. DiskMap' = DiskMap
  BY <1>1, SameTables
<1> QED BY <1>2, <1>3, LoadDisk, CreateDisk, MappingTaken DEF Attach

\* The power goes away: the mapping on the flash is still the one before.
LEMMA CrashDisk ==
  ASSUME TypeInv, Inv, DiskIs, DiskIs', TwoTables, Crash
  PROVE  DiskMap' = DiskMap
<1>1. /\ badmark' = badmark
      /\ flash' = flash \/ \E b \in InFlight : Puts(flash', flash, b, Junk)
  BY DEF Crash, Puts
<1>2. Junk.kind # "table" /\ Junk # Signature
  BY DEF Junk, Signature
<1>3. CASE flash' = flash
  BY <1>1, <1>3, SameTables
<1>4. ASSUME NEW b \in InFlight, Puts(flash', flash, b, Junk) PROVE DiskMap' = DiskMap
  <2>1. CASE pc.at \in {"remap_erase", "remap_copy"}
    <3>1. b = ni.map[pc.lb]
      BY <2>1 DEF InFlight, Writers, Erasers
    <3>2. Loses(flash, badmark, flash', badmark) /\ Tabs(flash', badmark) = Tabs(flash, badmark)
      BY <1>2, <1>4, <2>1, <3>1, RemapPuts
    <3> QED BY <1>1, <3>2, SameTables DEF Loses
  <2>2. CASE pc.at \in Writers \union Erasers
    <3>1. Usable # {} /\ b = Block
      BY <2>2 DEF InFlight
    <3>2. badmark \subseteq badmark' /\ badmark' \subseteq badmark \union {Block}
      BY <1>1
    <3>3. /\ Loses(flash, badmark, flash', badmark')
          /\ Tabs(flash', badmark') = Tabs(flash, badmark) \ {Block}
      BY <1>2, <1>4, <2>2, <3>1, <3>2, BlockLost
    <3> QED BY <2>2, <3>1, <3>3, LossKeeps
  <2>3. pc.at \in {"remap_erase", "remap_copy"} \/ pc.at \in Writers \union Erasers
    BY DEF InFlight
  <2> QED BY <2>1, <2>2, <2>3
<1> QED BY <1>1, <1>3, <1>4

\* Losing power implements DurableMap.
LEMMA DurableCrash ==
  ASSUME TypeInv, TypeInv', Inv, DiskIs, DiskIs', TwoTables, Crash
  PROVE  [Durable!Next]_<<MemMap, DiskMap>>
<1>1. DiskMap' = DiskMap
  BY CrashDisk
<1>2. pc' = Rest("off")
  BY DEF Crash
<1>3. ~Attached' /\ ni' \in Instances
  BY <1>2 DEF Attached, Rest, TypeInv, TypeOK
<1> QED BY <1>1, <1>3, MappingStays, MappingTaken

\* A new chip is an initial state of DurableMap.
LEMMA DurableInit == Init => Durable!Init
<1> SUFFICES ASSUME Init PROVE Durable!Init
  OBVIOUS
<1>1. TypeInv /\ Inv
  BY TypeInit, InvInit
<1>2. DiskIs
  BY <1>1, DiskRead DEF Inv
<1>3. Tabs(flash, badmark) = {}
  <2>1. flash = [b \in Blocks |-> Erased] /\ Erased.kind # "table"
    BY DEF Init, Erased
  <2> QED BY <2>1, Sizes DEF Tabs
<1>4. DiskMap = {}
  BY <1>2, <1>3 DEF DiskIs
<1>5. MemMap = {}
  BY DEF Init, MemMap, Attached, Rest
<1> QED BY <1>4, <1>5 DEF Durable!Init

\* Every step implements a step of DurableMap, or leaves it alone.
LEMMA DurableNext ==
  ASSUME TypeInv, TypeInv', Inv, Inv', TwoTables, [Next]_vars
  PROVE  [Durable!Next]_<<MemMap, DiskMap>>
<1>1. DiskIs /\ DiskIs'
  BY DiskRead, DiskReadNext DEF Inv
<1>2. CASE UNCHANGED vars
  <2>1. ni' = ni /\ pc' = pc /\ flash' = flash /\ badmark' = badmark
    BY <1>2 DEF vars
  <2>2. DiskMap' = DiskMap
    BY <1>1, <2>1, SameTables
  <2>3. MemMap' = MemMap
    BY <2>1 DEF MemMap, Attached
  <2> QED BY <2>2, <2>3
<1>3. CASE Flash \/ BlockFails
  BY <1>1, <1>3, DurableFlash
<1>4. CASE UpdateAgain \/ UpdateDone \/ BuildDone \/ LoadDone
  BY <1>1, <1>4, DurableReturn
<1>5. CASE CreateMap
  BY <1>1, <1>5, DurableCreateMap
<1>6. CASE RemapErase \/ RemapCopy \/ RemapFails
  BY <1>1, <1>6, DurableRemap
<1>7. CASE User
  BY <1>1, <1>7, DurableUser
<1>8. CASE Attach
  BY <1>1, <1>8, DurableAttach
<1>9. CASE Crash
  BY <1>1, <1>9, DurableCrash
<1> QED BY <1>2, <1>3, <1>4, <1>5, <1>6, <1>7, <1>8, <1>9 DEF Next, Driver

\* Main and backup table together are one durable mapping: the driver implements
\* DurableMap, step by step, through every erase, write, failure, rescue and power loss,
\* as long as no bad block of the pool is skipped and no single table is rewritten in
\* place.
THEOREM TablesDurable == Spec /\ []TakesTop /\ []TwoTables => DurableSpec
<1>1. Init => Durable!Init
  BY DurableInit
<1>2. /\ TypeInv /\ Inv /\ TwoTables /\ (TypeInv /\ Inv)' /\ [Next]_vars
      => [Durable!Next]_<<MemMap, DiskMap>>
  BY DurableNext
<1> QED BY <1>1, <1>2, TablesKept, PTL DEF Spec, DurableSpec, Durable!Spec

-----------------------------------------------------------------------------
(* The data. *)

Stored(f, w, v, lb) == v[lb] # Unmapped /\ f[v[lb]] = Data(lb, w[lb])

RemapSites == {"remap_erase", "remap_copy"}
Moving(lb) == pc.at \in RemapSites /\ pc.lb = lb

\* nmbm_create_info_table is running.
Making ==
  \/ pc.at = "create_map"
  \/ /\ pc.at \in Writers \union Erasers \union {"return"}
     /\ pc.ret \in {"build", "create", "create_nospare"}

\* The data of lb is where the mapping on the flash and the one in memory have it; while
\* lb is remapped it is still in the old block.
Kept(lb) ==
  /\ ~Making /\ pc.at # "dead"
  /\ DiskMap # {} /\ \A v \in DiskMap : Stored(flash, want, v, lb)
  /\ Attached /\ ~Moving(lb) => Stored(flash, want, ni.map, lb)
  /\ Moving(lb) => pc.copy /\ flash[pc.old] = Data(lb, want[lb])

DataKept == \A lb \in LBlocks : want[lb] # 0 => Kept(lb)

\* The mapping on the flash is the one in memory whenever data may be written.
Settled ==
  /\ pc.at = "rebuild_main" => pc.ret = "build"
  /\ pc.at = "idle" => DiskMap = {ni.map}
  /\ pc.at \in TableSites \union {"return"} /\ pc.ret = "load" => DiskMap = {ni.map}
  /\ Attached /\ ni.protected => pc.at = "idle" \/ (pc.at = "return" /\ pc.ret = "build")
  /\ pc.at \in RemapSites =>
       /\ pc.old # ni.map[pc.lb] /\ ni.map[pc.lb] # Unmapped
       /\ \A v \in DiskMap : \A i \in LBlocks : v[i] # ni.map[pc.lb]

DataInv == DataKept /\ Settled

\* No mapping leads to a block of the tables or of the pool.
LEMMA DataAbove ==
  ASSUME TypeInv, Inv, DiskIs, pc.at \in TableSites \union RestSites,
         NEW v, v = ni.map \/ v \in DiskMap, NEW i \in LBlocks, v[i] # Unmapped
  PROVE  v[i] \in Blocks /\ v[i] \in Nat /\ (v[i] < MgmtStart \/ ni.top < v[i])
<1>1. flash \in [Blocks -> Contents] /\ ni \in Instances
  BY TypeGives
<1>2. Covers(flash, badmark, ni)
  BY DEF Inv, Fine
<1>3. v \in Mappings /\ MapFits(v, ni.top, ni.sig)
  <2>1. CASE v = ni.map
    BY <1>1, <1>2, <2>1, InstanceIs DEF Covers
  <2>2. CASE v \in DiskMap
    <3>1. PICK t \in Tabs(flash, badmark) : v = flash[t].map
      BY <2>2 DEF DiskIs
    <3>2. MapFits(flash[t].map, ni.top, ni.sig)
      BY <1>2 DEF Covers, Fits
    <3> QED BY <1>1, <3>1, <3>2, TabsIs
  <2> QED BY <2>1, <2>2
<1>4. v[i] \in Blocks /\ v[i] \in Nat
  BY <1>3, MapIs, Sizes
<1>5. v[i] >= MgmtStart => ni.top < v[i]
  BY <1>3 DEF MapFits
<1> QED BY <1>4, <1>5, Sizes

\* A table is written below mapping_blocks_top_ba.
LEMMA WritesBelow ==
  ASSUME TypeInv, Inv, pc.at \in TableSites
  PROVE  /\ Usable # {} => MgmtStart <= Block /\ Block < ni.top /\ Block \in Blocks /\ Block \in Nat
         /\ pc.prog => MgmtStart <= pc.ba /\ pc.ba < ni.top /\ pc.ba \in Blocks /\ pc.ba \in Nat
<1>1. flash \in [Blocks -> Contents] /\ ni \in Instances /\ pc \in Places /\ InRange(pc)
  BY TypeGives
<1>2. Base(flash, badmark, ni, pc) /\ Site(flash, badmark, ni, pc)
  BY AtSite DEF Inv
<1>3. pc.limit <= ni.top /\ MgmtStart <= pc.ba
  BY <1>1, <1>2, LimitIs, AreaIs
<1>4. pc.ba \in Nat /\ pc.limit \in Nat /\ pc.limit \in Blocks /\ ni.top \in Nat /\ MgmtStart \in Nat
  BY <1>1, PlaceIs, InstanceIs, Sizes
<1>5. ASSUME Usable # {}
      PROVE  MgmtStart <= Block /\ Block < ni.top /\ Block \in Blocks /\ Block \in Nat
  <2>1. Block \in Blocks /\ Block \in Nat /\ Block \in pc.ba .. pc.limit - 1
    BY <1>5, BlockIs DEF FirstUsable
  <2> QED BY <1>3, <1>4, <2>1
<1>6. ASSUME pc.prog
      PROVE  MgmtStart <= pc.ba /\ pc.ba < ni.top /\ pc.ba \in Blocks /\ pc.ba \in Nat
  <2>1. pc.ba < pc.limit
    BY <1>1, <1>6 DEF InRange, TableSites
  <2>2. pc.ba \in Blocks
    BY <1>4, <2>1, BlockBounds
  <2> QED BY <1>3, <1>4, <2>1, <2>2
<1> QED BY <1>5, <1>6

\* What a step of a table write does.
Onward ==
  /\ ni'.map = ni.map /\ pc'.ret = pc.ret /\ want' = want
  /\ pc'.at \in Writers \union Erasers \union {"return"}
  /\ pc'.at = "rebuild_main" => pc.at = "rebuild_main"
  /\ pc.at # "rebuild_main" => ni'.protected = ni.protected
  /\ DiskMap' = DiskMap \/ DiskMap' = {ni.map}
  /\ \A b \in Blocks : b < MgmtStart \/ ni.top < b => flash'[b] = flash[b]

\* Writing below the pool leaves all blocks with data alone.
LEMMA OneBlockPut ==
  ASSUME TypeInv, NEW b \in Nat, NEW c, Puts(flash', flash, b, c), MgmtStart <= b, b < ni.top
  PROVE  \A d \in Blocks : d < MgmtStart \/ ni.top < d => flash'[d] = flash[d]
<1>1. flash \in [Blocks -> Contents] /\ ni.top \in Nat /\ MgmtStart \in Nat
  BY TypeGives, InstanceIs, Sizes
<1>2. \A d \in Blocks : d \in Nat
  BY Sizes
<1>3. \A d \in Blocks : d # b => flash'[d] = flash[d]
  BY <1>1 DEF Puts
<1> QED BY <1>1, <1>2, <1>3

\* Erasing for a table leaves the data and the mapping in memory alone.
LEMMA EraseOnward ==
  ASSUME TypeInv, Inv, DiskIs, DiskIs', TwoTables, pc.at \in TableSites, EraseBlock \/ BlockFails
  PROVE  Onward
<1>1. DiskMap' = DiskMap /\ ni'.map = ni.map /\ pc'.at = pc.at
  BY EraseDisk, FailsDisk
<1>2. Usable # {} /\ want' = want /\ \E c : Puts(flash', flash, Block, c)
  BY DEF EraseBlock, BlockFails, Puts
<1>3. MgmtStart <= Block /\ Block < ni.top /\ Block \in Nat
  BY <1>2, WritesBelow
<1>4. \A d \in Blocks : d < MgmtStart \/ ni.top < d => flash'[d] = flash[d]
  BY <1>2, <1>3, OneBlockPut
<1>5. pc'.ret = pc.ret
  BY TypeGives DEF EraseBlock, BlockFails, Places
<1>6. ni'.protected = ni.protected
  <2> DEFINE m == Skipped(ni)
  <2>1. m \in Instances /\ m.protected = ni.protected
    BY SkippedWorn
  <2>2. ni' = m \/ ni' = SetBad(m, {Block})
    BY DEF EraseBlock, BlockFails
  <2> HIDE DEF m
  <2> QED BY <2>1, <2>2, SetBadIs
<1>7. pc'.at \in Writers \union Erasers \union {"return"}
  BY <1>1 DEF TableSites
<1> QED BY <1>1, <1>2, <1>4, <1>5, <1>6, <1>7 DEF Onward

\* A table is rebuilt on a new chip only.
LEMMA NoRebuild ==
  ASSUME TypeInv, Inv, TwoTables, pc.at \in TableSites,
         NEW n, n.main = ni.main, n.backup = ni.backup, NEW s, Goes(s, n, pc)
  PROVE  s.pc.at # "rebuild_main"
<1>1. pc.at # "return"
  BY DEF TableSites, Writers, Erasers
<1>2. pc.at = "update_backup" => ni.main # None
  <2>1. pc.at = "update_backup" => ni.main \in Tabs(flash, badmark)
    BY AtSite DEF Inv, Site, AtUpdateBackup
  <2> QED BY <2>1, TypeGives, TabsIs
<1> QED BY <1>1, <1>2 DEF Goes, TwoTables

\* So does writing a table.
LEMMA WriteOnward ==
  ASSUME TypeInv, Inv, DiskIs, DiskIs', TwoTables, pc.at \in TableSites, ProgramBlock \/ RangeEnds
  PROVE  Onward
<1>1. CASE ProgramBlock
  <2>1. pc.at # "signature"
    BY DEF TableSites
  <2>2. DiskMap' = {ni.map}
    BY <1>1, <2>1, ProgramCommits
  <2>3. /\ pc.prog /\ want' = want /\ \E c : Puts(flash', flash, pc.ba, c)
        /\ Become(WriteNext(ni, pc, TRUE, pc.ba))
    BY <1>1 DEF ProgramBlock, Puts
  <2>4. MgmtStart <= pc.ba /\ pc.ba < ni.top /\ pc.ba \in Nat
    BY <2>3, WritesBelow
  <2>5. \A d \in Blocks : d < MgmtStart \/ ni.top < d => flash'[d] = flash[d]
    BY <2>3, <2>4, OneBlockPut
  <2> DEFINE s == WriteNext(ni, pc, TRUE, pc.ba)
  <2>6. pc.at \in Writers \ {"signature"}
    BY <2>1, <2>3, TypeGives DEF InRange
  <2>7. Goes(s, ni, pc)
    BY <2>6, TypeGives, WriteGoes
  <2>8. ni' = s.ni /\ pc' = s.pc
    BY <2>3 DEF Become
  <2> HIDE DEF s
  <2>9. s.pc.at # "rebuild_main"
    BY <2>7, NoRebuild
  <2> QED BY <2>2, <2>3, <2>5, <2>7, <2>8, <2>9 DEF Onward, Goes
<1>2. CASE RangeEnds
  <2> DEFINE m == Skipped(ni)
             s == IF pc.at \in Erasers THEN EraseNext(m, pc) ELSE WriteNext(m, pc, FALSE, None)
  <2>1. DiskMap' = DiskMap
    BY <1>2, RangeEndsDisk
  <2>2. flash' = flash /\ want' = want /\ ni' = s.ni /\ pc' = s.pc
    BY <1>2 DEF RangeEnds, Become
  <2>3. /\ m \in Instances /\ m.map = ni.map /\ m.main = ni.main /\ m.backup = ni.backup
        /\ m.protected = ni.protected /\ pc \in Places
    BY SkippedWorn, TypeGives
  <2> HIDE DEF m
  <2>4. Goes(s, m, pc)
    <3>1. CASE pc.at \in Erasers
      BY <2>3, <3>1 DEF Goes, EraseNext, Clean, Return, Step, Instances, Places
    <3>2. CASE pc.at \notin Erasers
      <4>1. pc.at \in Writers \ {"signature"}
        BY <3>2 DEF TableSites
      <4> QED BY <2>3, <3>2, <4>1, WriteGoes
    <3> QED BY <3>1, <3>2
  <2> HIDE DEF s
  <2>5. s.pc.at # "rebuild_main"
    BY <2>3, <2>4, NoRebuild
  <2> QED BY <2>1, <2>2, <2>3, <2>4, <2>5 DEF Onward, Goes
<1> QED BY <1>1, <1>2

\* Without a mapping on the flash there is no data.
LEMMA NoData ==
  ASSUME DataKept, want' = want, DiskMap = {} \/ Making
  PROVE  DataKept'
<1>1. \A lb \in LBlocks : want[lb] = 0
  BY DEF DataKept, Kept
<1> QED BY <1>1 DEF DataKept

\* Data in blocks that are not written stays.
LEMMA StoredOn ==
  ASSUME NEW v, NEW lb \in LBlocks, Stored(flash, want, v, lb),
         flash'[v[lb]] = flash[v[lb]], want'[lb] = want[lb]
  PROVE  Stored(flash', want', v, lb)
BY DEF Stored

\* The data are kept by a step that leaves them and the mapping in memory alone.
LEMMA KeptOn ==
  ASSUME DataKept, want' = want, Attached, pc.at \notin RemapSites,
         pc'.at \notin RemapSites \union {"dead"}, Making' => Making,
         DiskMap' = DiskMap \/ DiskMap' = {ni.map},
         Attached' => ni'.map = ni.map,
         \A v \in DiskMap \union {ni.map} : \A i \in LBlocks :
           v[i] # Unmapped => flash'[v[i]] = flash[v[i]]
  PROVE  DataKept'
<1> SUFFICES ASSUME NEW lb \in LBlocks, want[lb] # 0 PROVE Kept(lb)'
  BY DEF DataKept
<1>1. /\ ~Making /\ DiskMap # {}
      /\ \A v \in DiskMap : Stored(flash, want, v, lb)
      /\ Stored(flash, want, ni.map, lb)
  BY DEF DataKept, Kept, Moving
<1>2. \A v \in DiskMap \union {ni.map} : Stored(flash', want', v, lb)
  <2>1. ASSUME NEW v \in DiskMap \union {ni.map} PROVE Stored(flash', want', v, lb)
    <3>1. Stored(flash, want, v, lb)
      BY <1>1, <2>1
    <3>2. flash'[v[lb]] = flash[v[lb]]
      BY <3>1 DEF Stored
    <3> QED BY <3>1, <3>2, StoredOn
  <2> QED BY <2>1
<1>3. ~Moving(lb)'
  BY DEF Moving
<1>4. \A v \in DiskMap' : Stored(flash', want', v, lb)
  BY <1>2
<1>5. Attached' => Stored(flash', want', ni'.map, lb)
  BY <1>2
<1>6. DiskMap' # {}
  BY <1>1
<1>7. ~Making' /\ pc'.at # "dead"
  BY <1>1
<1> QED BY <1>3, <1>4, <1>5, <1>6, <1>7 DEF Kept

\* A step of a table operation keeps the invariant of the data.
LEMMA OnwardData ==
  ASSUME TypeInv, Inv, Inv', DiskIs, DataInv, pc.at \in TableSites \union {"return"},
         pc.at = "return" => ~ni.protected, Onward
  PROVE  DataInv'
<1>1. DataKept /\ Settled
  BY DEF DataInv
<1>2. /\ ni'.map = ni.map /\ pc'.ret = pc.ret /\ want' = want
      /\ pc'.at \in Writers \union Erasers \union {"return"}
      /\ pc'.at = "rebuild_main" => pc.at = "rebuild_main"
      /\ pc.at # "rebuild_main" => ni'.protected = ni.protected
      /\ DiskMap' = DiskMap \/ DiskMap' = {ni.map}
      /\ \A b \in Blocks : b < MgmtStart \/ ni.top < b => flash'[b] = flash[b]
  BY DEF Onward
<1>3. DataKept'
  <2>1. Attached /\ pc.at \notin RemapSites /\ pc'.at \notin RemapSites \union {"dead"}
    BY <1>2 DEF Attached, TableSites, RemapSites, Writers, Erasers
  <2>2. Making' => Making
    BY <1>2 DEF Making, TableSites, Writers, Erasers
  <2>3. \A v \in DiskMap \union {ni.map} : \A i \in LBlocks :
          v[i] # Unmapped => flash'[v[i]] = flash[v[i]]
    <3>1. pc.at \in TableSites \union RestSites
      BY DEF RestSites
    <3> QED BY <1>2, <3>1, DataAbove
  <2> QED BY <1>1, <1>2, <2>1, <2>2, <2>3, KeptOn
<1>4. ~ni'.protected \/ (pc'.at = "return" /\ pc'.ret = "build")
  <2>1. CASE pc.at # "rebuild_main"
    <3>1. pc.at \in TableSites => ~ni.protected
      BY DEF Inv, Fine, Writing
    <3> QED BY <1>2, <2>1, <3>1
  <2>2. CASE pc.at = "rebuild_main" /\ pc'.at # "return"
    <3>1. pc'.at = "signature" \/ pc'.at \in TableSites
      BY <1>2, <2>2 DEF TableSites
    <3>2. pc'.at = "signature" => ~ni'.protected
      BY DEF Inv, Fine, Unsigned
    <3>3. pc'.at \in TableSites => ~ni'.protected
      BY DEF Inv, Fine, Writing
    <3> QED BY <3>1, <3>2, <3>3
  <2>3. CASE pc.at = "rebuild_main" /\ pc'.at = "return"
    BY <1>1, <1>2, <2>3 DEF Settled
  <2> QED BY <2>1, <2>2, <2>3
<1>5. pc'.at = "rebuild_main" => pc'.ret = "build"
  BY <1>1, <1>2 DEF Settled
<1>6. pc'.ret = "load" => DiskMap' = {ni'.map}
  BY <1>1, <1>2 DEF Settled
<1>7. pc'.at # "idle" /\ pc'.at \notin RemapSites
  BY <1>2 DEF RemapSites, Writers, Erasers
<1>8. Settled'
  BY <1>4, <1>5, <1>6, <1>7 DEF Settled
<1> QED BY <1>3, <1>8 DEF DataInv

\* Settled, while a new chip gets its signature and tables.
LEMMA SettledNew ==
  ASSUME Inv',
         pc'.at = "signature" \/ pc'.at = "dead" \/ (pc'.at = "rebuild_main" /\ pc'.ret = "build")
  PROVE  Settled'
<1>1. pc'.at = "signature" => ~ni'.protected
  BY DEF Inv, Fine, Unsigned
<1>2. pc'.at = "rebuild_main" => ~ni'.protected
  BY SiteIn DEF Inv, Fine, Writing
<1>3. Attached' => ~ni'.protected
  BY <1>1, <1>2 DEF Attached
<1>4. pc'.at \notin RemapSites \union {"idle", "return"}
  BY DEF RemapSites
<1>5. pc'.at = "rebuild_main" => pc'.ret = "build"
  OBVIOUS
<1>6. pc'.at \in TableSites => pc'.ret # "load"
  BY DEF TableSites, Writers, Erasers
<1> QED BY <1>3, <1>4, <1>5, <1>6 DEF Settled

\* Steps of the writing of a signature, on a chip without data.
LEMMA SignatureData ==
  ASSUME TypeInv, Inv, Inv', DiskIs, DiskIs', DataInv, pc.at = "signature",
         Flash \/ BlockFails, TwoTables
  PROVE  DataInv'
<1>1. DataKept /\ Settled
  BY DEF DataInv
<1>2. Tabs(flash, badmark) = {}
  BY DEF Inv, Fine, Unsigned
<1>3. DiskMap = {} /\ want' = want
  BY <1>2 DEF DiskIs, Flash, EraseBlock, ProgramBlock, RangeEnds, BlockFails
<1>4. DataKept'
  BY <1>1, <1>3, NoData
<1>5. pc'.at = "signature" \/ pc'.at = "dead" \/ (pc'.at = "rebuild_main" /\ pc'.ret = "build")
  <2>1. CASE EraseBlock \/ BlockFails
    BY <2>1, TypeGives DEF EraseBlock, BlockFails, Places
  <2>2. CASE ProgramBlock \/ RangeEnds
    <3>1. pc'.at \in {"rebuild_main", "dead"}
      BY <2>2, SignatureDisk, RangeEndsDisk
    <3>2. \E n, ok, ts : pc' = WriteNext(n, pc, ok, ts).pc
      <4>1. CASE ProgramBlock
        BY <4>1 DEF ProgramBlock, Become
      <4>2. CASE RangeEnds
        <5>1. pc' = WriteNext(Skipped(ni), pc, FALSE, None).pc
          BY <4>2 DEF RangeEnds, Become, Erasers
        <5> QED BY <5>1
      <4> QED BY <2>2, <4>1, <4>2
    <3>3. PICK n, ok, ts : pc' = SignatureNext(n, pc, ok, ts).pc
      BY <3>2 DEF WriteNext
    <3>4. pc'.at = "dead" \/ pc'.ret = "build"
      BY <3>3, TypeGives DEF SignatureNext, CreateInfoTable, RebuildInfoTable, Write, Step, Rest, Places
    <3> QED BY <3>1, <3>4
  <2> QED BY <2>1, <2>2 DEF Flash
<1> QED BY <1>4, <1>5, SettledNew DEF DataInv

\* Every erase and program operation of a table keeps the invariant of the data.
LEMMA FlashData ==
  ASSUME TypeInv, Inv, Inv', DiskIs, DiskIs', TwoTables, DataInv, Flash \/ BlockFails
  PROVE  DataInv'
<1>1. pc.at \in Writers \union Erasers
  BY TypeGives DEF Flash, EraseBlock, ProgramBlock, RangeEnds, BlockFails, InRange
<1>2. CASE pc.at = "signature"
  BY <1>2, SignatureData
<1>3. CASE pc.at # "signature"
  <2>1. pc.at \in TableSites
    BY <1>1, <1>3 DEF TableSites
  <2>2. Onward
    BY <2>1, EraseOnward, WriteOnward DEF Flash
  <2>3. pc.at # "return"
    BY <1>1 DEF Writers, Erasers
  <2> QED BY <2>1, <2>2, <2>3, OnwardData
<1> QED BY <1>2, <1>3

\* When the driver is idle after a step, its mapping is the one on the flash.
LEMMA AlwaysWrittenNext == (TypeInv /\ Inv)' => Persisted'
BY AlwaysWritten, PTL

\* The loop of nmbm_update_info_table keeps the invariant of the data.
LEMMA UpdateAgainData ==
  ASSUME TypeInv, Inv, Inv', DiskIs, DiskIs', DataInv, UpdateAgain
  PROVE  DataInv'
<1> DEFINE s == UpdateOnce(ni, pc)
<1>1. /\ pc.at = "return" /\ ~ni.protected /\ ni' = s.ni /\ pc' = s.pc
      /\ flash' = flash /\ want' = want
  BY DEF UpdateAgain, MustUpdate, Become
<1>2. Goes(s, ni, pc)
  BY <1>1, TypeGives, OnceGoes
<1>3. DiskMap' = DiskMap
  BY ReturnDisk
<1>4. ni.main # None
  <2>1. ni.main \in Tabs(flash, badmark)
    BY <1>1, AtRest DEF Inv, RestSites, RestCore
  <2> QED BY <2>1, TypeGives, TabsIs
<1> HIDE DEF s
<1>5. Onward
  BY <1>1, <1>2, <1>3, <1>4 DEF Onward, Goes
<1> QED BY <1>1, <1>5, OnwardData

\* A step that leaves the flash and the mapping alone.
LEMMA SameData ==
  ASSUME DataKept, want' = want, flash' = flash, DiskMap' = DiskMap, ni'.map = ni.map,
         pc.at = "return", pc'.at = "idle"
  PROVE  DataKept'
<1>1. Attached /\ pc.at \notin RemapSites /\ pc'.at \notin RemapSites \union {"dead"}
  BY DEF Attached, RemapSites
<1>2. Making' => Making
  BY DEF Making, Writers, Erasers
<1> QED BY <1>1, <1>2, KeptOn

\* Settled, for the places between the operations.
LEMMA SettledAt ==
  ASSUME pc'.at \in {"idle", "dead", "create_map", "off"} \/ (pc'.at = "return" /\ pc'.ret \in Updates),
         pc'.at = "idle" => DiskMap' = {ni'.map},
         pc'.at \in {"return", "create_map"} => ~ni'.protected
  PROVE  Settled'
<1>1. pc'.at \notin RemapSites \union TableSites /\ pc'.at # "rebuild_main"
  BY DEF RemapSites, TableSites, Writers, Erasers
<1>2. pc'.at = "return" => pc'.ret # "load"
  BY DEF Updates
<1>3. Attached' /\ ni'.protected => pc'.at = "idle"
  BY DEF Attached
<1> QED BY <1>1, <1>2, <1>3 DEF Settled

\* The end of an update keeps the invariant of the data.
LEMMA UpdateDoneData ==
  ASSUME TypeInv, TypeInv', Inv, Inv', DiskIs, DiskIs', DataInv, UpdateDone
  PROVE  DataInv'
<1>1. DataKept /\ Settled /\ DiskMap' = DiskMap /\ ni'.map = ni.map /\ flash' = flash
  BY ReturnDisk DEF DataInv
<1>2. pc.at = "return" /\ pc.ret \in Updates /\ want' = want
  BY DEF UpdateDone
<1>3. ~ni.protected
  BY <1>1, <1>2 DEF Settled, Attached, Updates
<1>4. ni' = ni \/ ni' = NoPool(ni)
  BY <1>2 DEF UpdateDone, Become, Step, UpdateInfoTable, Return, Updates
<1>5. ~ni'.protected
  BY <1>3, <1>4, TypeGives, NoPoolIs
<1>6. pc'.at = "idle" => DiskMap' = {ni'.map}
  BY <1>5, AlwaysWrittenNext DEF Persisted
<1>7. CASE pc.ret \in {"remap", "nospare"}
  <2>1. pc'.at = "idle"
    BY <1>7 DEF UpdateDone, Become, Step, Rest
  <2> QED BY <1>1, <1>2, <1>5, <1>6, <2>1, SameData, SettledAt DEF DataInv
<1>8. CASE pc.ret \in {"create", "create_nospare"}
  <2>1. Making
    BY <1>2, <1>8 DEF Making
  <2>2. pc'.at \in {"idle", "dead"} \/ (pc'.at = "return" /\ pc'.ret = "create")
    BY <1>8, TypeGives DEF UpdateDone, Become, Step, Rest, UpdateInfoTable, Return, Places
  <2>3. pc'.at \in {"idle", "dead", "create_map", "off"} \/ (pc'.at = "return" /\ pc'.ret \in Updates)
    BY <2>2 DEF Updates
  <2> QED BY <1>1, <1>2, <1>5, <1>6, <2>1, <2>3, NoData, SettledAt DEF DataInv
<1> QED BY <1>2, <1>7, <1>8 DEF Updates

\* The end of building the tables keeps the invariant of the data.
LEMMA BuildDoneData ==
  ASSUME Inv', DataInv, BuildDone
  PROVE  DataInv'
<1>1. /\ DataKept /\ pc.at = "return" /\ pc.ret = "build" /\ want' = want
      /\ pc'.at \in {"create_map", "dead"}
  BY DEF DataInv, BuildDone, Rest
<1>2. Making
  BY <1>1 DEF Making
<1>3. pc'.at = "create_map" => ~ni'.protected
  BY DEF Inv, Fine, Resting, RestSites
<1> QED BY <1>1, <1>2, <1>3, NoData, SettledAt DEF DataInv

\* The end of loading the tables keeps the invariant of the data.
LEMMA LoadDoneData ==
  ASSUME TypeInv, Inv, DiskIs, DiskIs', DataInv, LoadDone
  PROVE  DataInv'
<1>1. /\ DataKept /\ Settled /\ DiskMap' = DiskMap /\ ni'.map = ni.map /\ flash' = flash
      /\ pc.at = "return"
  BY ReturnDisk DEF DataInv
<1>2. pc.ret = "load" /\ want' = want /\ pc'.at = "idle"
  BY DEF LoadDone, Become, Step, Rest
<1>3. DiskMap' = {ni'.map}
  BY <1>1, <1>2 DEF Settled
<1> QED BY <1>1, <1>2, <1>3, SameData, SettledAt DEF DataInv

\* nmbm_create_block_mapping keeps the invariant of the data.
LEMMA CreateMapData ==
  ASSUME TypeInv, DataInv, CreateMap
  PROVE  DataInv'
<1>1. DataKept /\ Settled /\ pc.at = "create_map" /\ want' = want
  BY DEF DataInv, CreateMap
<1>2. Making /\ ~ni.protected
  BY <1>1 DEF Making, Settled, Attached
<1>3. ni'.protected = ni.protected
  BY TypeGives DEF CreateMap, Become, Step, UpdateInfoTable, Return, MapTo, Instances
<1>4. pc'.at = "create_map" \/ (pc'.at = "return" /\ pc'.ret \in {"create", "create_nospare"})
  BY <1>1, TypeGives DEF CreateMap, Become, Step, UpdateInfoTable, Return, Places
<1>5. pc'.at \in {"idle", "dead", "create_map", "off"} \/ (pc'.at = "return" /\ pc'.ret \in Updates)
  BY <1>4 DEF Updates
<1>6. pc'.at # "idle"
  BY <1>4
<1> QED BY <1>1, <1>2, <1>3, <1>5, <1>6, NoData, SettledAt DEF DataInv

\* The new block of a logic block that is remapped is erased, and written.
LEMMA MovingData ==
  ASSUME TypeInv, Inv, DataInv, pc.at \in RemapSites, want' = want, ni' = ni, DiskMap' = DiskMap,
         \A b \in Blocks : b # ni.map[pc.lb] => flash'[b] = flash[b],
         \/ pc'.at = "remap_copy" /\ pc'.lb = pc.lb /\ pc'.old = pc.old /\ pc'.copy = pc.copy
         \/ /\ pc'.at = "return" /\ pc'.ret = "remap"
            /\ want[pc.lb] # 0 => flash'[ni.map[pc.lb]] = Data(pc.lb, want[pc.lb])
  PROVE  DataInv'
<1>1. DataKept /\ Settled
  BY DEF DataInv
<1>2. /\ pc.old # ni.map[pc.lb] /\ ni.map[pc.lb] # Unmapped /\ ~ni.protected
      /\ \A v \in DiskMap : \A i \in LBlocks : v[i] # ni.map[pc.lb]
  BY <1>1 DEF Settled, Attached, RemapSites
<1>3. pc.old \in Blocks /\ pc.lb \in LBlocks /\ ni \in Instances
  BY TypeGives, PlaceIs
<1>4. Attached /\ DiskIs
  BY DiskRead DEF Attached, RemapSites, Inv
<1>5. pc.at \in TableSites \union RestSites
  BY DEF RemapSites, RestSites
<1>6. Settled'
  <2>1. CASE pc'.at = "remap_copy" /\ pc'.lb = pc.lb /\ pc'.old = pc.old
    <3>1. pc'.at \notin TableSites \union {"idle", "return", "rebuild_main"}
      BY <2>1 DEF TableSites, Writers, Erasers
    <3> QED BY <1>2, <2>1, <3>1 DEF Settled
  <2>2. CASE pc'.at = "return" /\ pc'.ret = "remap"
    <3>1. pc'.at \notin RemapSites \union {"idle", "rebuild_main"} /\ pc'.ret # "load"
      BY <2>2 DEF RemapSites
    <3> QED BY <1>2, <3>1 DEF Settled
  <2> QED BY <2>1, <2>2
<1>7. ASSUME NEW lb \in LBlocks, want[lb] # 0 PROVE Kept(lb)'
  <2>1. /\ DiskMap # {} /\ \A v \in DiskMap : Stored(flash, want, v, lb)
        /\ lb # pc.lb => Stored(flash, want, ni.map, lb)
        /\ lb = pc.lb => pc.copy /\ flash[pc.old] = Data(lb, want[lb])
    BY <1>1, <1>4, <1>7 DEF DataKept, Kept, Moving
  <2>2. \A v \in DiskMap : Stored(flash', want', v, lb)
    <3>1. ASSUME NEW v \in DiskMap PROVE Stored(flash', want', v, lb)
      <4>1. Stored(flash, want, v, lb) /\ v[lb] # Unmapped /\ v[lb] # ni.map[pc.lb]
        BY <1>2, <2>1 DEF Stored
      <4>2. v[lb] \in Blocks
        BY <1>4, <1>5, <4>1, DataAbove
      <4> QED BY <4>1, <4>2, StoredOn
    <3> QED BY <3>1
  <2>3. lb # pc.lb => Stored(flash', want', ni'.map, lb)
    <3> SUFFICES ASSUME lb # pc.lb PROVE Stored(flash', want', ni.map, lb)
      OBVIOUS
    <3>1. Stored(flash, want, ni.map, lb) /\ ni.map[lb] # Unmapped
      BY <2>1 DEF Stored
    <3>2. ni.map[lb] # ni.map[pc.lb]
      BY <1>3, <1>4, <3>1, AttachedFits
    <3>3. ni.map[lb] \in Blocks
      BY <1>4, <1>5, <3>1, DataAbove
    <3> QED BY <3>1, <3>2, <3>3, StoredOn
  <2>4. CASE pc'.at = "remap_copy" /\ pc'.lb = pc.lb /\ pc'.old = pc.old /\ pc'.copy = pc.copy
    <3>1. Moving(lb)' <=> lb = pc.lb
      BY <2>4 DEF Moving, RemapSites
    <3>2. ~Making' /\ pc'.at # "dead"
      BY <2>4 DEF Making, Writers, Erasers
    <3>3. lb = pc.lb => pc'.copy /\ flash'[pc'.old] = Data(lb, want'[lb])
      BY <1>2, <1>3, <2>1, <2>4
    <3> QED BY <2>1, <2>2, <2>3, <3>1, <3>2, <3>3 DEF Kept
  <2>5. CASE /\ pc'.at = "return" /\ pc'.ret = "remap"
             /\ want[pc.lb] # 0 => flash'[ni.map[pc.lb]] = Data(pc.lb, want[pc.lb])
    <3>1. ~Moving(lb)' /\ ~Making' /\ pc'.at # "dead"
      BY <2>5 DEF Moving, RemapSites, Making
    <3>2. lb = pc.lb => Stored(flash', want', ni'.map, lb)
      BY <1>2, <1>7, <2>5 DEF Stored
    <3> QED BY <2>1, <2>2, <2>3, <3>1, <3>2 DEF Kept
  <2> QED BY <2>4, <2>5
<1>8. DataKept'
  BY <1>7 DEF DataKept
<1> QED BY <1>6, <1>8 DEF DataInv

\* The operations on the new block of a remap keep the invariant of the data.
LEMMA RemapData ==
  ASSUME TypeInv, Inv, DiskIs, DiskIs', NewBlockWorks, DataInv, RemapErase \/ RemapCopy \/ RemapFails
  PROVE  DataInv'
<1>1. /\ pc.at \in RemapSites /\ badmark' = badmark /\ ni' = ni
      /\ Loses(flash, badmark, flash', badmark) /\ Tabs(flash', badmark) = Tabs(flash, badmark)
  BY RemapStep DEF RemapSites
<1>2. DiskMap' = DiskMap
  BY <1>1, SameTables DEF Loses
<1>3. ~RemapFails
  BY <1>1 DEF RemapFails, NewBlockWorks, RemapSites
<1>4. flash \in [Blocks -> Contents] /\ pc \in Places /\ ni \in Instances /\ pc.lb \in LBlocks
  BY TypeGives, PlaceIs
<1>5. want' = want /\ \A b \in Blocks : b # ni.map[pc.lb] => flash'[b] = flash[b]
  BY <1>3, <1>4 DEF RemapErase, RemapCopy
<1>6. want[pc.lb] # 0 => pc.copy /\ flash[pc.old] = Data(pc.lb, want[pc.lb])
  BY <1>1, <1>4 DEF DataInv, DataKept, Kept, Moving
<1>7. CASE RemapErase /\ pc.copy
  <2>1. pc' = [pc EXCEPT !.at = "remap_copy"]
    BY <1>7 DEF RemapErase, Become, Step
  <2>2. pc'.at = "remap_copy" /\ pc'.lb = pc.lb /\ pc'.old = pc.old /\ pc'.copy = pc.copy
    BY <1>4, <2>1 DEF Places
  <2> QED BY <1>1, <1>2, <1>5, <2>2, MovingData
<1>8. ASSUME pc' = UpdateInfoTable(ni, pc, "remap").pc
      PROVE  pc'.at = "return" /\ pc'.ret = "remap"
  BY <1>4, <1>8 DEF UpdateInfoTable, Return, Step, Places
<1>9. CASE RemapErase /\ ~pc.copy
  <2>1. pc' = UpdateInfoTable(ni, pc, "remap").pc
    BY <1>9 DEF RemapErase, Become
  <2>2. want[pc.lb] = 0
    BY <1>6, <1>9
  <2> QED BY <1>1, <1>2, <1>5, <1>8, <2>1, <2>2, MovingData
<1>10. CASE RemapCopy
  <2>1. /\ pc' = UpdateInfoTable(ni, pc, "remap").pc
        /\ flash' = [flash EXCEPT ![ni.map[pc.lb]] =
                       IF flash[pc.old].kind = "data" THEN flash[pc.old] ELSE flash[ni.map[pc.lb]]]
    BY <1>10 DEF RemapCopy, Become
  <2>2. ASSUME want[pc.lb] # 0 PROVE flash'[ni.map[pc.lb]] = Data(pc.lb, want[pc.lb])
    <3>1. flash[pc.old] = Data(pc.lb, want[pc.lb]) /\ Data(pc.lb, want[pc.lb]).kind = "data"
      BY <1>6, <2>2 DEF Data
    <3>2. ni.map[pc.lb] # Unmapped
      BY <1>1 DEF DataInv, Settled
    <3>3. ni.map[pc.lb] \in Blocks
      BY <1>4, <3>2, InstanceIs, MapIs
    <3> QED BY <1>4, <2>1, <3>1, <3>3
  <2> QED BY <1>1, <1>2, <1>5, <1>8, <2>1, <2>2, MovingData
<1> QED BY <1>3, <1>7, <1>9, <1>10

\* A logic block is written where both mappings have it.
LEMMA UserWriteData ==
  ASSUME TypeInv, Inv, DiskIs, DiskIs', DataInv, NEW lb \in LBlocks, UserWrite(lb)
  PROVE  DataInv'
<1>1. /\ pc.at = "idle" /\ ni.map[lb] # Unmapped
      /\ want' = [want EXCEPT ![lb] = @ + 1]
      /\ flash' = [flash EXCEPT ![ni.map[lb]] = Data(lb, want[lb] + 1)]
      /\ ni' = ni /\ pc' = pc
  BY DEF UserWrite
<1>2. DataKept /\ Settled /\ DiskMap' = DiskMap /\ DiskMap = {ni.map}
  BY <1>1, WriteDisk DEF DataInv, Settled
<1>3. Attached /\ pc.at \in TableSites \union RestSites
  BY <1>1 DEF Attached, RestSites
<1>4. Settled'
  BY <1>1, <1>2, SettledAt
<1>5. flash \in [Blocks -> Contents] /\ want \in [LBlocks -> 0 .. MaxVersion]
  BY TypeGives
<1>6. ni.map[lb] \in Blocks
  BY <1>1, <1>3, DataAbove
<1>7. ~Making' /\ pc'.at # "dead" /\ \A k \in LBlocks : ~Moving(k)'
  BY <1>1 DEF Making, Moving, RemapSites, Writers, Erasers
<1>8. ASSUME NEW k \in LBlocks, want'[k] # 0 PROVE Kept(k)'
  <2>1. CASE k = lb
    <3>1. want'[lb] = want[lb] + 1 /\ flash'[ni.map[lb]] = Data(lb, want[lb] + 1)
      BY <1>1, <1>5, <1>6
    <3>2. Stored(flash', want', ni.map, k)
      BY <1>1, <2>1, <3>1 DEF Stored
    <3> QED BY <1>1, <1>2, <1>7, <3>2 DEF Kept
  <2>2. CASE k # lb
    <3>1. want'[k] = want[k]
      BY <1>1, <1>5, <2>2
    <3>2. Stored(flash, want, ni.map, k) /\ ni.map[k] # Unmapped
      BY <1>2, <1>8, <3>1 DEF DataKept, Kept, Stored
    <3>3. ni.map[k] # ni.map[lb] /\ ni.map[k] \in Blocks
      BY <1>3, <2>2, <3>2, AttachedFits, DataAbove
    <3>4. flash'[ni.map[k]] = flash[ni.map[k]]
      BY <1>1, <1>5, <3>3
    <3>5. Stored(flash', want', ni.map, k)
      BY <3>1, <3>2, <3>4, StoredOn
    <3> QED BY <1>1, <1>2, <1>7, <3>5 DEF Kept
  <2> QED BY <2>1, <2>2
<1>9. DataKept'
  BY <1>8 DEF DataKept
<1> QED BY <1>4, <1>9 DEF DataInv

\* The three ways remap_block_nmbm can go.
LEMMA RemapGoes ==
  ASSUME TypeInv, Inv, TakesTop, ProtectedWhenFull, NEW lb \in LBlocks, NEW copy \in BOOLEAN,
         NEW mark \in BOOLEAN, Remap(lb, copy, mark)
  PROVE  \/ pc'.at = "idle" /\ ni'.map = ni.map
         \/ pc'.at = "return" /\ pc'.ret = "nospare" /\ ni'.map = ni.map /\ ~ni'.protected
         \/ /\ pc'.at = "remap_erase" /\ pc'.lb = lb /\ pc'.old = ni.map[lb] /\ pc'.copy = copy
            /\ ni'.map = [ni.map EXCEPT ![lb] = ni.top] /\ ~ni'.protected
<1> DEFINE old == ni.map[lb]
           n == SetBad(ni, {old})
           p == [Rest("idle") EXCEPT !.lb = lb, !.old = old, !.copy = copy, !.mark = mark]
           q == [p EXCEPT !.at = "remap_erase"]
<1>1. /\ pc.at = "idle" /\ old # Unmapped
      /\ \/ n.mba = n.top /\ Become(Step(n, Rest("idle")))
         \/ n.mba # n.top /\ Spare(n) = None /\ Become(UpdateInfoTable(n, p, "nospare"))
         \/ n.mba # n.top /\ Spare(n) # None /\ Become(Step(MapTo(n, lb, Spare(n)), q))
  BY DEF Remap
<1>2. /\ ni \in Instances /\ flash \in [Blocks -> Contents]
      /\ RestCore(flash, badmark, ni)
  BY <1>1, TypeGives, AtRest DEF Inv, RestSites
<1>3. /\ old \in Blocks
      /\ old < MgmtStart \/ (ni.top < old /\ old < ni.sig)
  BY <1>1, <1>2, MappedBlock
<1>4. /\ n \in Instances /\ n.map = ni.map /\ n.mba = ni.mba /\ n.top = ni.top
      /\ n.protected = ni.protected
  BY <1>2, SetBadIs
<1>5. Spare(n) = Spare(ni)
  <2> HIDE DEF old
  <2> QED BY <1>2, <1>3, WornOut
<1>6. /\ p \in Places
      /\ q.at = "remap_erase" /\ q.lb = lb /\ q.old = old /\ q.copy = copy
  <2>1. Rest("idle") \in Places
    BY RestIs DEF Sites
  <2> HIDE DEF old
  <2>2. p \in Places /\ p.lb = lb /\ p.old = old /\ p.copy = copy
    BY <1>3, <2>1 DEF Places
  <2> HIDE DEF p
  <2> QED BY <2>2 DEF Places
<1> HIDE DEF n, p, q
<1>7. CASE n.mba = n.top /\ Become(Step(n, Rest("idle")))
  BY <1>4, <1>7 DEF Become, Step, Rest
<1>8. CASE n.mba # n.top /\ Become(UpdateInfoTable(n, p, "nospare"))
  <2>1. ni' = n /\ pc'.at = "return" /\ pc'.ret = "nospare"
    BY <1>6, <1>8 DEF Become, UpdateInfoTable, Return, Step, Places
  <2>2. ~ni.protected
    BY <1>1, <1>4, <1>8 DEF ProtectedWhenFull
  <2> QED BY <1>4, <2>1, <2>2
<1>9. CASE n.mba # n.top /\ Spare(n) # None /\ Become(Step(MapTo(n, lb, Spare(n)), q))
  <2>1. Spare(n) = ni.top
    BY <1>1, <1>5, <1>9 DEF TakesTop
  <2>2. ni' = MapTo(n, lb, ni.top) /\ pc' = q
    BY <1>9, <2>1 DEF Become, Step
  <2>3. ni'.map = [ni.map EXCEPT ![lb] = ni.top] /\ ni'.protected = n.protected
    BY <1>4, <2>2 DEF MapTo, Instances
  <2>4. ~ni.protected
    BY <1>1, <1>4, <1>9 DEF ProtectedWhenFull
  <2> QED BY <1>4, <1>6, <2>2, <2>3, <2>4
<1> QED BY <1>1, <1>7, <1>8, <1>9

\* Starting a remap keeps the invariant of the data.
LEMMA RemapUserData ==
  ASSUME TypeInv, Inv, DiskIs, DiskIs', TakesTop, ProtectedWhenFull, DataInv,
         NEW lb \in LBlocks, NEW copy \in BOOLEAN, NEW mark \in BOOLEAN, Remap(lb, copy, mark)
  PROVE  DataInv'
<1>1. /\ pc.at = "idle" /\ ni.map[lb] # Unmapped /\ flash' = flash
      /\ want' = IF copy THEN want ELSE [want EXCEPT ![lb] = 0]
  BY DEF Remap
<1>2. DataKept /\ Settled /\ DiskMap' = DiskMap /\ DiskMap = {ni.map}
  BY <1>1, RemapDisk DEF DataInv, Settled
<1>3. Attached /\ pc.at \in TableSites \union RestSites /\ ~ Making /\ pc.at \notin RemapSites
  BY <1>1 DEF Attached, RestSites, Making, RemapSites, Writers, Erasers
<1>4. \A k \in LBlocks \ {lb} : ni'.map[k] = ni.map[k]
  BY RemapMaps
<1>5. want \in [LBlocks -> 0 .. MaxVersion] /\ ni \in Instances
  BY TypeGives
<1>6. ASSUME NEW k \in LBlocks, want'[k] # 0
      PROVE  /\ want'[k] = want[k] /\ Stored(flash', want', ni.map, k) /\ (k = lb => copy)
  <2>1. want'[k] = want[k] /\ (k = lb => copy)
    BY <1>1, <1>5, <1>6
  <2>2. Stored(flash, want, ni.map, k)
    BY <1>2, <1>6, <2>1 DEF DataKept, Kept
  <2> QED BY <1>1, <2>1, <2>2, StoredOn
<1>7. CASE pc'.at = "idle" /\ ni'.map = ni.map
  <2>1. Settled'
    BY <1>2, <1>7, SettledAt
  <2>2. ~Making' /\ \A k \in LBlocks : ~Moving(k)'
    BY <1>7 DEF Making, Moving, RemapSites, Writers, Erasers
  <2>3. \A k \in LBlocks : want'[k] # 0 => Kept(k)'
    BY <1>2, <1>6, <1>7, <2>2 DEF Kept
  <2> QED BY <2>1, <2>3 DEF DataInv, DataKept
<1>8. CASE pc'.at = "return" /\ pc'.ret = "nospare" /\ ni'.map = ni.map /\ ~ni'.protected
  <2>1. Settled'
    BY <1>8, SettledAt DEF Updates
  <2>2. ~Making' /\ \A k \in LBlocks : ~Moving(k)'
    BY <1>8 DEF Making, Moving, RemapSites
  <2>3. \A k \in LBlocks : want'[k] # 0 => Kept(k)'
    BY <1>2, <1>6, <1>8, <2>2 DEF Kept
  <2> QED BY <2>1, <2>3 DEF DataInv, DataKept
<1>9. CASE /\ pc'.at = "remap_erase" /\ pc'.lb = lb /\ pc'.old = ni.map[lb] /\ pc'.copy = copy
           /\ ni'.map = [ni.map EXCEPT ![lb] = ni.top] /\ ~ni'.protected
  <2>1. ni.map \in [LBlocks -> Blocks \union {Unmapped}] /\ ni.top \in Nat
    BY <1>5, InstanceIs DEF Mappings
  <2>2. ni'.map[lb] = ni.top
    BY <1>9, <2>1
  <2>3. \A i \in LBlocks : ni.map[i] # ni.top
    <3>1. MgmtStart < ni.top
      <4>1. Ordered(ni) /\ ni.mba \in Nat
        BY <1>3, <1>5, InstanceIs DEF Inv, Fine
      <4> QED BY <2>1, <4>1, Sizes DEF Ordered
    <3>2. ASSUME NEW i \in LBlocks PROVE ni.map[i] # ni.top
      <4>1. CASE ni.map[i] = Unmapped
        BY <2>1, <4>1, Sizes
      <4>2. CASE ni.map[i] # Unmapped
        <5>1. ni.map[i] \in Nat /\ (ni.map[i] < MgmtStart \/ ni.top < ni.map[i])
          BY <1>3, <4>2, DataAbove
        <5> QED BY <2>1, <3>1, <5>1, Sizes
      <4> QED BY <4>1, <4>2
    <3> QED BY <3>2
  <2>4. Settled'
    <3>1. pc'.at \notin TableSites \union {"idle", "return", "rebuild_main"}
      BY <1>9 DEF TableSites, Writers, Erasers
    <3>2. ni.top # Unmapped
      BY <2>1, Sizes
    <3> QED BY <1>2, <1>9, <2>2, <2>3, <3>1, <3>2 DEF Settled
  <2>5. ~Making' /\ pc'.at # "dead" /\ \A k \in LBlocks : Moving(k)' <=> k = lb
    BY <1>9 DEF Making, Moving, RemapSites, Writers, Erasers
  <2>6. ASSUME NEW k \in LBlocks, want'[k] # 0 PROVE Kept(k)'
    <3>1. Stored(flash', want', ni.map, k)
      BY <1>6, <2>6
    <3>2. k # lb => Stored(flash', want', ni'.map, k)
      BY <1>4, <3>1 DEF Stored
    <3>3. k = lb => pc'.copy /\ flash'[pc'.old] = Data(k, want'[k])
      BY <1>6, <1>9, <2>6, <3>1 DEF Stored
    <3> QED BY <1>2, <2>5, <3>1, <3>2, <3>3 DEF Kept
  <2> QED BY <2>4, <2>6 DEF DataInv, DataKept
<1> QED BY <1>7, <1>8, <1>9, RemapGoes

\* nmbm_attach finds the data, or there is none.
LEMMA AttachData ==
  ASSUME TypeInv, Inv, Inv', DiskIs, DiskIs', DataInv, Attach
  PROVE  DataInv'
<1>1. DataKept /\ flash' = flash /\ want' = want
  BY DEF DataInv, Attach, AttachLoad, AttachCreate, AttachRebuild, AttachFails
<1>2. CASE AttachLoad
  <2>1. /\ DiskMap' = DiskMap /\ DiskMap = {ni'.map} /\ ~ni'.protected /\ pc'.ret = "load"
        /\ pc'.at \in {"rescue_front", "return", "single_main", "single_backup"}
    BY <1>2, LoadDisk
  <2>2. /\ ~Making' /\ \A lb \in LBlocks : ~Moving(lb)'
        /\ pc'.at \notin RemapSites \union {"dead", "idle", "rebuild_main"}
    BY <2>1 DEF Making, Moving, RemapSites
  <2>3. \A lb \in LBlocks : want[lb] # 0 => Stored(flash, want, ni'.map, lb)
    BY <1>1, <2>1 DEF DataKept, Kept
  <2>4. DataKept'
    BY <1>1, <2>1, <2>2, <2>3 DEF DataKept, Kept
  <2>5. Settled'
    BY <2>1, <2>2 DEF Settled
  <2> QED BY <2>4, <2>5 DEF DataInv
<1>3. CASE AttachCreate \/ AttachRebuild \/ AttachFails
  <2>1. DataKept'
    BY <1>1, <1>3, CreateDisk, NoData
  <2>2. pc'.at = "signature" \/ pc'.at = "dead" \/ (pc'.at = "rebuild_main" /\ pc'.ret = "build")
    <3>1. CASE AttachCreate
      BY <3>1 DEF AttachCreate, Become, Write, Step, Rest
    <3>2. CASE AttachFails
      BY <3>2 DEF AttachFails, Rest
    <3>3. CASE AttachRebuild
      <4>1. PICK n : pc' = CreateInfoTable(n, Rest("off")).pc
        BY <3>3 DEF AttachRebuild, Become
      <4> QED BY <4>1 DEF CreateInfoTable, RebuildInfoTable, Write, Step, Rest
    <3> QED BY <1>3, <3>1, <3>2, <3>3
  <2> QED BY <2>1, <2>2, SettledNew DEF DataInv
<1> QED BY <1>2, <1>3 DEF Attach

\* The block a power loss may tear holds no data that is in use.
LEMMA InFlightFree ==
  ASSUME TypeInv, Inv, DiskIs, DataInv, NEW b \in InFlight, NEW v \in DiskMap, NEW i \in LBlocks,
         v[i] # Unmapped
  PROVE  v[i] # b
<1>1. CASE pc.at \in RemapSites
  <2>1. b = ni.map[pc.lb]
    BY <1>1 DEF InFlight, RemapSites, Writers, Erasers
  <2> QED BY <1>1, <2>1 DEF DataInv, Settled
<1>2. CASE pc.at \in TableSites
  <2>1. b = Block /\ Usable # {}
    BY <1>2 DEF InFlight, TableSites
  <2>2. MgmtStart <= b /\ b < ni.top /\ b \in Nat
    BY <1>2, <2>1, WritesBelow
  <2>3. v[i] \in Nat /\ (v[i] < MgmtStart \/ ni.top < v[i])
    BY <1>2, DataAbove
  <2>4. ni.top \in Nat /\ MgmtStart \in Nat
    BY TypeGives, InstanceIs, Sizes
  <2> QED BY <2>2, <2>3, <2>4
<1>3. CASE pc.at = "signature"
  <2>1. Tabs(flash, badmark) = {}
    BY <1>3 DEF Inv, Fine, Unsigned
  <2> QED BY <2>1 DEF DiskIs
<1> QED BY <1>1, <1>2, <1>3 DEF InFlight, RemapSites, TableSites

\* Losing power keeps the invariant of the data.
LEMMA CrashData ==
  ASSUME TypeInv, Inv, DiskIs, DiskIs', TwoTables, DataInv, Crash
  PROVE  DataInv'
<1>1. /\ DataKept /\ DiskMap' = DiskMap /\ want' = want /\ pc'.at = "off"
      /\ flash' = flash \/ \E b \in InFlight : Puts(flash', flash, b, Junk)
  BY CrashDisk DEF DataInv, Crash, Puts, Rest
<1>2. ASSUME NEW v \in DiskMap, NEW i \in LBlocks, v[i] # Unmapped
      PROVE  flash'[v[i]] = flash[v[i]]
  <2>1. CASE flash' = flash
    BY <2>1
  <2>2. ASSUME NEW b \in InFlight, Puts(flash', flash, b, Junk) PROVE flash'[v[i]] = flash[v[i]]
    <3>1. v[i] # b
      BY <1>2, InFlightFree
    <3>2. flash \in [Blocks -> Contents] /\ v[i] \in Blocks
      <4>1. PICK t \in Tabs(flash, badmark) : v = flash[t].map
        BY DEF DiskIs
      <4>2. v \in Mappings
        BY <4>1, TypeGives, TabsIs
      <4> QED BY <1>2, <4>2, TypeGives, MapIs
    <3> QED BY <2>2, <3>1, <3>2 DEF Puts
  <2> QED BY <1>1, <2>1, <2>2
<1>3. ~Making' /\ ~Attached' /\ \A lb \in LBlocks : ~Moving(lb)'
  BY <1>1 DEF Making, Attached, Moving, RemapSites, Writers, Erasers
<1>4. ASSUME NEW lb \in LBlocks, want[lb] # 0 PROVE Kept(lb)'
  <2>1. DiskMap # {} /\ \A v \in DiskMap : Stored(flash, want, v, lb)
    BY <1>1, <1>4 DEF DataKept, Kept
  <2>2. \A v \in DiskMap : Stored(flash', want', v, lb)
    BY <1>1, <1>2, <2>1, StoredOn DEF Stored
  <2> QED BY <1>1, <1>3, <2>1, <2>2 DEF Kept
<1>5. DataKept'
  BY <1>1, <1>4 DEF DataKept
<1>6. Settled'
  BY <1>1, SettledAt
<1> QED BY <1>5, <1>6 DEF DataInv

\* There are no data on a new chip.
LEMMA DataInit == Init => DataInv
<1> SUFFICES ASSUME Init PROVE DataInv
  OBVIOUS
<1>1. pc.at = "off" /\ \A lb \in LBlocks : want[lb] = 0
  BY DEF Init, Rest
<1>2. Settled
  BY <1>1 DEF Settled, TableSites, RemapSites, Attached, Writers, Erasers
<1> QED BY <1>1, <1>2 DEF DataInv, DataKept

\* Every step keeps the invariant of the data under the four hypotheses.
LEMMA DataNext ==
  ASSUME TypeInv, TypeInv', Inv, Inv', TakesTop, TwoTables, NewBlockWorks, ProtectedWhenFull,
         DataInv, [Next]_vars
  PROVE  DataInv'
<1>1. DiskIs /\ DiskIs'
  BY DiskRead, DiskReadNext DEF Inv
<1>2. CASE UNCHANGED vars
  <2>1. ni' = ni /\ pc' = pc /\ flash' = flash /\ badmark' = badmark /\ want' = want
    BY <1>2 DEF vars
  <2>2. DiskMap' = DiskMap
    BY <1>1, <2>1, SameTables
  <2>3. Making' = Making /\ Attached' = Attached /\ \A lb \in LBlocks : Moving(lb)' = Moving(lb)
    BY <2>1 DEF Making, Attached, Moving
  <2>4. \A lb \in LBlocks : Kept(lb) => Kept(lb)'
    BY <2>1, <2>2, <2>3 DEF Kept
  <2>5. Settled => Settled'
    BY <2>1, <2>2, <2>3 DEF Settled
  <2> QED BY <2>1, <2>4, <2>5 DEF DataInv, DataKept
<1>3. CASE Flash \/ BlockFails
  BY <1>1, <1>3, FlashData
<1>4. CASE UpdateAgain \/ UpdateDone \/ BuildDone \/ LoadDone \/ CreateMap
  BY <1>1, <1>4, UpdateAgainData, UpdateDoneData, BuildDoneData, LoadDoneData, CreateMapData
<1>5. CASE RemapErase \/ RemapCopy \/ RemapFails
  BY <1>1, <1>5, RemapData
<1>6. CASE User
  BY <1>1, <1>6, UserWriteData, RemapUserData DEF User
<1>7. CASE Attach
  BY <1>1, <1>7, AttachData
<1>8. CASE Crash
  BY <1>1, <1>8, CrashData
<1> QED BY <1>2, <1>3, <1>4, <1>5, <1>6, <1>7, <1>8 DEF Next, Driver

\* The invariant of the data implies DataSafe.
LEMMA DataSafeFollows == DataInv => DataSafe
<1> SUFFICES ASSUME DataInv, NEW lb \in LBlocks, want[lb] # 0
             PROVE  /\ pc.at # "dead"
                    /\ Attached /\ ~(pc.at \in {"remap_erase", "remap_copy"} /\ pc.lb = lb)
                         => ni.map[lb] # Unmapped /\ flash[ni.map[lb]] = Data(lb, want[lb])
  BY DEF DataSafe
<1>1. Kept(lb)
  BY DEF DataInv, DataKept
<1> QED BY <1>1 DEF Kept, Moving, RemapSites, Stored

\* The assumptions under which no data is lost: no bad block of the pool is skipped, no
\* single table is rewritten in place, the new block of a remapped logic block works, and
\* the tables are write protected only because the pool is used up.
Trusted == TakesTop /\ TwoTables /\ NewBlockWorks /\ ProtectedWhenFull

\* What is stored in a logic block is where the mapping in memory points to, at every
\* step of remapping, table updates and rescues, and after every power loss.
THEOREM DataPreserved == Spec /\ []Trusted => []DataSafe
<1>1. Init => DataInv
  BY DataInit
<1>2. TypeInv /\ Inv /\ (TypeInv /\ Inv)' /\ Trusted /\ DataInv /\ [Next]_vars => DataInv'
  BY DataNext DEF Trusted
<1>3. Trusted => TakesTop
  BY DEF Trusted
<1> QED BY <1>1, <1>2, <1>3, TablesKept, DataSafeFollows, PTL DEF Spec

-----------------------------------------------------------------------------
(* nmbm_map_block. *)

\* Writing tables does not change the mapping in memory.
LEMMA FlashMaps ==
  ASSUME TypeInv, Flash \/ BlockFails
  PROVE  ni'.map = ni.map
<1> DEFINE m == Skipped(ni)
<1>1. m \in Instances /\ m.map = ni.map /\ ni \in Instances /\ pc \in Places /\ None \in Blocks
  BY SkippedWorn, TypeGives, Sizes
<1>2. CASE EraseBlock
  BY <1>1, <1>2 DEF EraseBlock
<1>3. CASE BlockFails
  <2>1. ni' = SetBad(m, {Block})
    BY <1>3 DEF BlockFails
  <2> HIDE DEF m
  <2> QED BY <1>1, <2>1, SetBadIs
<1>4. CASE ProgramBlock
  <2>1. ni' = WriteNext(ni, pc, TRUE, pc.ba).ni /\ pc.at \in Writers
    BY <1>4, TypeGives DEF ProgramBlock, Become, InRange
  <2>2. CASE pc.at = "signature"
    <3>1. pc.ba \in Blocks
      BY <2>2, TypeGives DEF InRange
    <3> QED BY <1>1, <2>1, <2>2, <3>1, SignatureGoes
  <2>3. CASE pc.at # "signature"
    BY <1>1, <2>1, <2>3, WriteGoes DEF Goes
  <2> QED BY <2>2, <2>3
<1>5. CASE RangeEnds
  <2>1. /\ pc.at \in Writers \union Erasers
        /\ ni' = (IF pc.at \in Erasers THEN EraseNext(m, pc) ELSE WriteNext(m, pc, FALSE, None)).ni
    BY <1>5 DEF RangeEnds, Become
  <2> HIDE DEF m
  <2>2. CASE pc.at \in Erasers
    BY <1>1, <2>1, <2>2 DEF EraseNext, Clean, Return, Step, Instances
  <2>3. CASE pc.at = "signature"
    <3>1. pc.at \notin Erasers
      BY <2>3 DEF Erasers
    <3> QED BY <1>1, <2>1, <2>3, <3>1, SignatureGoes
  <2>4. CASE pc.at \in Writers \ {"signature"} /\ pc.at \notin Erasers
    BY <1>1, <2>1, <2>4, WriteGoes DEF Goes
  <2> QED BY <2>1, <2>2, <2>3, <2>4
<1> QED BY <1>2, <1>3, <1>4, <1>5 DEF Flash

\* The block at mapping_blocks_top_ba is of no logic block.
LEMMA TopUnused ==
  ASSUME TypeInv, Inv, pc.at \in RestSites
  PROVE  \A k \in LBlocks : ni.map[k] # ni.top
<1>1. ni \in Instances /\ ni.map \in Mappings /\ ni.top \in Nat /\ ni.mba \in Nat
  BY TypeGives, InstanceIs
<1>2. MapFits(ni.map, ni.top, ni.sig) /\ MgmtStart < ni.top
  <2>1. Covers(flash, badmark, ni) /\ Ordered(ni)
    BY DEF Inv, Fine
  <2> QED BY <1>1, <2>1, Sizes DEF Covers, Ordered
<1>3. \A k \in LBlocks : ni.map[k] \in Int /\ (ni.map[k] >= MgmtStart => ni.top < ni.map[k])
  BY <1>1, <1>2, MapIs DEF MapFits
<1> QED BY <1>1, <1>2, <1>3, Sizes

\* A step of the attached driver that maps a logic block takes a physical block
\* no logic block is mapped to.
LEMMA UnusedNext ==
  ASSUME TypeInv, Inv, TakesTop, Next, pc.at # "off", pc'.at # "off",
         NEW lb \in LBlocks, NEW k \in LBlocks, ni'.map[lb] # ni.map[lb]
  PROVE  ni'.map[lb] # ni.map[k]
<1>1. ni \in Instances /\ ni.map \in [LBlocks -> Blocks \union {Unmapped}]
  BY TypeGives DEF Instances, Mappings
<1>2. ASSUME pc.at \in RestSites, NEW i \in LBlocks, ni'.map = [ni.map EXCEPT ![i] = ni.top]
      PROVE  ni'.map[lb] # ni.map[k]
  <2>1. lb = i /\ ni'.map[lb] = ni.top
    BY <1>1, <1>2
  <2> QED BY <1>2, <2>1, TopUnused
<1>3. CASE Flash \/ BlockFails
  BY <1>3, FlashMaps
<1>4. CASE UpdateAgain
  <2>1. pc.at = "return" /\ ni' = UpdateOnce(ni, pc).ni
    BY <1>4 DEF UpdateAgain, Become
  <2> QED BY <2>1, TypeGives, OnceGoes DEF Goes
<1>5. CASE UpdateDone
  <2>1. ni' = ni \/ ni' = NoPool(ni)
    BY <1>5 DEF UpdateDone, Become, Step, UpdateInfoTable, Return, Updates
  <2>2. NoPool(ni).map = ni.map
    BY <1>1 DEF NoPool, Instances
  <2> QED BY <2>1, <2>2
<1>6. CASE BuildDone \/ LoadDone
  <2>1. ni'.map = ni.map
    BY <1>1, <1>6 DEF BuildDone, LoadDone, Become, Step, Instances
  <2> QED BY <2>1
<1>7. CASE CreateMap
  <2> DEFINE a == MapTo(ni, ni.dcount, Spare(ni))
             m == [a EXCEPT !.dcount = @ + 1]
  <2>1. /\ pc.at = "create_map"
        /\ ni' = ni \/ (ni' = m /\ Spare(ni) # None /\ ni.dcount # MgmtStart)
    BY <1>7 DEF CreateMap, Become, Step, UpdateInfoTable, Return
  <2>2. Spare(ni) # None => Spare(ni) = ni.top
    BY <2>1 DEF TakesTop
  <2>3. m.map = [ni.map EXCEPT ![ni.dcount] = Spare(ni)]
    BY <1>1 DEF MapTo, Instances
  <2>4. ni.dcount # MgmtStart => ni.dcount \in LBlocks
    <3>1. ni.dcount \in 0 .. MgmtStart
      BY <1>1 DEF Instances
    <3> QED BY <3>1, Sizes DEF LBlocks
  <2> HIDE DEF m
  <2> QED BY <1>2, <2>1, <2>2, <2>3, <2>4 DEF RestSites
<1>8. CASE RemapErase \/ RemapCopy \/ RemapFails
  BY <1>8, RemapStep
<1>9. CASE User
  <2>1. ASSUME NEW i \in LBlocks, UserWrite(i) PROVE FALSE
    BY <2>1 DEF UserWrite
  <2>2. ASSUME NEW i \in LBlocks, NEW copy \in BOOLEAN, NEW mark \in BOOLEAN, Remap(i, copy, mark)
        PROVE  ni'.map[lb] # ni.map[k]
    <3> DEFINE old == ni.map[i]
               n == SetBad(ni, {old})
    <3>1. /\ pc.at = "idle" /\ old # Unmapped
          /\ ni' = n \/ (ni' = MapTo(n, i, Spare(n)) /\ Spare(n) # None)
      BY <2>2 DEF Remap, Become, Step, UpdateInfoTable, Return
    <3>2. RestCore(flash, badmark, ni) /\ flash \in [Blocks -> Contents]
      BY <3>1, TypeGives, AtRest DEF Inv, RestSites
    <3>3. old \in Blocks /\ (old < MgmtStart \/ (ni.top < old /\ old < ni.sig))
      BY <1>1, <3>1, <3>2, MappedBlock
    <3>4. n \in Instances /\ n.map = ni.map
      BY <1>1, SetBadIs
    <3>5. Spare(n) = Spare(ni)
      <4> HIDE DEF old
      <4> QED BY <1>1, <3>2, <3>3, WornOut
    <3> HIDE DEF n
    <3>6. MapTo(n, i, Spare(n)).map = [ni.map EXCEPT ![i] = Spare(n)]
      BY <3>4 DEF MapTo, Instances
    <3>7. Spare(n) # None => Spare(n) = ni.top
      BY <3>1, <3>5 DEF TakesTop
    <3> QED BY <1>2, <3>1, <3>4, <3>6, <3>7 DEF RestSites
  <2> QED BY <1>9, <2>1, <2>2 DEF User
<1>10. CASE Attach
  BY <1>10 DEF Attach, AttachLoad, AttachCreate, AttachRebuild, AttachFails
<1>11. CASE Crash
  BY <1>11 DEF Crash, Rest
<1> QED BY <1>3, <1>4, <1>5, <1>6, <1>7, <1>8, <1>9, <1>10, <1>11 DEF Next, Driver

\* "Map a bad block to a unused spare block": nmbm_map_block does, as long as the block
\* at mapping_blocks_top_ba is good; the run Nmbm_shared shows what happens when it is not.
THEOREM UnusedTaken == Spec /\ []TakesTop => MapsToUnused
<1>1. TypeInv /\ Inv /\ TakesTop /\ [Next]_vars
      => [\A lb, k \in LBlocks :
            /\ pc.at # "off" /\ pc'.at # "off"
            /\ ni'.map[lb] # ni.map[lb]
            => ni'.map[lb] # ni.map[k]]_vars
  BY UnusedNext
<1> QED BY <1>1, TablesKept, PTL DEF Spec, MapsToUnused

=============================================================================
