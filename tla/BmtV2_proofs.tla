---------------------------- MODULE BmtV2_proofs ----------------------------
(***************************************************************************)
(* Proofs about BmtV2 for chips of every size, any number of retries,      *)
(* failures and power losses.                                              *)
(*                                                                         *)
(* The types are kept under all settings.  The table, the mapping and the  *)
(* data are shown to be safe in orderly use: one caller at a time, no      *)
(* debugfs file that undoes a remap, and no failing update of the table.   *)
(* The invariant says what is on the flash at each step of a remap, since  *)
(* that is what the next attach finds if the power goes.                   *)
(*                                                                         *)
(* The last part is about the use beyond that: with a table that may fail  *)
(* or be cut off, or with several callers, and with all debugfs files, the *)
(* blocks in front of all that have failed are safe (PrefixPreserved).     *)
(***************************************************************************)
EXTENDS BmtV2, Ranks_proofs, TLAPS, FiniteSetTheorems

-----------------------------------------------------------------------------
(* The invariant of the types. *)

\* Entries of the pool that are about to be used are entries, and a write has a
\* version left and its logic block for itself.
Placed ==
  \A t \in Callers :
    /\ pc[t].at \in {"take", "bmt_write"} => pc[t].n \in PoolIdx
    /\ pc[t].at # "idle" /\ pc[t].op = "write" =>
         /\ pc[t].lb \in UBlocks /\ want[pc[t].lb].v < MaxVersion
         /\ \A u \in Callers \ {t} :
              pc[u].at # "idle" /\ pc[u].op = "write" => pc[u].lb # pc[t].lb

TypeInv == TypeOK /\ Placed

-----------------------------------------------------------------------------
(* The invariant of orderly use. *)

\* The logic blocks in the remap range and those outside do not meet.
Apart(t, range) == \A i \in range, j \in LBlocks \ range : t.map[i] # j

\* A chip on which bad are bad when it is new.  It has a second block for the pool
\* next to the one of the table, since get_bmt_index takes the index 0 for none.
\* And what the scan shifts up stays in the range or goes to the pool: a range that
\* ends in the data area has no bad block in front of its end.
FitsChip(range, bad) ==
  \A r \in ScanBadBlocks(bad) : r.idx > 0 /\ Apart(r.bbt, range)

\* One caller, who does not use the debugfs files that undo a remap.
Orderly(s) ==
  /\ \A t, u \in s.callers : t = u
  /\ s.files \subseteq {"mark_bad"}
  /\ \A bad \in s.bad : FitsChip(s.range, bad)

OrderlyUse == \A s \in Settings : ~s.torn => Orderly(s)

\* A table t whose own block is that of entry i: the blocks of the pool and those
\* of the logic blocks are apart, except for the entries that are mapped.
Layout(t, i) ==
  /\ i \in PoolIdx /\ i > 0
  /\ t.pool[i].mapped = BMT_MAPPED
  /\ \A k \in PoolIdx : IF k <= i THEN t.pool[k].block >= PoolLba ELSE t.pool[k].block = 0
  /\ \A k \in PoolIdx : k < i => t.pool[k].mapped # BMT_MAPPED
  /\ \A k, l \in PoolIdx : k <= i /\ l <= i /\ t.pool[k].block = t.pool[l].block => k = l
  /\ Apart(t, env.range)
  /\ \A lb \in LBlocks, k \in PoolIdx :
       k <= i /\ t.map[lb] = t.pool[k].block => t.pool[k].mapped = NORMAL_MAPPED
  /\ \A lb, lc \in LBlocks : t.map[lb] = t.map[lc] => lb = lc

\* The only table on the flash is in block b, which is readable, and says so.
StoredIn(b, i) ==
  /\ b \in Blocks \ worn /\ flash[b].kind = "table"
  /\ \A c \in Blocks : flash[c].kind = "table" => c = b
  /\ Layout(flash[b].bbt, i) /\ flash[b].bbt.pool[i].block = b

\* Nothing has been written yet.
New == worn = {} /\ (\A b \in Blocks : flash[b] = Erased) /\ FitsChip(env.range, badmark)

Remapping(p) == p.at \in {"new_erase", "copy_read", "copy_write"}
Uploading(p) == p.at \in {"bmt_erase", "bmt_write"}

Home == bbt.pool[idx].block

\* Where the caller is, what is on the flash and what is in memory agree.
TableThere(p) ==
  /\ Layout(bbt, idx)
  /\ Home \notin worn /\ \A c \in Blocks : flash[c].kind = "table" => c = Home
  /\ ~Uploading(p) /\ ~Remapping(p) => flash[Home] = Table(bbt)
  /\ p.at = "bmt_write" => flash[Home] = Erased

\* While a logic block is remapped the flash has the table of before.
OldTableThere(p) ==
  Remapping(p) =>
    /\ StoredIn(Home, idx)
    /\ p.lb \in env.range /\ p.new = bbt.map[p.lb] /\ p.old # p.new /\ p.new >= PoolLba
    /\ flash[Home].bbt.map = [bbt.map EXCEPT ![p.lb] = p.old]

\* The local variables of the caller.
LocalsRight(p) ==
  /\ Uploading(p) => p.n = idx /\ (p.at = "bmt_write" => p.new = Home)
  /\ p.at # "idle" =>
       \/ p.op = "attach" /\ (Uploading(p) \/ p.at = "return") /\ ~p.again
       \/ /\ p.op \in {"read", "write", "erase", "isbad", "markbad", "mark_bad"}
          /\ mode = "run" /\ p.lb \in UBlocks
  /\ p.at = "idle" => mode = "run"
  /\ p.at \in {"access", "find", "take"} => p.old = Mapping(p.lb)
  /\ p.at = "take" => /\ p.lb \in env.range /\ p.n < idx
                      /\ bbt.pool[p.n].mapped = NO_MAPPED
  /\ p.at = "copy_write" => databuf.kind # "table"

Working(p) == TableThere(p) /\ OldTableThere(p) /\ LocalsRight(p)

Attached == mode \in {"boot", "run"}

OrderInv ==
  ~env.torn =>
    /\ \A t \in Callers : t \notin env.callers => pc[t].at = "idle"
    /\ ~Attached => New \/ \E b \in Blocks, i \in PoolIdx : StoredIn(b, i)
    /\ ~Attached => \A t \in Callers : pc[t].at = "idle"
    /\ Attached => \E t \in env.callers : Working(pc[t])

-----------------------------------------------------------------------------
(* The invariant of the data. *)

\* The blocks of the pool do not fail: nobody looks at the results of erasing them
\* and copying to them.
PoolLasts(s) == \A b \in s.fail : b < PoolLba

\* In every setting whose table updates do not fail.
PoolAlwaysLasts == \A s \in Settings : ~s.torn => PoolLasts(s)

Promised(lb) == want[lb].st # "none"
Content(lb) == IF want[lb].st = "erased" THEN Erased ELSE Data(lb, want[lb].v)

MappingIn(t, lb) == IF lb \in env.range THEN t.map[lb] ELSE lb

\* With table t every promise is kept.
Kept(t) == \A lb \in UBlocks : Promised(lb) => flash[MappingIn(t, lb)] = Content(lb)

\* What has been promised is in the block in use, or, in a remap, still in the old
\* one and on its way to the new one.
KeptBy(p) ==
  /\ \A lb \in UBlocks : Promised(lb) /\ ~(Remapping(p) /\ lb = p.lb) =>
                           flash[Mapping(lb)] = Content(lb)
  /\ Remapping(p) /\ Promised(p.lb) => flash[p.old] = Content(p.lb)
  /\ Promised(p.lb) /\ p.op # "attach" /\ (p.at \in {"find", "take"} \/ Remapping(p)) => p.copy
  /\ p.at \in {"copy_read", "copy_write"} => p.copy /\ flash[p.new] = Erased
  /\ p.at = "copy_write" /\ Promised(p.lb) => databuf = Content(p.lb)

\* While a block is erased or written nothing is promised and nothing is copied, and
\* a block that is to be written is erased, at the first and at every other try.
\* Marking a block bad is not tried again.
WriteReady(p) ==
  /\ p.op \in {"markbad", "mark_bad"} /\ p.at # "idle" => ~p.again /\ p.at # "access"
  /\ p.op \in {"write", "erase"} /\ p.at # "idle" => want[p.lb].st = "none" /\ ~p.copy
  /\ p.op = "write" /\ p.at = "access" => flash[p.old] = Erased
  /\ p.op = "write" /\ (Uploading(p) \/ p.at = "return") /\ p.again =>
       flash[Mapping(p.lb)] = Erased

DataInv ==
  ~env.torn =>
    /\ ~Attached /\ New => \A lb \in UBlocks : want[lb].st # "data"
    /\ ~Attached => \A b \in Blocks, i \in PoolIdx : StoredIn(b, i) => Kept(flash[b].bbt)
    /\ Attached => \A t \in env.callers : KeptBy(pc[t]) /\ WriteReady(pc[t])


-----------------------------------------------------------------------------
(* The types. *)

\* The settings and what may be left of their failures and power losses.
EnvOK(e) ==
  \E s \in Settings :
    \E f \in 0 .. s.faults, c \in 0 .. s.crashes : e = Left(s, f, c)

\* What env keeps of the setting.
LEMMA EnvFields ==
  ASSUME NEW e, EnvOK(e)
  PROVE  \E s \in Settings :
           /\ e.range = s.range /\ e.fail = s.fail /\ e.torn = s.torn
           /\ e.callers = s.callers /\ e.files = s.files
           /\ e.range \subseteq LBlocks /\ e.fail \subseteq Blocks
           /\ e.callers \subseteq Callers
           /\ e.faults \in Nat /\ e.crashes \in Nat
<1>1. PICK s \in Settings :
        \E f \in 0 .. s.faults, c \in 0 .. s.crashes : e = Left(s, f, c)
  BY DEF EnvOK
<1>2. s \in SettingRecords
  BY <1>1, BmtV2Assumption
<1>3. PICK f \in 0 .. s.faults, c \in 0 .. s.crashes :
        e = Left(s, f, c)
  BY <1>1
<1>4. s.faults \in Nat /\ s.crashes \in Nat
  BY <1>2 DEF SettingRecords
<1>5. f \in Nat /\ c \in Nat
  BY <1>4
<1>6. /\ e.range = s.range /\ e.fail = s.fail /\ e.torn = s.torn
      /\ e.callers = s.callers /\ e.files = s.files
      /\ e.faults = f /\ e.crashes = c
  BY <1>2, <1>3 DEF SettingRecords, Left
<1>7. s.range \subseteq LBlocks /\ s.fail \subseteq Blocks /\ s.callers \subseteq Callers
  BY <1>2 DEF SettingRecords
<1> QED BY <1>5, <1>6, <1>7

\* One failure or one power loss less is still within the setting.
LEMMA EnvSpends ==
  ASSUME NEW e, EnvOK(e)
  PROVE  /\ e.faults > 0 => EnvOK([e EXCEPT !.faults = @ - 1])
         /\ e.crashes > 0 => EnvOK([e EXCEPT !.crashes = @ - 1])
<1>1. PICK s \in Settings :
        \E f \in 0 .. s.faults, c \in 0 .. s.crashes : e = Left(s, f, c)
  BY DEF EnvOK
<1>2. s \in SettingRecords
  BY <1>1, BmtV2Assumption
<1>3. PICK f \in 0 .. s.faults, c \in 0 .. s.crashes :
        e = Left(s, f, c)
  BY <1>1
<1>4. s.faults \in Nat /\ s.crashes \in Nat
  BY <1>2 DEF SettingRecords
<1>5. ASSUME e.faults > 0 PROVE EnvOK([e EXCEPT !.faults = @ - 1])
  <2>1. e.faults = f
    BY <1>2, <1>3 DEF SettingRecords, Left
  <2>2. f - 1 \in 0 .. s.faults
    BY <1>4, <1>5, <2>1
  <2>3. [e EXCEPT !.faults = @ - 1] = Left(s, f - 1, c)
    BY <1>2, <1>3 DEF SettingRecords, Left
  <2> QED BY <2>2, <2>3 DEF EnvOK
<1>6. ASSUME e.crashes > 0 PROVE EnvOK([e EXCEPT !.crashes = @ - 1])
  <2>1. e.crashes = c
    BY <1>2, <1>3 DEF SettingRecords, Left
  <2>2. c - 1 \in 0 .. s.crashes
    BY <1>4, <1>6, <2>1
  <2>3. [e EXCEPT !.crashes = @ - 1] = Left(s, f, c - 1)
    BY <1>2, <1>3 DEF SettingRecords, Left
  <2> QED BY <2>2, <2>3 DEF EnvOK
<1> QED BY <1>5, <1>6

\* At first all failures and power losses are still to come.
LEMMA EnvFirst ==
  ASSUME NEW s \in Settings
  PROVE  EnvOK([s EXCEPT !.bad = {}])
<1>1. s \in SettingRecords
  BY BmtV2Assumption
<1>2. s.faults \in 0 .. s.faults /\ s.crashes \in 0 .. s.crashes
  BY <1>1 DEF SettingRecords
<1>3. [s EXCEPT !.bad = {}] =
        Left(s, s.faults, s.crashes)
  BY <1>1 DEF SettingRecords, Left
<1> QED BY <1>2, <1>3 DEF EnvOK


\* The constants, for the provers.
LEMMA Sizes ==
  /\ NB \in Nat /\ PoolLba \in Nat /\ PoolLba > 2 /\ NB > PoolLba /\ NB < 65535
  /\ MaxRetry \in Nat /\ MaxVersion \in Nat /\ BbMax \in Nat
  /\ 0 \in Blocks /\ 0 \in LBlocks /\ 0 \in PoolIdx
  /\ LBlocks \subseteq Blocks /\ UBlocks \subseteq LBlocks
  /\ PoolIdx \subseteq Nat /\ NoIdx \notin PoolIdx /\ Blocks \subseteq Nat
BY BmtV2Assumption DEF Blocks, LBlocks, UBlocks, PoolIdx, NoIdx

\* What a block can hold.
LEMMA ContentKinds ==
  /\ Erased \in Contents /\ Junk \in Contents
  /\ \A t \in Bbbts : Table(t) \in Contents /\ Table(t).kind = "table" /\ Table(t).bbt = t
  /\ \A lb \in LBlocks, v \in 0 .. MaxVersion :
       Data(lb, v) \in Contents /\ Data(lb, v).kind = "data"
  /\ \A c \in Contents : c.kind = "table" => c.bbt \in Bbbts /\ c = Table(c.bbt)
  /\ Erased.kind = "erased" /\ Junk.kind = "junk"
<1>1. Erased \in Contents /\ Junk \in Contents
  BY DEF Contents
<1>2. ASSUME NEW t \in Bbbts
      PROVE  Table(t) \in Contents /\ Table(t).kind = "table" /\ Table(t).bbt = t
  BY DEF Table, Contents
<1>3. ASSUME NEW lb \in LBlocks, NEW v \in 0 .. MaxVersion
      PROVE  Data(lb, v) \in Contents /\ Data(lb, v).kind = "data"
  BY DEF Data, Contents
<1>4. ASSUME NEW c \in Contents, c.kind = "table" PROVE c.bbt \in Bbbts /\ c = Table(c.bbt)
  <2>1. c \in [kind: {"table"}, bbt: Bbbts]
    BY <1>4 DEF Contents, Erased, Junk
  <2> QED BY <2>1 DEF Table
<1>5. Erased.kind = "erased" /\ Junk.kind = "junk"
  BY DEF Erased, Junk
<1> QED BY <1>1, <1>2, <1>3, <1>4, <1>5

\* The blocks that scan_bad_blocks goes through.
LEMMA ValidFacts ==
  ASSUME NEW bad
  PROVE  /\ ValidBlocks(bad) \in SUBSET Blocks /\ ValidBlocks(bad) \in SUBSET Nat
         /\ ValidBlocks(bad) \in SUBSET Int
         /\ IsFiniteSet(ValidBlocks(bad))
         /\ Cardinality(ValidBlocks(bad)) \in Nat
<1>1. ValidBlocks(bad) \in SUBSET Blocks
  BY Sizes DEF ValidBlocks, Blocks
<1>2. IsFiniteSet(Blocks)
  BY Sizes, FS_Interval DEF Blocks
<1>3. IsFiniteSet(ValidBlocks(bad))
  BY <1>1, <1>2, FS_Subset
<1>4. Cardinality(ValidBlocks(bad)) \in Nat
  BY <1>3, FS_CardinalityType
<1>5. ValidBlocks(bad) \in SUBSET Nat /\ ValidBlocks(bad) \in SUBSET Int
  <2>1. Blocks \subseteq Nat /\ Nat \subseteq Int
    BY Sizes
  <2> QED BY <1>1, <2>1, Zenon
<1> QED BY <1>1, <1>3, <1>4, <1>5, Zenon

\* An entry of the pool or a logic block gets a block of the chip.
LEMMA NthBlock ==
  ASSUME NEW bad, NEW k \in Nat
  PROVE  Nth(ValidBlocks(bad), k) \in Blocks
<1> DEFINE valid == ValidBlocks(bad)
<1>1. /\ valid \in SUBSET Blocks /\ valid \in SUBSET Int /\ IsFiniteSet(valid)
  BY ValidFacts
<1>2. CASE k < Cardinality(valid)
  <2>1. Nth(valid, k) \in valid
    BY <1>1, <1>2, NthFound
  <2> QED BY <1>1, <2>1
<1>3. CASE ~(k < Cardinality(valid))
  BY <1>3, Sizes DEF Nth
<1> QED BY <1>2, <1>3

\* scan_bad_blocks makes a table.
LEMMA ScanTypes ==
  ASSUME NEW bad, NEW s \in ScanBadBlocks(bad)
  PROVE  s.bbt \in Bbbts /\ s.idx \in Nat
<1> DEFINE valid == ValidBlocks(bad)
           avail == Cardinality(valid) - PoolLba
           entry(i) == [block |-> Nth(valid, PoolLba + i),
                        mapped |-> IF i = avail - 1 THEN BMT_MAPPED ELSE NO_MAPPED]
<1>1. /\ ~(avail < 1)
      /\ s = [bbt |-> [map |-> [i \in LBlocks |-> Nth(valid, i)],
                       pool |-> [i \in PoolIdx |-> entry(i)]],
              idx |-> avail - 1]
  BY DEF ScanBadBlocks
<1>2. Cardinality(valid) \in Nat
  BY ValidFacts
<1>3. [i \in LBlocks |-> Nth(valid, i)] \in [LBlocks -> Blocks]
  <2>1. ASSUME NEW i \in LBlocks PROVE Nth(valid, i) \in Blocks
    BY NthBlock, Sizes DEF LBlocks
  <2> QED BY <2>1
<1>4. [i \in PoolIdx |-> entry(i)] \in [PoolIdx -> Entries]
  <2>1. ASSUME NEW i \in PoolIdx PROVE entry(i) \in Entries
    <3>1. PoolLba + i \in Nat
      BY Sizes
    <3>2. Nth(valid, PoolLba + i) \in Blocks
      BY <3>1, NthBlock
    <3> HIDE DEF valid, avail
    <3> QED BY <3>2 DEF Entries
  <2> HIDE DEF entry
  <2> QED BY <2>1
<1>5. s.bbt \in Bbbts
  <2> HIDE DEF valid, avail, entry
  <2> QED BY <1>1, <1>3, <1>4 DEF Bbbts
<1>6. s.idx = avail - 1
  <2> HIDE DEF valid, avail, entry
  <2> QED BY <1>1
<1> QED BY <1>1, <1>2, <1>5, <1>6, Sizes

\* The number of valid blocks is at most the number of blocks, so the index is one
\* of the pool.
LEMMA ScanIdx ==
  ASSUME NEW bad, NEW s \in ScanBadBlocks(bad)
  PROVE  s.idx \in PoolIdx /\ s.idx = Cardinality(ValidBlocks(bad)) - PoolLba - 1
<1> DEFINE valid == ValidBlocks(bad)
           avail == Cardinality(valid) - PoolLba
           entry(i) == [block |-> Nth(valid, PoolLba + i),
                        mapped |-> IF i = avail - 1 THEN BMT_MAPPED ELSE NO_MAPPED]
<1>1. /\ ~(avail < 1)
      /\ s = [bbt |-> [map |-> [i \in LBlocks |-> Nth(valid, i)],
                       pool |-> [i \in PoolIdx |-> entry(i)]],
              idx |-> avail - 1]
  BY DEF ScanBadBlocks
<1>2. Cardinality(valid) \in Nat /\ valid \in SUBSET Blocks
  BY ValidFacts
<1>3. IsFiniteSet(Blocks) /\ Cardinality(Blocks) = NB
  <2>1. 0 \in Int /\ NB - 1 \in Int /\ NB - 1 >= 0
    BY Sizes
  <2>2. IsFiniteSet(0 .. NB - 1) /\ Cardinality(0 .. NB - 1) = (NB - 1) - 0 + 1
    BY <2>1, FS_Interval
  <2> QED BY <2>2, Sizes DEF Blocks
<1>4. Cardinality(valid) <= NB
  BY <1>2, <1>3, FS_Subset
<1>5. s.idx = avail - 1
  <2> HIDE DEF valid, avail, entry
  <2> QED BY <1>1
<1> QED BY <1>1, <1>2, <1>4, <1>5, Sizes DEF PoolIdx

\* get_bmt_index returns an index of the pool.
LEMMA BmtIndexType ==
  ASSUME NEW pool
  PROVE  BmtIndex(pool) \in PoolIdx
<1> DEFINE is(i) == pool[i].mapped = BMT_MAPPED /\ \A k \in 0 .. i : pool[k].block # 0
           found == {i \in PoolIdx : is(i)}
<1>1. found \in SUBSET Nat
  <2>1. PoolIdx \subseteq Nat
    BY Sizes
  <2> HIDE DEF is
  <2> QED BY <2>1, Zenon
<1>2. found # {} => Min(found) \in found
  BY <1>1, MinFound
<1>3. BmtIndex(pool) = IF found = {} THEN 0 ELSE Min(found)
  BY DEF BmtIndex
<1> HIDE DEF is
<1> QED BY <1>2, <1>3, Sizes

\* The table that init loads is a table.
LEMMA LoadTypes ==
  ASSUME flash \in [Blocks -> Contents], NEW ecc, NEW b \in LoadTable(ecc)
  PROVE  b \in Bbbts
<1> DEFINE valid == {c \in PoolLba .. NB - 1 : flash[c].kind = "table" /\ c \notin ecc}
<1>1. valid # {} /\ b = flash[Max(valid)].bbt
  BY DEF LoadTable
<1>2. valid \in SUBSET (0 .. NB - 1) /\ NB - 1 \in Nat
  BY Sizes
<1>3. Max(valid) \in valid
  BY <1>1, <1>2, MaxFound
<1>4. Max(valid) \in Blocks /\ flash[Max(valid)].kind = "table"
  BY <1>3, <1>2 DEF Blocks
<1>5. flash[Max(valid)] \in Contents
  BY <1>4
<1> QED BY <1>1, <1>4, <1>5, ContentKinds


Wants == [UBlocks -> [st: {"none", "erased", "data"}, v: 0 .. MaxVersion]]

\* From p a caller goes on to q within the same call, or returns.
SameCall(p, q) ==
  /\ q \in Places
  /\ q.at \in {"take", "bmt_write"} => q.n \in PoolIdx
  /\ q.at # "idle" => p.at # "idle" /\ q.op = p.op /\ q.lb = p.lb

\* A call begins at q.
NewCall(q) ==
  /\ q \in Places
  /\ q.at \notin {"take", "bmt_write"}
  /\ q.op = "write" => q.lb \in UBlocks /\ want'[q.lb].v < MaxVersion /\ ~Busy(q.lb)

\* One caller takes a step.
LEMMA GoFacts ==
  ASSUME pc \in [Callers -> Places], NEW t \in Callers, NEW q \in Places, Go(t, q)
  PROVE  /\ pc' \in [Callers -> Places] /\ pc'[t] = q
         /\ \A u \in Callers : u # t => pc'[u] = pc[u]
BY DEF Go

\* A step within a call, in which only a write that returns counts up a version.
LEMMA SameCallPlaced ==
  ASSUME TypeInv, NEW t \in Callers, NEW q, Go(t, q), SameCall(pc[t], q),
         \A lb \in UBlocks :
           \/ want'[lb].v = want[lb].v
           \/ pc[t].at # "idle" /\ pc[t].op = "write" /\ pc[t].lb = lb /\ q.at = "idle"
  PROVE  pc' \in [Callers -> Places] /\ Placed'
<1>1. /\ pc' \in [Callers -> Places] /\ pc'[t] = q
      /\ \A u \in Callers : u # t => pc'[u] = pc[u]
  BY GoFacts DEF TypeInv, TypeOK, SameCall
<1>2. ASSUME NEW u \in Callers
      PROVE  pc'[u].at \in {"take", "bmt_write"} => pc'[u].n \in PoolIdx
  BY <1>1 DEF TypeInv, Placed, SameCall
<1>3. ASSUME NEW u \in Callers, pc'[u].at # "idle", pc'[u].op = "write"
      PROVE  /\ pc[u].at # "idle" /\ pc[u].op = "write" /\ pc[u].lb = pc'[u].lb
  BY <1>1, <1>3 DEF SameCall
<1>4. ASSUME NEW u \in Callers, pc'[u].at # "idle", pc'[u].op = "write"
      PROVE  /\ pc'[u].lb \in UBlocks /\ want'[pc'[u].lb].v < MaxVersion
             /\ \A w \in Callers \ {u} :
                  pc'[w].at # "idle" /\ pc'[w].op = "write" => pc'[w].lb # pc'[u].lb
  <2>1. /\ pc[u].lb \in UBlocks /\ want[pc[u].lb].v < MaxVersion
        /\ \A w \in Callers \ {u} :
             pc[w].at # "idle" /\ pc[w].op = "write" => pc[w].lb # pc[u].lb
    BY <1>3, <1>4 DEF TypeInv, Placed
  <2>2. want'[pc[u].lb].v = want[pc[u].lb].v
    <3>1. CASE u = t
      BY <1>1, <1>4, <2>1, <3>1
    <3>2. CASE u # t
      BY <2>1, <3>2
    <3> QED BY <3>1, <3>2
  <2>3. pc'[u].lb = pc[u].lb
    BY <1>3, <1>4
  <2>4. ASSUME NEW w \in Callers \ {u}, pc'[w].at # "idle", pc'[w].op = "write"
        PROVE  pc'[w].lb # pc'[u].lb
    BY <1>3, <2>1, <2>3, <2>4
  <2> QED BY <2>1, <2>2, <2>3, <2>4
<1> QED BY <1>1, <1>2, <1>4 DEF Placed

\* The first step of a call.
LEMMA NewCallPlaced ==
  ASSUME TypeInv, NEW t \in Callers, NEW q, Go(t, q), NewCall(q),
         \A lb \in UBlocks : want'[lb].v = want[lb].v
  PROVE  pc' \in [Callers -> Places] /\ Placed'
<1>1. /\ pc' \in [Callers -> Places] /\ pc'[t] = q
      /\ \A u \in Callers : u # t => pc'[u] = pc[u]
  BY GoFacts DEF TypeInv, TypeOK, NewCall
<1>2. ASSUME NEW u \in Callers
      PROVE  pc'[u].at \in {"take", "bmt_write"} => pc'[u].n \in PoolIdx
  BY <1>1 DEF TypeInv, Placed, NewCall
<1>3. ASSUME NEW u \in Callers, pc'[u].at # "idle", pc'[u].op = "write"
      PROVE  /\ pc'[u].lb \in UBlocks /\ want'[pc'[u].lb].v < MaxVersion
  BY <1>1, <1>3 DEF NewCall, TypeInv, Placed
<1>4. ASSUME NEW u \in Callers, pc'[u].at # "idle", pc'[u].op = "write",
             NEW w \in Callers \ {u}, pc'[w].at # "idle", pc'[w].op = "write"
      PROVE  pc'[w].lb # pc'[u].lb
  <2>1. CASE u # t /\ w # t
    BY <1>1, <1>4, <2>1 DEF TypeInv, Placed
  <2>2. CASE u = t
    BY <1>1, <1>4, <2>2 DEF NewCall, Busy
  <2>3. CASE w = t
    BY <1>1, <1>4, <2>3 DEF NewCall, Busy
  <2> QED BY <2>1, <2>2, <2>3
<1> QED BY <1>1, <1>2, <1>3, <1>4 DEF Placed


\* Places that differ from a place in where they are.
LEMMA PlaceAt ==
  ASSUME NEW p \in Places, NEW a \in Sites
  PROVE  LET q == [p EXCEPT !.at = a]
         IN  /\ q \in Places /\ q.at = a /\ q.op = p.op /\ q.lb = p.lb /\ q.n = p.n
             /\ q.old = p.old /\ q.new = p.new /\ q.copy = p.copy /\ q.again = p.again
             /\ q.retry = p.retry
BY DEF Places

\* The place from which upload_bmt is entered.
LEMMA UploadPlace ==
  ASSUME NEW p \in Places, NEW n \in PoolIdx \union {-1, NoIdx}
  PROVE  LET q == Upload(p, n)
         IN  /\ q \in Places /\ q.at = "bmt_erase" /\ q.op = p.op /\ q.lb = p.lb /\ q.n = n
             /\ q.old = p.old /\ q.new = p.new /\ q.copy = p.copy /\ q.again = p.again
             /\ q.retry = p.retry
BY DEF Places, Upload, Sites

\* The place of a caller who is idle.
LEMMA RestPlace ==
  /\ Rest \in Places /\ Rest.at = "idle" /\ Rest.op = "attach" /\ Rest.lb = 0
  /\ ~Rest.again /\ ~Rest.copy
BY Sizes DEF Places, Rest, Sites, Ops

\* The place of a caller has the fields of one.
LEMMA PlaceFields ==
  ASSUME NEW p \in Places
  PROVE  /\ p.at \in Sites /\ p.op \in Ops /\ p.lb \in LBlocks /\ p.old \in Blocks
         /\ p.new \in Blocks /\ p.n \in PoolIdx \union {-1, NoIdx}
         /\ p.copy \in BOOLEAN /\ p.again \in BOOLEAN /\ p.retry \in 0 .. MaxRetry
BY DEF Places

\* The block that a logic block is mapped to.
LEMMA MappingType ==
  ASSUME bbt \in Bbbts, NEW lb \in LBlocks
  PROVE  Mapping(lb) \in Blocks
<1>1. bbt.map \in [LBlocks -> Blocks]
  BY DEF Bbbts
<1> QED BY <1>1, Sizes DEF Mapping

\* An entry of the pool.
LEMMA PoolType ==
  ASSUME NEW t \in Bbbts, NEW i \in PoolIdx
  PROVE  /\ t.pool[i] \in Entries /\ t.pool[i].block \in Blocks
         /\ t.pool[i].mapped \in {NO_MAPPED, NORMAL_MAPPED, BMT_MAPPED}
         /\ t.pool[i] = [block |-> t.pool[i].block, mapped |-> t.pool[i].mapped]
<1>1. t.pool \in [PoolIdx -> Entries]
  BY DEF Bbbts
<1>2. t.pool[i] \in Entries
  BY <1>1
<1> QED BY <1>2 DEF Entries

\* Tables that differ from a table.
LEMMA TableTypes ==
  ASSUME NEW t \in Bbbts, NEW b \in Blocks
  PROVE  /\ \A lb \in LBlocks : [t EXCEPT !.map[lb] = b] \in Bbbts
         /\ \A i \in PoolIdx : [t EXCEPT !.pool[i].block = b] \in Bbbts
         /\ \A i \in PoolIdx, lb \in LBlocks :
              [t EXCEPT !.pool[i].mapped = NORMAL_MAPPED, !.map[lb] = b] \in Bbbts
<1>1. ASSUME NEW lb \in LBlocks PROVE [t EXCEPT !.map[lb] = b] \in Bbbts
  BY DEF Bbbts
<1>2. ASSUME NEW i \in PoolIdx PROVE [t EXCEPT !.pool[i].block = b] \in Bbbts
  BY DEF Bbbts, Entries
<1>3. ASSUME NEW i \in PoolIdx, NEW lb \in LBlocks
      PROVE  [t EXCEPT !.pool[i].mapped = NORMAL_MAPPED, !.map[lb] = b] \in Bbbts
  BY DEF Bbbts, Entries
<1> QED BY <1>1, <1>2, <1>3

\* A failure that happens was one of those to come.
LEMMA FaultSpends ==
  ASSUME EnvOK(env), NEW b, MayFail(b), OneFault
  PROVE  EnvOK(env')
BY EnvSpends DEF MayFail, OneFault

\* upload_bmt runs out of blocks: the types are kept.
LEMMA UploadFailsTypes ==
  ASSUME TypeInv, NEW t \in Callers, UploadFails(t)
  PROVE  TypeInv'
<1>1. pc[t] \in Places
  BY DEF TypeInv, TypeOK
<1>2. SameCall(pc[t], [pc[t] EXCEPT !.at = "return"])
  <2>1. "return" \in Sites
    BY DEF Sites
  <2> QED BY <1>1, <2>1, PlaceAt DEF SameCall, UploadFails
<1>3. pc' \in [Callers -> Places] /\ Placed'
  BY <1>2, SameCallPlaced DEF UploadFails
<1> QED BY <1>3 DEF TypeInv, TypeOK, UploadFails

\* upload_bmt erases the block of the table: the types are kept.
LEMMA BmtEraseTypes ==
  ASSUME TypeInv, NEW t \in Callers, BmtErase(t)
  PROVE  TypeInv'
<1> DEFINE p == pc[t]
           q == [p EXCEPT !.at = "bmt_write", !.new = bbt.pool[p.n].block]
<1>1. p \in Places /\ bbt \in Bbbts /\ flash \in [Blocks -> Contents]
  BY DEF TypeInv, TypeOK
<1>2. p.n \in PoolIdx
  BY DEF BmtErase, NoSpace
<1>3. bbt.pool[p.n].block \in Blocks
  BY <1>1, <1>2, PoolType
<1>4. SameCall(p, q)
  <2>1. /\ q \in Places /\ q.op = p.op /\ q.lb = p.lb /\ q.n = p.n
    <3> HIDE DEF p
    <3> QED BY <1>1, <1>3 DEF Places, Sites
  <2>2. p.at # "idle"
    BY DEF BmtErase
  <2> QED BY <1>2, <2>1, <2>2 DEF SameCall
<1>5. pc' \in [Callers -> Places] /\ Placed'
  BY <1>4, SameCallPlaced DEF BmtErase
<1>6. flash' \in [Blocks -> Contents]
  BY <1>1, ContentKinds DEF BmtErase
<1> QED BY <1>5, <1>6 DEF TypeInv, TypeOK, BmtErase

\* upload_bmt writes the table: the types are kept.
LEMMA BmtWriteTypes ==
  ASSUME TypeInv, NEW t \in Callers, BmtWrite(t)
  PROVE  TypeInv'
<1> DEFINE p == pc[t]
<1>1. p \in Places /\ bbt \in Bbbts /\ flash \in [Blocks -> Contents]
  BY DEF TypeInv, TypeOK
<1>2. p.n \in PoolIdx
  BY DEF BmtWrite, TypeInv, Placed
<1>3. SameCall(p, [p EXCEPT !.at = "return"])
  <2>1. "return" \in Sites
    BY DEF Sites
  <2> QED BY <1>1, <2>1, PlaceAt DEF SameCall, BmtWrite
<1>4. pc' \in [Callers -> Places] /\ Placed'
  BY <1>3, SameCallPlaced DEF BmtWrite
<1>5. flash' \in [Blocks -> Contents]
  <2>1. Programmed(p.new, Table(bbt)) \in Contents
    BY <1>1, ContentKinds DEF Programmed
  <2> QED BY <1>1, <2>1 DEF BmtWrite
<1> QED BY <1>2, <1>4, <1>5 DEF TypeInv, TypeOK, BmtWrite

\* upload_bmt fails on a block and tries the one before: the types are kept.
LEMMA UploadRetriesTypes ==
  ASSUME TypeInv, NEW t \in Callers, UploadRetries(t)
  PROVE  TypeInv'
<1> DEFINE p == pc[t]
           b == IF p.at = "bmt_erase" THEN bbt.pool[p.n].block ELSE p.new
<1>1. /\ p \in Places /\ bbt \in Bbbts /\ flash \in [Blocks -> Contents] /\ worn \subseteq Blocks
      /\ EnvOK(env)
  BY DEF TypeInv, TypeOK, EnvOK
<1>2. p.n \in PoolIdx
  BY DEF UploadRetries, NoSpace
<1>3. b \in Blocks
  BY <1>1, <1>2, PoolType, PlaceFields
<1>4. SameCall(p, Upload(p, p.n - 1))
  <2>1. p.n - 1 \in PoolIdx \union {-1, NoIdx}
    BY <1>2, Sizes DEF PoolIdx
  <2>2. p.at # "idle"
    BY DEF UploadRetries
  <2> QED BY <1>1, <2>1, <2>2, UploadPlace DEF SameCall
<1>5. pc' \in [Callers -> Places] /\ Placed'
  <2>1. Go(t, Upload(p, p.n - 1)) /\ want' = want
    BY DEF UploadRetries
  <2> QED BY <1>4, <2>1, SameCallPlaced
<1>6. flash' \in [Blocks -> Contents]
  <2>1. PICK c \in {flash[b], Junk} : flash' = [flash EXCEPT ![b] = c]
    BY DEF UploadRetries
  <2>2. c \in Contents
    BY <1>1, <1>3, <2>1, ContentKinds
  <2> QED BY <1>1, <2>1, <2>2
<1>7. bbt' \in Bbbts
  <2>1. bbt' = [bbt EXCEPT !.pool[p.n].block = 0]
    BY DEF UploadRetries
  <2>2. 0 \in Blocks
    BY Sizes
  <2>3. [bbt EXCEPT !.pool[p.n].block = 0] \in Bbbts
    BY <1>1, <1>2, <2>2, TableTypes
  <2> QED BY <2>1, <2>3
<1>8. EnvOK(env')
  BY <1>1, FaultSpends DEF UploadRetries
<1>9. worn' \subseteq Blocks
  BY <1>1, <1>3 DEF UploadRetries
<1> QED BY <1>5, <1>6, <1>7, <1>8, <1>9 DEF TypeInv, TypeOK, UploadRetries, EnvOK

\* A remap that is refused: the types are kept.
LEMMA RemapRefusedTypes ==
  ASSUME TypeInv, NEW t \in Callers, RemapRefused(t)
  PROVE  TypeInv'
<1> DEFINE p == pc[t]
           q == [p EXCEPT !.at = "return", !.again = FALSE]
<1>1. p \in Places
  BY DEF TypeInv, TypeOK
<1>2. SameCall(p, q)
  <2>1. q \in Places /\ q.op = p.op /\ q.lb = p.lb /\ q.at = "return"
    <3> HIDE DEF p
    <3> QED BY <1>1 DEF Places, Sites
  <2> QED BY <2>1 DEF SameCall, RemapRefused
<1>3. pc' \in [Callers -> Places] /\ Placed'
  BY <1>2, SameCallPlaced DEF RemapRefused
<1> QED BY <1>3 DEF TypeInv, TypeOK, RemapRefused

\* The entry that is found is one of the pool in front of the table's.
LEMMA FoundFree ==
  ASSUME FreeEntries # {}
  PROVE  Min(FreeEntries) \in FreeEntries /\ Min(FreeEntries) \in PoolIdx
<1>1. FreeEntries \subseteq PoolIdx
  BY DEF FreeEntries
<1>2. FreeEntries \in SUBSET Nat
  <2>1. PoolIdx \subseteq Nat
    BY Sizes
  <2> QED BY <1>1, <2>1, Zenon
<1>3. Min(FreeEntries) \in FreeEntries
  BY <1>2, MinFound
<1> QED BY <1>1, <1>3

\* find_valid_block_in_pool finds an entry: the types are kept.
LEMMA FindEntryTypes ==
  ASSUME TypeInv, NEW t \in Callers, FindEntry(t)
  PROVE  TypeInv'
<1> DEFINE p == pc[t]
           q == [p EXCEPT !.at = "take", !.n = Min(FreeEntries)]
<1>1. p \in Places
  BY DEF TypeInv, TypeOK
<1>2. Min(FreeEntries) \in PoolIdx
  BY FoundFree DEF FindEntry
<1>3. SameCall(p, q)
  <2>1. q \in Places /\ q.op = p.op /\ q.lb = p.lb /\ q.at = "take" /\ q.n = Min(FreeEntries)
    <3> HIDE DEF p
    <3> QED BY <1>1, <1>2 DEF Places, Sites
  <2> QED BY <1>2, <2>1 DEF SameCall, FindEntry
<1>4. pc' \in [Callers -> Places] /\ Placed'
  BY <1>3, SameCallPlaced DEF FindEntry
<1> QED BY <1>4 DEF TypeInv, TypeOK, FindEntry

\* The entry found is marked and mapped: the types are kept.
LEMMA TakeEntryTypes ==
  ASSUME TypeInv, NEW t \in Callers, TakeEntry(t)
  PROVE  TypeInv'
<1> DEFINE p == pc[t]
           b == bbt.pool[p.n].block
           c == IF b = 0 THEN bbt.map[p.lb] ELSE b
           r == [p EXCEPT !.at = "return", !.again = FALSE]
           e == [p EXCEPT !.at = "new_erase", !.new = b]
           q == IF b = 0 THEN r ELSE e
<1>1. p \in Places /\ bbt \in Bbbts
  BY DEF TypeInv, TypeOK
<1>2. p.n \in PoolIdx /\ p.lb \in LBlocks
  BY <1>1, PlaceFields DEF TakeEntry, TypeInv, Placed
<1>3. b \in Blocks /\ c \in Blocks
  <2>1. bbt.map[p.lb] \in Blocks
    BY <1>1, <1>2 DEF Bbbts
  <2> QED BY <1>1, <1>2, <2>1, PoolType
<1>4. SameCall(p, q)
  <2>1. r \in Places /\ r.op = p.op /\ r.lb = p.lb /\ r.at = "return"
    <3> HIDE DEF p
    <3> QED BY <1>1 DEF Places, Sites
  <2>2. e \in Places /\ e.op = p.op /\ e.lb = p.lb /\ e.at = "new_erase"
    <3> HIDE DEF p, b
    <3> QED BY <1>1, <1>3 DEF Places, Sites
  <2>3. p.at = "take"
    BY DEF TakeEntry
  <2> HIDE DEF p, b, r, e
  <2> QED BY <2>1, <2>2, <2>3 DEF SameCall
<1>5. pc' \in [Callers -> Places] /\ Placed'
  <2>1. Go(t, q) /\ UNCHANGED want
    BY DEF TakeEntry
  <2> HIDE DEF q
  <2> QED BY <1>4, <2>1, SameCallPlaced
<1>6. bbt' \in Bbbts
  <2>1. bbt' = [bbt EXCEPT !.pool[p.n].mapped = NORMAL_MAPPED, !.map[p.lb] = c]
    BY <1>1 DEF TakeEntry, Bbbts
  <2> HIDE DEF c
  <2> QED BY <1>1, <1>2, <1>3, <2>1, TableTypes
<1> QED BY <1>5, <1>6 DEF TypeInv, TypeOK, TakeEntry


\* Where a remap goes on after erasing the new block and after copying to it.
LEMMA AfterTypes ==
  ASSUME NEW p \in Places, idx \in PoolIdx \union {NoIdx}, p.at # "idle"
  PROVE  SameCall(p, AfterErase(p)) /\ SameCall(p, AfterCopy(p))
<1>1. SameCall(p, Upload(p, idx))
  BY UploadPlace DEF SameCall
<1>2. SameCall(p, [p EXCEPT !.at = "copy_read"])
  <2>1. "copy_read" \in Sites
    BY DEF Sites
  <2> QED BY <2>1, PlaceAt DEF SameCall
<1>3. SameCall(p, Rest)
  BY RestPlace DEF SameCall
<1> QED BY <1>1, <1>2, <1>3 DEF AfterErase, AfterCopy

\* The new block is erased: the types are kept.
LEMMA NewEraseTypes ==
  ASSUME TypeInv, NEW t \in Callers, NewErase(t)
  PROVE  TypeInv'
<1>1. /\ pc[t] \in Places /\ flash \in [Blocks -> Contents] /\ idx \in PoolIdx \union {NoIdx}
      /\ pc[t].at # "idle"
  BY DEF TypeInv, TypeOK, NewErase
<1>2. SameCall(pc[t], AfterErase(pc[t]))
  BY <1>1, AfterTypes
<1>3. pc' \in [Callers -> Places] /\ Placed'
  BY <1>2, SameCallPlaced DEF NewErase
<1>4. flash' \in [Blocks -> Contents]
  BY <1>1, ContentKinds DEF NewErase
<1> QED BY <1>3, <1>4 DEF TypeInv, TypeOK, NewErase

\* bbt_nand_copy reads the old block: the types are kept.
LEMMA CopyReadTypes ==
  ASSUME TypeInv, NEW t \in Callers, CopyRead(t)
  PROVE  TypeInv'
<1> DEFINE p == pc[t]
           ok == flash[p.old] # Junk
           q == IF ok THEN [p EXCEPT !.at = "copy_write"] ELSE AfterCopy(p)
<1>1. /\ p \in Places /\ flash \in [Blocks -> Contents] /\ idx \in PoolIdx \union {NoIdx}
      /\ p.at # "idle" /\ databuf \in Contents
  BY DEF TypeInv, TypeOK, CopyRead
<1>2. SameCall(p, q)
  <2>1. "copy_write" \in Sites
    BY DEF Sites
  <2>2. SameCall(p, [p EXCEPT !.at = "copy_write"]) \/ ~ok
    <3>1. SameCall(p, [p EXCEPT !.at = "copy_write"])
      <4> HIDE DEF p
      <4> QED BY <1>1, <2>1, PlaceAt DEF SameCall
    <3> QED BY <3>1
  <2>3. SameCall(p, AfterCopy(p))
    BY <1>1, AfterTypes
  <2> HIDE DEF p, ok
  <2> QED BY <2>2, <2>3
<1>3. Go(t, q) /\ want' = want
  BY DEF CopyRead
<1>4. pc' \in [Callers -> Places] /\ Placed'
  <2> HIDE DEF q
  <2> QED BY <1>2, <1>3, SameCallPlaced
<1>5. databuf' \in Contents
  <2>1. p.old \in Blocks
    BY <1>1, PlaceFields
  <2> QED BY <1>1, <2>1 DEF CopyRead
<1> QED BY <1>4, <1>5 DEF TypeInv, TypeOK, CopyRead

\* bbt_nand_copy writes the new block: the types are kept.
LEMMA CopyWriteTypes ==
  ASSUME TypeInv, NEW t \in Callers, CopyWrite(t)
  PROVE  TypeInv'
<1> DEFINE p == pc[t]
<1>1. /\ p \in Places /\ flash \in [Blocks -> Contents] /\ idx \in PoolIdx \union {NoIdx}
      /\ p.at # "idle" /\ databuf \in Contents
  BY DEF TypeInv, TypeOK, CopyWrite
<1>2. SameCall(p, AfterCopy(p))
  BY <1>1, AfterTypes
<1>3. pc' \in [Callers -> Places] /\ Placed'
  BY <1>2, SameCallPlaced DEF CopyWrite
<1>4. flash' \in [Blocks -> Contents]
  <2>1. p.new \in Blocks
    BY <1>1, PlaceFields
  <2>2. Programmed(p.new, databuf) \in Contents /\ flash[p.new] \in Contents
    BY <1>1, <2>1, ContentKinds DEF Programmed
  <2>3. flash' = [flash EXCEPT ![p.new] = IF databuf = Erased THEN flash[p.new]
                                          ELSE Programmed(p.new, databuf)]
    BY DEF CopyWrite
  <2> QED BY <1>1, <2>2, <2>3
<1> QED BY <1>3, <1>4 DEF TypeInv, TypeOK, CopyWrite

\* The new block fails: the types are kept.
LEMMA NewFailsTypes ==
  ASSUME TypeInv, NEW t \in Callers, NewFails(t)
  PROVE  TypeInv'
<1> DEFINE p == pc[t]
           q == IF p.at = "new_erase" THEN AfterErase(p) ELSE AfterCopy(p)
<1>1. /\ p \in Places /\ flash \in [Blocks -> Contents] /\ idx \in PoolIdx \union {NoIdx}
      /\ p.at # "idle" /\ worn \subseteq Blocks /\ EnvOK(env)
  BY DEF TypeInv, TypeOK, NewFails, EnvOK
<1>2. SameCall(p, q)
  <2>1. SameCall(p, AfterErase(p)) /\ SameCall(p, AfterCopy(p))
    BY <1>1, AfterTypes
  <2> HIDE DEF p
  <2> QED BY <2>1
<1>3. Go(t, q) /\ want' = want
  BY DEF NewFails
<1>4. pc' \in [Callers -> Places] /\ Placed'
  <2> HIDE DEF q
  <2> QED BY <1>2, <1>3, SameCallPlaced
<1>5. flash' \in [Blocks -> Contents]
  BY <1>1, ContentKinds DEF NewFails
<1>6. EnvOK(env')
  BY <1>1, FaultSpends DEF NewFails
<1>7. worn' \subseteq Blocks
  BY <1>1, PlaceFields DEF NewFails
<1> QED BY <1>4, <1>5, <1>6, <1>7 DEF TypeInv, TypeOK, NewFails, EnvOK

\* A promise keeps or sets the version.
LEMMA PromiseTypes ==
  ASSUME want \in Wants, NEW lb, NEW st \in {"none", "erased", "data"}, NEW v,
         Promise(lb, st, v), lb \in UBlocks => v \in 0 .. MaxVersion
  PROVE  /\ want' \in Wants
         /\ \A i \in UBlocks : i # lb => want'[i] = want[i]
         /\ lb \in UBlocks => want'[lb] = [st |-> st, v |-> v] /\ want'[lb].v = v
BY DEF Wants, Promise

\* ... or changes the state only.
LEMMA PromiseKeeps ==
  ASSUME want \in Wants, NEW lb, NEW st \in {"none", "erased", "data"},
         Promise(lb, st, want[lb].v)
  PROVE  want' \in Wants /\ \A i \in UBlocks : want'[i].v = want[i].v
<1>1. lb \in UBlocks => want[lb].v \in 0 .. MaxVersion
  BY DEF Wants
<1>2. /\ want' \in Wants
      /\ \A i \in UBlocks : i # lb => want'[i] = want[i]
      /\ lb \in UBlocks => want'[lb].v = want[lb].v
  BY <1>1, PromiseTypes
<1> QED BY <1>2

\* An MTD operation begins: the types are kept.
LEMMA StartTypes ==
  ASSUME TypeInv, NEW t \in Callers, NEW lb \in UBlocks,
         NEW op \in {"read", "write", "erase", "isbad"}, Start(t, op, lb)
  PROVE  TypeInv'
<1> DEFINE q == [Rest EXCEPT !.at = "access", !.op = op, !.lb = lb, !.old = Mapping(lb)]
<1>1. want \in Wants /\ bbt \in Bbbts /\ lb \in LBlocks
  BY Sizes DEF TypeInv, TypeOK, Wants
<1>2. Mapping(lb) \in Blocks
  BY <1>1, MappingType
<1>3. q \in Places /\ q.at = "access" /\ q.op = op /\ q.lb = lb
  BY <1>1, <1>2, RestPlace DEF Places, Sites, Ops
<1>4. want' \in Wants /\ \A i \in UBlocks : want'[i].v = want[i].v
  <2>1. CASE op \in {"read", "isbad"}
    BY <1>1, <2>1 DEF Start
  <2>2. CASE op \notin {"read", "isbad"}
    BY <1>1, <2>2, PromiseKeeps DEF Start
  <2> QED BY <2>1, <2>2
<1>5. NewCall(q)
  <2>1. op = "write" => want[lb].v < MaxVersion /\ ~Busy(lb)
    BY DEF Start, Calls
  <2> HIDE DEF q
  <2> QED BY <1>3, <1>4, <2>1 DEF NewCall
<1>6. pc' \in [Callers -> Places] /\ Placed'
  <2>1. Go(t, q)
    BY DEF Start
  <2> HIDE DEF q
  <2> QED BY <1>4, <1>5, <2>1, NewCallPlaced
<1> QED BY <1>4, <1>6 DEF TypeInv, TypeOK, Start, Wants

\* The operation of the chip succeeds: the types are kept.
LEMMA AccessTypes ==
  ASSUME TypeInv, NEW t \in Callers, Access(t)
  PROVE  TypeInv'
<1> DEFINE p == pc[t]
<1>1. /\ p \in Places /\ flash \in [Blocks -> Contents] /\ want \in Wants
      /\ p.at # "idle" /\ p.lb \in LBlocks
  BY PlaceFields DEF TypeInv, TypeOK, Access, Wants
<1>2. SameCall(p, Rest)
  BY RestPlace DEF SameCall
<1>3. CASE p.op = "write"
  <2>1. /\ p.lb \in UBlocks /\ want[p.lb].v < MaxVersion
    BY <1>1, <1>3 DEF TypeInv, Placed
  <2>2. want[p.lb].v + 1 \in 0 .. MaxVersion
    <3>1. want[p.lb].v \in 0 .. MaxVersion
      BY <1>1, <2>1 DEF Wants
    <3>2. MaxVersion \in Nat
      BY Sizes
    <3> QED BY <2>1, <3>1, <3>2
  <2>3. Promise(p.lb, "data", want[p.lb].v + 1)
    BY <1>3 DEF Access
  <2>4. want' \in Wants /\ \A i \in UBlocks : i # p.lb => want'[i] = want[i]
    <3>1. "data" \in {"none", "erased", "data"}
      OBVIOUS
    <3> HIDE DEF p
    <3> QED BY <1>1, <2>2, <2>3, <3>1, PromiseTypes
  <2>5. pc' \in [Callers -> Places] /\ Placed'
    <3>1. Rest.at = "idle"
      BY RestPlace
    <3>2. Go(t, Rest)
      BY DEF Access
    <3>3. \A lb \in UBlocks :
            \/ want'[lb].v = want[lb].v
            \/ pc[t].at # "idle" /\ pc[t].op = "write" /\ pc[t].lb = lb /\ Rest.at = "idle"
      BY <1>1, <1>3, <2>4, <3>1
    <3> QED BY <1>2, <3>2, <3>3, SameCallPlaced
  <2>6. flash' \in [Blocks -> Contents]
    <3>1. Programmed(p.old, Data(p.lb, want[p.lb].v + 1)) \in Contents
      BY <1>1, <2>2, ContentKinds DEF Programmed
    <3>2. flash' = [flash EXCEPT ![p.old] =
                      Programmed(p.old, Data(p.lb, want[p.lb].v + 1))]
      BY <1>3 DEF Access
    <3> QED BY <1>1, <3>1, <3>2
  <2> QED BY <2>4, <2>5, <2>6 DEF TypeInv, TypeOK, Access, Wants
<1>4. CASE p.op # "write"
  <2>1. want' \in Wants /\ \A i \in UBlocks : want'[i].v = want[i].v
    <3>1. CASE p.op = "erase"
      BY <1>1, <3>1, PromiseKeeps DEF Access
    <3>2. CASE p.op # "erase"
      BY <1>1, <1>4, <3>2 DEF Access
    <3> QED BY <3>1, <3>2
  <2>2. pc' \in [Callers -> Places] /\ Placed'
    BY <1>2, <2>1, SameCallPlaced DEF Access
  <2>3. flash' \in [Blocks -> Contents]
    BY <1>1, <1>4, ContentKinds DEF Access
  <2> QED BY <2>1, <2>2, <2>3 DEF TypeInv, TypeOK, Access, Wants
<1> QED BY <1>3, <1>4


\* mtk_bmt_block_isbad finds a mark: the types are kept.
LEMMA IsBadTypes ==
  ASSUME TypeInv, NEW t \in Callers, IsBad(t)
  PROVE  TypeInv'
<1> DEFINE p == pc[t]
           q == [p EXCEPT !.at = "find", !.copy = TRUE, !.again = TRUE]
<1>1. p \in Places
  BY DEF TypeInv, TypeOK
<1>2. SameCall(p, q)
  <2>1. q \in Places /\ q.op = p.op /\ q.lb = p.lb /\ q.at = "find"
    <3> HIDE DEF p
    <3> QED BY <1>1 DEF Places, Sites
  <2> QED BY <2>1 DEF SameCall, IsBad
<1>3. pc' \in [Callers -> Places] /\ Placed'
  BY <1>2, SameCallPlaced DEF IsBad
<1> QED BY <1>3 DEF TypeInv, TypeOK, IsBad

\* The operation of the chip fails: the types are kept.
LEMMA AccessFailsTypes ==
  ASSUME TypeInv, NEW t \in Callers, AccessFails(t)
  PROVE  TypeInv'
<1> DEFINE p == pc[t]
           q == [p EXCEPT !.at = "find", !.copy = p.op = "read", !.again = TRUE]
<1>1. /\ p \in Places /\ flash \in [Blocks -> Contents] /\ want \in Wants
      /\ p.at # "idle" /\ worn \subseteq Blocks /\ EnvOK(env)
  BY DEF TypeInv, TypeOK, AccessFails, Wants, EnvOK
<1>2. SameCall(p, q)
  <2>1. q \in Places /\ q.op = p.op /\ q.lb = p.lb /\ q.at = "find"
    <3> HIDE DEF p
    <3> QED BY <1>1 DEF Places, Sites
  <2> QED BY <1>1, <2>1 DEF SameCall
<1>3. want' \in Wants /\ \A i \in UBlocks : want'[i].v = want[i].v
  <2>1. CASE p.op = "read"
    BY <1>1, <2>1, PromiseKeeps DEF AccessFails
  <2>2. CASE p.op # "read"
    BY <1>1, <2>2 DEF AccessFails
  <2> QED BY <2>1, <2>2
<1>4. pc' \in [Callers -> Places] /\ Placed'
  BY <1>2, <1>3, SameCallPlaced DEF AccessFails
<1>5. p.old \in Blocks
  BY <1>1, PlaceFields
<1>6. flash' \in [Blocks -> Contents]
  <2>1. PICK c \in {flash[p.old], Junk} : flash' = [flash EXCEPT ![p.old] = c]
    BY DEF AccessFails
  <2>2. c \in Contents
    BY <1>1, <1>5, <2>1, ContentKinds
  <2> QED BY <1>1, <2>1, <2>2
<1>7. EnvOK(env')
  BY <1>1, FaultSpends DEF AccessFails
<1>8. worn' \subseteq Blocks
  BY <1>1, <1>5 DEF AccessFails
<1> QED BY <1>3, <1>4, <1>6, <1>7, <1>8 DEF TypeInv, TypeOK, AccessFails, EnvOK, Wants

\* A read with too many bitflips: the types are kept.
LEMMA BitflipsTypes ==
  ASSUME TypeInv, NEW t \in Callers, Bitflips(t)
  PROVE  TypeInv'
<1> DEFINE p == pc[t]
           q == [p EXCEPT !.at = "find", !.copy = TRUE]
<1>1. p \in Places /\ worn \subseteq Blocks /\ EnvOK(env)
  BY DEF TypeInv, TypeOK, EnvOK
<1>2. SameCall(p, q)
  <2>1. q \in Places /\ q.op = p.op /\ q.lb = p.lb /\ q.at = "find"
    <3> HIDE DEF p
    <3> QED BY <1>1 DEF Places, Sites
  <2> QED BY <2>1 DEF SameCall, Bitflips
<1>3. pc' \in [Callers -> Places] /\ Placed'
  BY <1>2, SameCallPlaced DEF Bitflips
<1>4. EnvOK(env')
  BY <1>1, FaultSpends DEF Bitflips
<1>5. worn' \subseteq Blocks
  BY <1>1, PlaceFields DEF Bitflips
<1> QED BY <1>3, <1>4, <1>5 DEF TypeInv, TypeOK, Bitflips, EnvOK

\* A block is marked bad: the types are kept.
LEMMA MarkBadTypes ==
  ASSUME TypeInv, NEW t \in Callers, NEW lb \in UBlocks, NEW op \in {"markbad", "mark_bad"},
         MarkBad(t, op, lb)
  PROVE  TypeInv'
<1> DEFINE q == [Rest EXCEPT !.at = "find", !.op = op, !.lb = lb, !.old = Mapping(lb),
                             !.copy = TRUE]
<1>1. bbt \in Bbbts /\ lb \in LBlocks /\ worn \subseteq Blocks /\ EnvOK(env)
  BY Sizes DEF TypeInv, TypeOK, EnvOK
<1>2. Mapping(lb) \in Blocks
  BY <1>1, MappingType
<1>3. NewCall(q)
  <2>1. q \in Places /\ q.at = "find" /\ q.op = op
    BY <1>1, <1>2, RestPlace DEF Places, Sites, Ops
  <2> HIDE DEF q
  <2> QED BY <2>1 DEF NewCall
<1>4. pc' \in [Callers -> Places] /\ Placed'
  <2>1. Go(t, q) /\ want' = want
    BY DEF MarkBad
  <2> HIDE DEF q
  <2> QED BY <1>3, <2>1, NewCallPlaced
<1>5. EnvOK(env')
  <2>1. CASE op = "markbad"
    BY <1>1, <2>1, FaultSpends DEF MarkBad
  <2>2. CASE op # "markbad"
    BY <1>1, <2>2 DEF MarkBad
  <2> QED BY <2>1, <2>2
<1>6. worn' \subseteq Blocks
  BY <1>1, <1>2 DEF MarkBad
<1> QED BY <1>4, <1>5, <1>6 DEF TypeInv, TypeOK, MarkBad, EnvOK

\* unmap_block_v2: the types are kept.
LEMMA UnmapTypes ==
  ASSUME TypeInv, NEW t \in Callers, NEW lb \in UBlocks, NEW op \in {"mark_good", "repair"},
         Unmap(t, op, lb)
  PROVE  TypeInv'
<1> DEFINE p == [Rest EXCEPT !.op = op, !.lb = lb, !.old = Mapping(lb), !.copy = op = "repair"]
<1>1. bbt \in Bbbts /\ lb \in LBlocks /\ want \in Wants /\ idx \in PoolIdx \union {NoIdx}
  BY Sizes DEF TypeInv, TypeOK, Wants
<1>2. Mapping(lb) \in Blocks
  BY <1>1, MappingType
<1>3. p \in Places /\ p.op = op
  BY <1>1, <1>2, RestPlace DEF Places, Ops
<1>4. NewCall(Upload(p, idx))
  <2> HIDE DEF p
  <2> QED BY <1>1, <1>3, UploadPlace DEF NewCall
<1>5. want' \in Wants /\ \A i \in UBlocks : want'[i].v = want[i].v
  <2>1. CASE op = "mark_good"
    BY <1>1, <2>1, PromiseKeeps DEF Unmap
  <2>2. CASE op # "mark_good"
    BY <1>1, <2>2 DEF Unmap
  <2> QED BY <2>1, <2>2
<1>6. pc' \in [Callers -> Places] /\ Placed'
  <2>1. Go(t, Upload(p, idx))
    BY DEF Unmap
  <2> HIDE DEF p
  <2> QED BY <1>4, <1>5, <2>1, NewCallPlaced
<1>7. bbt' \in Bbbts
  <2>1. lb \in Blocks
    BY <1>1, Sizes
  <2>2. [bbt EXCEPT !.map[lb] = lb] \in Bbbts
    BY <1>1, <2>1, TableTypes
  <2> QED BY <2>2 DEF Unmap
<1> QED BY <1>5, <1>6, <1>7 DEF TypeInv, TypeOK, Unmap, Wants

\* mtk_bmt_debug_v2 frees blocks of the pool: the types are kept.
LEMMA FreeTypes ==
  ASSUME TypeInv, NEW t \in Callers, Free(t)
  PROVE  TypeInv'
<1> DEFINE p == [Rest EXCEPT !.op = "free"]
           freed == {i \in PoolIdx : /\ i <= idx /\ i \notin MappingMask
                                     /\ bbt.pool[i].mapped = NORMAL_MAPPED}
           pool == [i \in PoolIdx |-> IF i \in freed
                                      THEN [block |-> bbt.pool[i].block, mapped |-> NO_MAPPED]
                                      ELSE bbt.pool[i]]
<1>1. bbt \in Bbbts /\ idx \in PoolIdx \union {NoIdx}
  BY DEF TypeInv, TypeOK
<1>2. NewCall(Upload(p, idx))
  <2>1. p \in Places /\ p.op = "free"
    BY RestPlace DEF Places, Ops
  <2> HIDE DEF p
  <2> QED BY <1>1, <2>1, UploadPlace DEF NewCall
<1>3. pc' \in [Callers -> Places] /\ Placed'
  <2>1. Go(t, Upload(p, idx)) /\ want' = want
    BY DEF Free
  <2> HIDE DEF p
  <2> QED BY <1>2, <2>1, NewCallPlaced
<1>4. bbt' \in Bbbts
  <2>1. bbt' = [bbt EXCEPT !.pool = pool]
    BY DEF Free
  <2>2. pool \in [PoolIdx -> Entries]
    <3>1. ASSUME NEW i \in PoolIdx
          PROVE  /\ bbt.pool[i] \in Entries
                 /\ [block |-> bbt.pool[i].block, mapped |-> NO_MAPPED] \in Entries
      <4>1. bbt.pool[i] \in Entries /\ bbt.pool[i].block \in Blocks
        BY <1>1, PoolType
      <4> QED BY <4>1 DEF Entries
    <3> HIDE DEF freed
    <3> QED BY <3>1
  <2> HIDE DEF pool
  <2> QED BY <1>1, <2>1, <2>2 DEF Bbbts
<1> QED BY <1>3, <1>4 DEF TypeInv, TypeOK, Free

\* Back in the caller: retry or done: the types are kept.
LEMMA ReturnsTypes ==
  ASSUME TypeInv, NEW t \in Callers, Returns(t)
  PROVE  TypeInv'
<1> DEFINE p == pc[t]
           r == [p EXCEPT !.at = "new_erase", !.new = Mapping(p.lb)]
<1>1. p \in Places /\ bbt \in Bbbts /\ p.at # "idle" /\ badmark \subseteq Blocks
  BY DEF TypeInv, TypeOK, Returns
<1>2. p.lb \in LBlocks /\ p.old \in Blocks /\ p.retry \in 0 .. MaxRetry /\ MaxRetry \in Nat
  BY <1>1, PlaceFields, Sizes
<1>3. Mapping(p.lb) \in Blocks
  BY <1>1, <1>2, MappingType
<1>4. MayRetry(p) => SameCall(p, Retry(p))
  <2>1. ASSUME MayRetry(p)
        PROVE  Retry(p) \in Places /\ Retry(p).op = p.op /\ Retry(p).lb = p.lb
               /\ Retry(p).at = "access"
    <3>1. p.retry + 1 \in 0 .. MaxRetry
      BY <1>2, <2>1 DEF MayRetry
    <3> HIDE DEF p
    <3> QED BY <1>1, <1>3, <3>1 DEF Places, Sites, Retry
  <2> QED BY <1>1, <2>1 DEF SameCall
<1>5. SameCall(p, r)
  <2>1. r \in Places /\ r.op = p.op /\ r.lb = p.lb /\ r.at = "new_erase"
    <3> HIDE DEF p
    <3> QED BY <1>1, <1>3 DEF Places, Sites
  <2> QED BY <1>1, <2>1 DEF SameCall
<1>6. SameCall(p, Rest)
  BY RestPlace DEF SameCall
<1>7. pc' \in [Callers -> Places] /\ Placed'
  <2>1. PICK q : Go(t, q) /\ SameCall(p, q)
    <3>1. Go(t, IF MayRetry(p) THEN Retry(p)
                ELSE IF p.op = "repair" /\ Mapping(p.lb) # p.old THEN r ELSE Rest)
      BY DEF Returns
    <3> HIDE DEF p, r
    <3>2. CASE MayRetry(p)
      BY <1>4, <3>1, <3>2
    <3>3. CASE ~MayRetry(p) /\ p.op = "repair" /\ Mapping(p.lb) # p.old
      BY <1>5, <3>1, <3>3
    <3>4. CASE ~MayRetry(p) /\ ~(p.op = "repair" /\ Mapping(p.lb) # p.old)
      BY <1>6, <3>1, <3>4
    <3> QED BY <3>2, <3>3, <3>4
  <2>2. want' = want
    BY DEF Returns
  <2> QED BY <2>1, <2>2, SameCallPlaced
<1>8. badmark' \subseteq Blocks
  BY <1>1, <1>2 DEF Returns
<1>9. mode' \in {"off", "boot", "run", "dead"}
  BY DEF Returns, TypeInv, TypeOK
<1> QED BY <1>7, <1>8, <1>9 DEF TypeInv, TypeOK, Returns


\* mtk_bmt_init_v2: the types are kept.
LEMMA AttachTypes ==
  ASSUME TypeInv, NEW t \in Callers, Attach(t)
  PROVE  TypeInv'
<1>1. flash \in [Blocks -> Contents]
  BY DEF TypeInv, TypeOK
<1>2. CASE AttachLoad(t)
  <2>0. PICK ecc \in EccErrors : \E b \in LoadTable(ecc) : bbt' = b /\ idx' = BmtIndex(b.pool)
    BY <1>2 DEF AttachLoad
  <2>1. PICK b \in LoadTable(ecc) : bbt' = b /\ idx' = BmtIndex(b.pool)
    BY <2>0
  <2>2. bbt' \in Bbbts /\ idx' \in PoolIdx
    BY <1>1, <2>1, LoadTypes, BmtIndexType
  <2>3. Placed'
    BY <1>2 DEF AttachLoad, TypeInv, Placed
  <2> QED BY <1>2, <2>2, <2>3 DEF TypeInv, TypeOK, AttachLoad
<1>3. CASE AttachScan(t)
  <2>0. PICK ecc \in EccErrors : \E s \in ScanBadBlocks(ReadsBad(ecc)) :
          bbt' = s.bbt /\ idx' = s.idx /\ Go(t, Upload(Rest, s.idx))
    BY <1>3 DEF AttachScan
  <2>1. PICK s \in ScanBadBlocks(ReadsBad(ecc)) :
          bbt' = s.bbt /\ idx' = s.idx /\ Go(t, Upload(Rest, s.idx))
    BY <2>0
  <2>2. s.bbt \in Bbbts /\ s.idx \in PoolIdx
    BY <2>1, ScanTypes, ScanIdx
  <2>3. NewCall(Upload(Rest, s.idx))
    BY <2>2, UploadPlace, RestPlace DEF NewCall
  <2>4. pc' \in [Callers -> Places] /\ Placed'
    <3>1. want' = want
      BY <1>3 DEF AttachScan
    <3> QED BY <2>1, <2>3, <3>1, NewCallPlaced
  <2> QED BY <1>3, <2>1, <2>2, <2>4 DEF TypeInv, TypeOK, AttachScan
<1> QED BY <1>2, <1>3 DEF Attach

\* What is in memory before the attach.
LEMMA FreshType == Fresh \in Bbbts
<1>1. [block |-> 0, mapped |-> NO_MAPPED] \in Entries
  BY Sizes DEF Entries
<1>2. [i \in PoolIdx |-> [block |-> 0, mapped |-> NO_MAPPED]] \in [PoolIdx -> Entries]
  BY <1>1
<1>3. [lb \in LBlocks |-> 0] \in [LBlocks -> Blocks]
  BY Sizes
<1> QED BY <1>2, <1>3 DEF Fresh, Bbbts

\* The block that is being erased or written is one.
LEMMA InFlightType ==
  ASSUME TypeInv
  PROVE  InFlight \subseteq Blocks
<1>1. bbt \in Bbbts /\ pc \in [Callers -> Places]
  BY DEF TypeInv, TypeOK
<1>2. ASSUME NEW t \in Callers, pc[t].at = "bmt_erase", ~NoSpace(pc[t])
      PROVE  bbt.pool[pc[t].n].block \in Blocks
  <2>1. pc[t].n \in PoolIdx
    BY <1>2 DEF NoSpace
  <2> QED BY <1>1, <2>1, PoolType
<1>3. ASSUME NEW t \in Callers PROVE pc[t].new \in Blocks /\ pc[t].old \in Blocks
  <2>1. pc[t] \in Places
    BY <1>1
  <2> QED BY <2>1, PlaceFields
<1>4. ASSUME NEW t \in Callers
      PROVE  (CASE pc[t].at = "bmt_erase" /\ ~NoSpace(pc[t]) -> {bbt.pool[pc[t].n].block}
                [] pc[t].at \in {"bmt_write", "new_erase", "copy_write"} -> {pc[t].new}
                [] pc[t].at = "access" /\ pc[t].op \in {"erase", "write"} -> {pc[t].old}
                [] OTHER -> {}) \subseteq Blocks
  BY <1>2, <1>3
<1> QED BY <1>4 DEF InFlight

\* A power loss: the types are kept.
LEMMA CrashTypes ==
  ASSUME TypeInv, Crash
  PROVE  TypeInv'
<1>1. /\ flash \in [Blocks -> Contents] /\ worn \subseteq Blocks /\ EnvOK(env)
  BY DEF TypeInv, TypeOK, EnvOK
<1>2. PICK torn \in SUBSET InFlight :
        /\ flash' = [b \in Blocks |-> IF b \in torn THEN Junk ELSE flash[b]]
        /\ worn' = worn \union torn
  BY DEF Crash
<1>3. flash' \in [Blocks -> Contents]
  BY <1>1, <1>2, ContentKinds
<1>4. worn' \subseteq Blocks
  BY <1>1, <1>2, InFlightType
<1>5. EnvOK(env')
  BY <1>1, EnvSpends DEF Crash
<1>6. pc' \in [Callers -> Places] /\ Placed'
  <2>1. pc' = [t \in Callers |-> Rest]
    BY DEF Crash
  <2> QED BY <2>1, RestPlace DEF Placed
<1>7. bbt' \in Bbbts /\ databuf' \in Contents /\ idx' \in PoolIdx
  BY FreshType, ContentKinds, Sizes DEF Crash
<1> QED BY <1>3, <1>4, <1>5, <1>6, <1>7 DEF TypeInv, TypeOK, Crash, EnvOK

\* The first states are of the right types.
LEMMA InitTypes == Init => TypeInv
<1> SUFFICES ASSUME Init PROVE TypeInv
  OBVIOUS
<1>1. PICK s \in Settings : badmark \in s.bad /\ env = [s EXCEPT !.bad = {}]
  BY DEF Init
<1>2. EnvOK(env)
  BY <1>1, EnvFirst
<1>3. badmark \subseteq Blocks
  <2>1. s \in SettingRecords
    BY BmtV2Assumption
  <2>2. s.bad \in SUBSET SUBSET (1 .. NB - 1)
    BY <2>1 DEF SettingRecords
  <2>3. badmark \in SUBSET (1 .. NB - 1)
    BY <1>1, <2>2
  <2> QED BY <2>3, Sizes DEF Blocks
<1>4. pc \in [Callers -> Places] /\ Placed
  BY RestPlace DEF Init, Placed
<1>5. bbt \in Bbbts /\ databuf \in Contents /\ idx \in PoolIdx
  BY FreshType, ContentKinds, Sizes DEF Init
<1>6. flash \in [Blocks -> Contents] /\ worn \subseteq Blocks
  BY ContentKinds DEF Init
<1>7. want \in Wants
  <2>1. 0 \in 0 .. MaxVersion
    BY Sizes
  <2> QED BY <2>1 DEF Init, Wants
<1>8. mode \in {"off", "boot", "run", "dead"}
  BY DEF Init
<1> QED BY <1>2, <1>3, <1>4, <1>5, <1>6, <1>7, <1>8 DEF TypeInv, TypeOK, EnvOK, Wants

\* Every step keeps the types.
LEMMA TypesStep == TypeInv /\ [Next]_vars => TypeInv'
<1> SUFFICES ASSUME TypeInv, [Next]_vars PROVE TypeInv'
  OBVIOUS
<1>1. CASE UNCHANGED vars
  BY <1>1 DEF vars, TypeInv, TypeOK, Placed
<1>2. CASE AttachFails
  <2>1. Placed'
    BY <1>2 DEF AttachFails, TypeInv, Placed
  <2> QED BY <1>2, <2>1 DEF AttachFails, TypeInv, TypeOK
<1>3. CASE Crash
  BY <1>3, CrashTypes
<1>4. ASSUME NEW t \in Callers, Driver(t) PROVE TypeInv'
  BY <1>4, AttachTypes, UploadFailsTypes, BmtEraseTypes, BmtWriteTypes, RemapRefusedTypes,
     FindEntryTypes, TakeEntryTypes, NewEraseTypes, CopyReadTypes, CopyWriteTypes,
     AccessTypes, IsBadTypes, ReturnsTypes
     DEF Driver
<1>5. ASSUME NEW t \in Callers, Fault(t) PROVE TypeInv'
  BY <1>5, UploadRetriesTypes, NewFailsTypes, AccessFailsTypes, BitflipsTypes DEF Fault
<1>6. ASSUME NEW t \in Callers, User(t) PROVE TypeInv'
  BY <1>6, StartTypes, MarkBadTypes, UnmapTypes, FreeTypes DEF User
<1> QED BY <1>1, <1>2, <1>3, <1>4, <1>5, <1>6 DEF Next

\* Under all settings, every variable of the driver, the contents of the flash and
\* the local variables of every caller keep their types; in particular no entry
\* outside the pool is taken or written, the retries and the versions stay within
\* their bounds, and scan_bad_blocks and the search for the table return what the
\* rest of the driver can work with.
THEOREM TypeCorrect == Spec => []TypeOK
<1>1. Init => TypeInv
  BY InitTypes
<1>2. TypeInv /\ [Next]_vars => TypeInv'
  BY TypesStep
<1>3. TypeInv => TypeOK
  BY DEF TypeInv
<1> QED BY <1>1, <1>2, <1>3, PTL DEF Spec


-----------------------------------------------------------------------------
(* Orderly use: the table, the mapping and the pool. *)

\* A setting and its failures still to come, as a record.
LEMMA EnvRecord ==
  ASSUME NEW e, EnvOK(e)
  PROVE  e \in SettingRecords
<1>1. PICK s \in Settings :
        \E f \in 0 .. s.faults, c \in 0 .. s.crashes : e = Left(s, f, c)
  BY DEF EnvOK
<1>2. s \in SettingRecords
  BY <1>1, BmtV2Assumption
<1>3. PICK f \in 0 .. s.faults, c \in 0 .. s.crashes : e = Left(s, f, c)
  BY <1>1
<1>4. s.faults \in Nat /\ s.crashes \in Nat
  BY <1>2 DEF SettingRecords
<1>5. f \in Nat /\ c \in Nat
  BY <1>4
<1> QED BY <1>2, <1>3, <1>5 DEF SettingRecords, Left

\* A failure or a power loss changes nothing else of the setting.
LEMMA EnvSame ==
  ASSUME EnvOK(env), env' = env \/ OneFault \/ env' = [env EXCEPT !.crashes = @ - 1]
  PROVE  /\ env'.range = env.range /\ env'.torn = env.torn /\ env'.callers = env.callers
         /\ env'.files = env.files /\ env'.fail = env.fail
<1>1. env \in SettingRecords
  BY EnvRecord
<1> QED BY <1>1 DEF SettingRecords, OneFault

\* What orderly use says of the setting.
LEMMA EnvOrderly ==
  ASSUME OrderlyUse, EnvOK(env), ~env.torn
  PROVE  /\ \A t, u \in env.callers : t = u
         /\ env.files \subseteq {"mark_bad"}
         /\ env.callers \subseteq Callers /\ env.range \subseteq LBlocks
<1>1. PICK s \in Settings :
           /\ env.range = s.range /\ env.fail = s.fail /\ env.torn = s.torn
           /\ env.callers = s.callers /\ env.files = s.files
           /\ env.range \subseteq LBlocks /\ env.fail \subseteq Blocks
           /\ env.callers \subseteq Callers
  BY EnvFields
<1>2. Orderly(s)
  BY <1>1 DEF OrderlyUse
<1> QED BY <1>1, <1>2 DEF Orderly

\* The table of scan_bad_blocks is laid out in order.
LEMMA ScanLayout ==
  ASSUME EnvOK(env), NEW bad, NEW s \in ScanBadBlocks(bad), s.idx > 0, Apart(s.bbt, env.range)
  PROVE  Layout(s.bbt, s.idx)
<1> DEFINE valid == ValidBlocks(bad)
           n == Cardinality(valid)
           at(k) == Nth(valid, k)
<1>1. n \in Nat /\ valid \in SUBSET Nat /\ valid \in SUBSET Int /\ IsFiniteSet(valid)
  BY ValidFacts
<1>2. s.idx \in PoolIdx /\ s.idx = n - PoolLba - 1
  BY ScanIdx
<1>3. s.bbt.map = [i \in LBlocks |-> at(i)]
  <2> DEFINE avail == n - PoolLba
             entry(i) == [block |-> at(PoolLba + i),
                          mapped |-> IF i = avail - 1 THEN BMT_MAPPED ELSE NO_MAPPED]
  <2>1. s = [bbt |-> [map |-> [i \in LBlocks |-> at(i)],
                      pool |-> [i \in PoolIdx |-> entry(i)]],
             idx |-> avail - 1]
    BY DEF ScanBadBlocks
  <2> HIDE DEF entry, at, avail
  <2> QED BY <2>1
<1>4. ASSUME NEW i \in PoolIdx
      PROVE  /\ s.bbt.pool[i].block = at(PoolLba + i)
             /\ s.bbt.pool[i].mapped = IF i = s.idx THEN BMT_MAPPED ELSE NO_MAPPED
  <2> DEFINE avail == n - PoolLba
             entry(k) == [block |-> at(PoolLba + k),
                          mapped |-> IF k = avail - 1 THEN BMT_MAPPED ELSE NO_MAPPED]
  <2>1. s = [bbt |-> [map |-> [k \in LBlocks |-> at(k)],
                      pool |-> [k \in PoolIdx |-> entry(k)]],
             idx |-> avail - 1]
    BY DEF ScanBadBlocks
  <2>2. s.bbt.pool = [k \in PoolIdx |-> entry(k)] /\ s.idx = avail - 1
    <3> HIDE DEF entry, at, avail
    <3> QED BY <2>1
  <2>3. s.bbt.pool[i] = entry(i)
    <3> HIDE DEF entry
    <3> QED BY <2>2
  <2> HIDE DEF at, avail
  <2> QED BY <2>2, <2>3
<1>5. ASSUME NEW k \in Nat, k < n PROVE at(k) >= k /\ at(k) \in Nat
  BY <1>1, <1>5, NthFound, NthAbove
<1>6. ASSUME NEW i \in Nat, NEW k \in Nat, i < k, k < n PROVE at(i) < at(k)
  BY <1>1, <1>6, NthIncreasing
<1>7. ASSUME NEW k \in Nat, k >= n PROVE at(k) = 0
  <2>1. ~(k < n)
    BY <1>1, <1>7
  <2> QED BY <2>1 DEF Nth
<1> HIDE DEF at, n, valid
<1>8. ASSUME NEW i \in Nat, NEW k \in Nat, i < n, k < n, at(i) = at(k) PROVE i = k
  <2>1. at(i) \in Nat /\ at(k) \in Nat
    BY <1>5, <1>8
  <2>2. CASE i < k
    BY <1>6, <1>8, <2>1, <2>2
  <2>3. CASE k < i
    BY <1>6, <1>8, <2>1, <2>3
  <2> QED BY <2>2, <2>3
<1>9. ASSUME NEW k \in PoolIdx
      PROVE  /\ PoolLba + k \in Nat
             /\ k <= s.idx => PoolLba + k < n
             /\ ~(k <= s.idx) => PoolLba + k >= n
  BY <1>1, <1>2, Sizes DEF PoolIdx
<1>10. ASSUME NEW lb \in LBlocks
       PROVE  lb \in Nat /\ lb < n /\ lb < PoolLba /\ s.bbt.map[lb] = at(lb)
  BY <1>1, <1>2, <1>3, Sizes DEF LBlocks, PoolIdx
<1>11. s.bbt.pool[s.idx].mapped = BMT_MAPPED
  BY <1>2, <1>4
<1>12. ASSUME NEW k \in PoolIdx
       PROVE  IF k <= s.idx THEN s.bbt.pool[k].block >= PoolLba ELSE s.bbt.pool[k].block = 0
  <2>1. CASE k <= s.idx
    <3>1. PoolLba + k \in Nat /\ PoolLba + k < n /\ k \in Nat /\ PoolLba \in Nat
      BY <1>9, <2>1, Sizes
    <3>2. at(PoolLba + k) >= PoolLba + k /\ at(PoolLba + k) \in Nat
      BY <1>5, <3>1
    <3>3. at(PoolLba + k) >= PoolLba
      BY <3>1, <3>2
    <3> QED BY <1>4, <2>1, <3>3
  <2>2. CASE ~(k <= s.idx)
    <3>1. PoolLba + k \in Nat /\ PoolLba + k >= n
      BY <1>9, <2>2
    <3> QED BY <1>4, <1>7, <2>2, <3>1
  <2> QED BY <2>1, <2>2
<1>13. ASSUME NEW k \in PoolIdx, k < s.idx PROVE s.bbt.pool[k].mapped # BMT_MAPPED
  <2>1. k # s.idx
    BY <1>2, <1>13, Sizes
  <2> QED BY <1>4, <2>1 DEF NO_MAPPED, BMT_MAPPED
<1>14. ASSUME NEW k \in PoolIdx, NEW l \in PoolIdx, k <= s.idx, l <= s.idx,
              s.bbt.pool[k].block = s.bbt.pool[l].block
       PROVE  k = l
  <2>1. /\ PoolLba + k \in Nat /\ PoolLba + k < n
        /\ PoolLba + l \in Nat /\ PoolLba + l < n
    BY <1>9, <1>14
  <2>2. at(PoolLba + k) = at(PoolLba + l)
    BY <1>4, <1>14
  <2>3. PoolLba + k = PoolLba + l
    BY <1>8, <2>1, <2>2
  <2> QED BY <2>3, Sizes
<1>15. ASSUME NEW lb \in LBlocks, NEW k \in PoolIdx, k <= s.idx,
              s.bbt.map[lb] = s.bbt.pool[k].block
       PROVE  FALSE
  <2>1. PoolLba + k \in Nat /\ PoolLba + k < n
    BY <1>9, <1>15
  <2>2. lb \in Nat /\ lb < n /\ lb < PoolLba /\ at(lb) = at(PoolLba + k)
    BY <1>4, <1>10, <1>15
  <2>3. lb = PoolLba + k
    BY <1>8, <2>1, <2>2
  <2> QED BY <2>2, <2>3, Sizes
<1>16. ASSUME NEW lb \in LBlocks, NEW lc \in LBlocks, s.bbt.map[lb] = s.bbt.map[lc]
       PROVE  lb = lc
  BY <1>8, <1>10, <1>16
<1> QED BY <1>2, <1>11, <1>12, <1>13, <1>14, <1>15, <1>16 DEF Layout

\* get_bmt_index finds the entry of a table that is laid out in order.
LEMMA LayoutIndex ==
  ASSUME NEW t \in Bbbts, NEW i, Layout(t, i)
  PROVE  BmtIndex(t.pool) = i
<1> DEFINE is(k) == t.pool[k].mapped = BMT_MAPPED /\ \A l \in 0 .. k : t.pool[l].block # 0
           found == {k \in PoolIdx : is(k)}
<1>1. i \in PoolIdx /\ i \in Nat
  BY Sizes DEF Layout
<1>2. ASSUME NEW l \in 0 .. i PROVE t.pool[l].block # 0
  <2>1. l \in PoolIdx /\ l <= i
    BY <1>1, Sizes DEF PoolIdx
  <2>2. t.pool[l].block >= PoolLba
    BY <2>1 DEF Layout
  <2> QED BY <2>2, Sizes
<1>3. is(i)
  BY <1>2 DEF Layout
<1>4. ASSUME NEW k \in PoolIdx, is(k) PROVE k = i
  <2>0. k \in Nat
    BY Sizes
  <2>1. CASE k < i
    BY <1>4, <2>1 DEF Layout
  <2>2. CASE k > i
    <3>1. ~(k <= i)
      BY <1>1, <2>0, <2>2
    <3>2. t.pool[k].block = 0
      BY <3>1 DEF Layout
    <3>3. k \in 0 .. k
      BY <2>0
    <3> QED BY <1>4, <3>2, <3>3
  <2> QED BY <1>1, <2>0, <2>1, <2>2
<1>5. found = {i}
  <2> HIDE DEF is
  <2> QED BY <1>1, <1>3, <1>4
<1>6. BmtIndex(t.pool) = IF found = {} THEN 0 ELSE Min(found)
  BY DEF BmtIndex
<1>7. Min({i}) = i
  <2>1. {i} \in SUBSET Nat /\ {i} # {}
    BY <1>1
  <2>2. Min({i}) \in {i}
    BY <2>1, MinFound
  <2> QED BY <2>2
<1> HIDE DEF found
<1> QED BY <1>5, <1>6, <1>7


\* Init finds the only table there is.
LEMMA StoredLoads ==
  ASSUME TypeInv, NEW b, NEW i, StoredIn(b, i), NEW ecc \in EccErrors
  PROVE  /\ flash[b].bbt \in Bbbts /\ BmtIndex(flash[b].bbt.pool) = i
         /\ LoadTable(ecc) = {flash[b].bbt}
<1> DEFINE valid == {c \in PoolLba .. NB - 1 : flash[c].kind = "table" /\ c \notin ecc}
<1>1. /\ flash \in [Blocks -> Contents] /\ b \in Blocks /\ b \notin worn
      /\ flash[b].kind = "table" /\ Layout(flash[b].bbt, i)
      /\ flash[b].bbt.pool[i].block = b
      /\ \A c \in Blocks : flash[c].kind = "table" => c = b
  BY DEF TypeInv, TypeOK, StoredIn
<1>2. flash[b].bbt \in Bbbts
  BY <1>1, ContentKinds
<1>3. BmtIndex(flash[b].bbt.pool) = i
  BY <1>1, <1>2, LayoutIndex
<1>4. i \in PoolIdx /\ i > 0 /\ b >= PoolLba
  <2>1. i \in PoolIdx /\ i > 0
    BY <1>1 DEF Layout
  <2>2. i <= i
    BY <2>1, Sizes
  <2>3. flash[b].bbt.pool[i].block >= PoolLba
    BY <1>1, <2>1, <2>2 DEF Layout
  <2> QED BY <1>1, <2>1, <2>3
<1>5. b \notin ecc
  <2>1. flash[b] # Junk
    BY <1>1, ContentKinds
  <2> QED BY <1>1, <2>1 DEF EccErrors
<1>6. valid = {b}
  BY <1>1, <1>4, <1>5, Sizes DEF Blocks
<1>7. Max({b}) = b
  <2>1. NB - 1 \in Nat /\ {b} \in SUBSET (0 .. NB - 1) /\ {b} # {}
    BY <1>1, Sizes DEF Blocks
  <2>2. Max({b}) \in {b}
    BY <2>1, MaxFound
  <2> QED BY <2>2
<1>8. LoadTable(ecc) = IF valid = {} \/ BmtIndex(flash[Max(valid)].bbt.pool) = 0 THEN {}
                       ELSE {flash[Max(valid)].bbt}
  BY DEF LoadTable
<1>9. BmtIndex(flash[b].bbt.pool) # 0
  BY <1>3, <1>4, Sizes
<1> HIDE DEF valid
<1> QED BY <1>2, <1>3, <1>6, <1>7, <1>8, <1>9

\* On a new chip there is no table and every block can be read.
LEMMA NewLoads ==
  ASSUME TypeInv, New, NEW ecc \in EccErrors
  PROVE  LoadTable(ecc) = {} /\ ReadsBad(ecc) = badmark
<1>1. \A c \in Blocks : flash[c] # Junk /\ flash[c].kind # "table"
  BY ContentKinds DEF New
<1>2. ecc = {}
  BY <1>1 DEF EccErrors, New
<1>3. {c \in PoolLba .. NB - 1 : flash[c].kind = "table" /\ c \notin ecc} = {}
  BY <1>1, Sizes DEF Blocks
<1>4. LoadTable(ecc) = {}
  BY <1>3 DEF LoadTable
<1> QED BY <1>2, <1>4 DEF ReadsBad

\* The block of the table is behind the data area and nobody else's.
LEMMA HomeOwned ==
  ASSUME NEW t \in Bbbts, NEW i, Layout(t, i)
  PROVE  /\ i \in PoolIdx /\ t.pool[i].block \in Blocks /\ t.pool[i].block >= PoolLba
         /\ \A lb \in LBlocks : t.map[lb] # t.pool[i].block /\ lb # t.pool[i].block
<1>1. i \in PoolIdx /\ i \in Nat /\ i <= i
  BY Sizes DEF Layout
<1>2. t.pool[i].block \in Blocks
  BY <1>1, PoolType
<1>3. t.pool[i].block >= PoolLba
  BY <1>1 DEF Layout
<1>4. ASSUME NEW lb \in LBlocks PROVE t.map[lb] # t.pool[i].block
  <2>1. t.pool[i].mapped # NORMAL_MAPPED
    BY DEF Layout, NORMAL_MAPPED, BMT_MAPPED
  <2> QED BY <1>1, <2>1 DEF Layout
<1>5. ASSUME NEW lb \in LBlocks PROVE lb # t.pool[i].block
  BY <1>2, <1>3, Sizes DEF LBlocks
<1> QED BY <1>1, <1>2, <1>3, <1>4, <1>5

\* No logic block is mapped to the block of the table.
LEMMA MappingNotHome ==
  ASSUME TypeInv, Layout(bbt, idx)
  PROVE  /\ Home \in Blocks /\ Home >= PoolLba
         /\ \A lb \in LBlocks : Mapping(lb) # Home /\ Mapping(lb) \in Blocks
<1>1. bbt \in Bbbts
  BY DEF TypeInv, TypeOK
<1>2. /\ Home \in Blocks /\ Home >= PoolLba
      /\ \A lb \in LBlocks : bbt.map[lb] # Home /\ lb # Home
  BY <1>1, HomeOwned DEF Home
<1>3. ASSUME NEW lb \in LBlocks PROVE Mapping(lb) # Home /\ Mapping(lb) \in Blocks
  BY <1>1, <1>2, MappingType DEF Mapping
<1> QED BY <1>2, <1>3

\* The block of the table is left alone, and no table appears elsewhere.
HomeUntouched ==
  /\ flash'[Home] = flash[Home] /\ Home \notin worn'
  /\ \A c \in Blocks : flash'[c].kind = "table" => flash[c].kind = "table"

\* A step outside remaps and updates of the table.
LEMMA StaysThere ==
  ASSUME NEW t \in Callers, TableThere(pc[t]), ~Uploading(pc[t]), ~Remapping(pc[t]),
         HomeUntouched, bbt' = bbt, idx' = idx, env'.range = env.range,
         ~Uploading(pc'[t]), ~Remapping(pc'[t])
  PROVE  TableThere(pc[t])' /\ OldTableThere(pc[t])'
<1>1. Home' = Home /\ (Layout(bbt, idx) => Layout(bbt, idx)')
  BY DEF Home, Layout, Apart
<1>2. pc'[t].at # "bmt_write"
  BY DEF Uploading
<1>3. Layout(bbt, idx) /\ flash[Home] = Table(bbt) /\ Home \notin worn
      /\ \A c \in Blocks : flash[c].kind = "table" => c = Home
  BY DEF TableThere
<1>4. /\ Layout(bbt, idx)' /\ flash'[Home'] = Table(bbt')
      /\ Home' \notin worn' /\ \A c \in Blocks : flash'[c].kind = "table" => c = Home'
  BY <1>1, <1>3 DEF HomeUntouched
<1>5. TableThere(pc[t])'
  BY <1>2, <1>4 DEF TableThere
<1>6. OldTableThere(pc[t])'
  BY DEF OldTableThere, Remapping
<1> QED BY <1>5, <1>6

\* A step of a remap that works on the new block, up to the update of the table.
LEMMA RemapGoesOn ==
  ASSUME NEW t \in Callers, TableThere(pc[t]), OldTableThere(pc[t]), Remapping(pc[t]),
         HomeUntouched, bbt' = bbt, idx' = idx, env'.range = env.range,
         \/ pc'[t].at = "bmt_erase"
         \/ /\ Remapping(pc'[t]) /\ pc'[t].lb = pc[t].lb
            /\ pc'[t].old = pc[t].old /\ pc'[t].new = pc[t].new
  PROVE  TableThere(pc[t])' /\ OldTableThere(pc[t])'
<1>1. Home' = Home /\ (Layout(bbt, idx) => Layout(bbt, idx)')
  BY DEF Home, Layout, Apart
<1>2. pc'[t].at # "bmt_write" /\ (Uploading(pc'[t]) \/ Remapping(pc'[t]))
  BY DEF Uploading, Remapping
<1>3. /\ Layout(bbt, idx) /\ Home \notin worn
      /\ \A c \in Blocks : flash[c].kind = "table" => c = Home
  BY DEF TableThere
<1>4. /\ Layout(bbt, idx)' /\ Home' \notin worn'
      /\ \A c \in Blocks : flash'[c].kind = "table" => c = Home'
  BY <1>1, <1>3 DEF HomeUntouched
<1>5. TableThere(pc[t])'
  BY <1>2, <1>4 DEF TableThere
<1>6. ASSUME Remapping(pc'[t]) PROVE OldTableThere(pc[t])'
  <2>1. /\ pc'[t].lb = pc[t].lb /\ pc'[t].old = pc[t].old /\ pc'[t].new = pc[t].new
    BY <1>6 DEF Remapping
  <2>2. /\ StoredIn(Home, idx)
        /\ pc[t].lb \in env.range /\ pc[t].new = bbt.map[pc[t].lb]
        /\ pc[t].old # pc[t].new /\ pc[t].new >= PoolLba
        /\ flash[Home].bbt.map = [bbt.map EXCEPT ![pc[t].lb] = pc[t].old]
    BY DEF OldTableThere
  <2>3. StoredIn(Home, idx)'
    <3>1. /\ Home \in Blocks /\ flash[Home].kind = "table"
          /\ Layout(flash[Home].bbt, idx) /\ flash[Home].bbt.pool[idx].block = Home
      BY <2>2 DEF StoredIn
    <3>2. Layout(flash[Home].bbt, idx)'
      BY <1>1, <3>1 DEF Layout, Apart, HomeUntouched
    <3> QED BY <1>1, <1>4, <3>1, <3>2 DEF StoredIn, HomeUntouched
  <2> QED BY <1>1, <2>1, <2>2, <2>3 DEF OldTableThere, HomeUntouched
<1>7. ASSUME ~Remapping(pc'[t]) PROVE OldTableThere(pc[t])'
  BY <1>7 DEF OldTableThere, Remapping
<1> QED BY <1>5, <1>6, <1>7


\* The caller t is at work in a driver that is attached.
AtWork(t) == TypeInv /\ ~env.torn /\ Attached /\ Working(pc[t])

\* What is known of the caller.
LEMMA AtWorkFacts ==
  ASSUME NEW t \in Callers, AtWork(t)
  PROVE  /\ pc[t] \in Places /\ pc \in [Callers -> Places]
         /\ bbt \in Bbbts /\ EnvOK(env) /\ flash \in [Blocks -> Contents]
         /\ pc[t].lb \in LBlocks /\ pc[t].old \in Blocks /\ pc[t].new \in Blocks
         /\ TableThere(pc[t]) /\ OldTableThere(pc[t]) /\ LocalsRight(pc[t])
         /\ Layout(bbt, idx) /\ Home \in Blocks /\ Home >= PoolLba /\ Home \notin worn
         /\ idx \in PoolIdx /\ idx # NoIdx
         /\ \A lb \in LBlocks : Mapping(lb) # Home /\ Mapping(lb) \in Blocks
         /\ \A c \in Blocks : flash[c].kind = "table" => c = Home
<1>1. /\ pc[t] \in Places /\ pc \in [Callers -> Places]
      /\ bbt \in Bbbts /\ EnvOK(env) /\ flash \in [Blocks -> Contents]
  BY DEF AtWork, TypeInv, TypeOK, EnvOK
<1>2. pc[t].lb \in LBlocks /\ pc[t].old \in Blocks /\ pc[t].new \in Blocks
  BY <1>1, PlaceFields
<1>3. TableThere(pc[t]) /\ OldTableThere(pc[t]) /\ LocalsRight(pc[t]) /\ TypeInv
  BY DEF AtWork, Working
<1>4. Layout(bbt, idx) /\ Home \notin worn /\ \A c \in Blocks : flash[c].kind = "table" => c = Home
  BY <1>3 DEF TableThere
<1>5. /\ Home \in Blocks /\ Home >= PoolLba
      /\ \A lb \in LBlocks : Mapping(lb) # Home /\ Mapping(lb) \in Blocks
  BY <1>3, <1>4, MappingNotHome
<1>6. idx \in PoolIdx /\ idx # NoIdx
  BY <1>4, Sizes DEF Layout
<1> QED BY <1>1, <1>2, <1>3, <1>4, <1>5, <1>6

\* Changing a block that is not the table's into something that is no table.
LEMMA WriteElsewhere ==
  ASSUME NEW t \in Callers, AtWork(t), NEW b \in Blocks, b # Home, NEW c,
         c.kind # "table" \/ c = flash[b], flash' = [flash EXCEPT ![b] = c],
         worn' \subseteq worn \union {b}
  PROVE  HomeUntouched
<1>1. /\ flash \in [Blocks -> Contents] /\ Home \in Blocks /\ Home \notin worn
  BY AtWorkFacts
<1> QED BY <1>1 DEF HomeUntouched

\* Noting that a block is worn that is not the table's.
LEMMA WriteNowhere ==
  ASSUME NEW t \in Callers, AtWork(t), NEW b, b # Home, flash' = flash,
         worn' \subseteq worn \union {b}
  PROVE  HomeUntouched
<1>1. Home \notin worn
  BY AtWorkFacts
<1> QED BY <1>1 DEF HomeUntouched

\* Mapping does not change with the same table and range.
LEMMA SameMapping ==
  ASSUME bbt' = bbt, env'.range = env.range
  PROVE  \A lb : Mapping(lb)' = Mapping(lb)
BY DEF Mapping

\* upload_bmt does not run out of blocks: the block of the table is not given out.
LEMMA UploadFailsOrder ==
  ASSUME NEW t \in Callers, AtWork(t), UploadFails(t)
  PROVE  FALSE
<1>1. pc[t].n = idx
  BY AtWorkFacts DEF LocalsRight, Uploading, UploadFails
<1>2. bbt.pool[idx].mapped # NORMAL_MAPPED /\ idx \in PoolIdx
  BY AtWorkFacts DEF Layout, NORMAL_MAPPED, BMT_MAPPED
<1> QED BY <1>1, <1>2 DEF UploadFails, NoSpace

\* upload_bmt erases the block of the table: the caller goes on as the invariant says.
LEMMA BmtEraseOrder ==
  ASSUME NEW t \in Callers, AtWork(t), BmtErase(t)
  PROVE  Working(pc[t])' /\ Attached'
<1> DEFINE p == pc[t]
           q == [p EXCEPT !.at = "bmt_write", !.new = bbt.pool[p.n].block]
<1>1. /\ p \in Places /\ bbt \in Bbbts /\ flash \in [Blocks -> Contents]
      /\ Home \in Blocks /\ Home \notin worn /\ Layout(bbt, idx) /\ LocalsRight(p)
      /\ \A c \in Blocks : flash[c].kind = "table" => c = Home
      /\ pc \in [Callers -> Places]
  BY AtWorkFacts
<1>2. p.at = "bmt_erase" /\ p.n = idx /\ bbt.pool[p.n].block = Home
  BY <1>1 DEF LocalsRight, Uploading, BmtErase, Home
<1>3. /\ q \in Places /\ q.at = "bmt_write" /\ q.new = Home /\ q.n = idx
      /\ q.op = p.op /\ q.lb = p.lb /\ q.again = p.again
  <2> HIDE DEF p
  <2> QED BY <1>1, <1>2 DEF Places, Sites
<1>4. pc'[t] = q
  <2>1. Go(t, q)
    BY DEF BmtErase
  <2> QED BY <1>1, <1>3, <2>1, GoFacts
<1>5. /\ UNCHANGED <<mode, bbt, idx, databuf, worn, env>>
      /\ flash' = [flash EXCEPT ![Home] = Erased]
  BY <1>2 DEF BmtErase
<1>6. Home' = Home /\ Layout(bbt, idx)'
  BY <1>1, <1>5 DEF Home, Layout, Apart
<1> HIDE DEF q, p
<1>7. TableThere(pc[t])'
  <2>1. flash'[Home] = Erased /\ \A c \in Blocks : flash'[c].kind = "table" => c = Home
    BY <1>1, <1>5
  <2> QED BY <1>1, <1>3, <1>4, <1>5, <1>6, <2>1 DEF TableThere, Uploading
<1>8. OldTableThere(pc[t])'
  BY <1>3, <1>4 DEF OldTableThere, Remapping
<1>9. LocalsRight(pc[t])'
  BY <1>1, <1>2, <1>3, <1>4, <1>5, <1>6 DEF LocalsRight, Uploading
<1> QED BY <1>5, <1>7, <1>8, <1>9 DEF Working, Attached, AtWork

\* upload_bmt writes the table: the caller goes on as the invariant says.
LEMMA BmtWriteOrder ==
  ASSUME NEW t \in Callers, AtWork(t), BmtWrite(t)
  PROVE  Working(pc[t])' /\ Attached'
<1> DEFINE p == pc[t]
           q == [p EXCEPT !.at = "return"]
<1>1. /\ p \in Places /\ bbt \in Bbbts /\ flash \in [Blocks -> Contents]
      /\ Home \in Blocks /\ Home \notin worn /\ Layout(bbt, idx) /\ LocalsRight(p)
      /\ \A c \in Blocks : flash[c].kind = "table" => c = Home
      /\ pc \in [Callers -> Places] /\ TableThere(p)
  BY AtWorkFacts
<1>2. p.at = "bmt_write" /\ p.n = idx /\ p.new = Home /\ flash[Home] = Erased
  BY <1>1 DEF LocalsRight, Uploading, BmtWrite, TableThere
<1>3. /\ q \in Places /\ q.at = "return" /\ q.op = p.op /\ q.lb = p.lb /\ q.again = p.again
  <2>1. "return" \in Sites
    BY DEF Sites
  <2> HIDE DEF p
  <2> QED BY <1>1, <2>1, PlaceAt
<1>4. pc'[t] = q
  <2>1. Go(t, q)
    BY DEF BmtWrite
  <2> QED BY <1>1, <1>3, <2>1, GoFacts
<1>5. /\ UNCHANGED <<mode, bbt, databuf, worn, env>> /\ idx' = idx
      /\ flash' = [flash EXCEPT ![Home] = Table(bbt)]
  BY <1>2 DEF BmtWrite, Programmed
<1>6. Home' = Home /\ Layout(bbt, idx)'
  BY <1>1, <1>5 DEF Home, Layout, Apart
<1> HIDE DEF q, p
<1>7. TableThere(pc[t])'
  <2>1. flash'[Home] = Table(bbt) /\ \A c \in Blocks : flash'[c].kind = "table" => c = Home
    BY <1>1, <1>5
  <2> QED BY <1>1, <1>3, <1>4, <1>5, <1>6, <2>1 DEF TableThere
<1>8. OldTableThere(pc[t])'
  BY <1>3, <1>4 DEF OldTableThere, Remapping
<1>9. LocalsRight(pc[t])'
  BY <1>1, <1>2, <1>3, <1>4, <1>5 DEF LocalsRight, Uploading
<1> QED BY <1>5, <1>7, <1>8, <1>9 DEF Working, Attached, AtWork

\* A remap that is refused: the caller goes on as the invariant says.
LEMMA RemapRefusedOrder ==
  ASSUME NEW t \in Callers, AtWork(t), RemapRefused(t)
  PROVE  Working(pc[t])' /\ Attached'
<1> DEFINE p == pc[t]
           q == [p EXCEPT !.at = "return", !.again = FALSE]
<1>1. /\ p \in Places /\ LocalsRight(p) /\ pc \in [Callers -> Places] /\ TableThere(p)
  BY AtWorkFacts
<1>2. /\ p.at = "find" /\ Go(t, q)
      /\ UNCHANGED <<mode, bbt, idx, databuf, flash, badmark, worn, want, env>>
  BY DEF RemapRefused
<1>3. /\ q \in Places /\ q.at = "return" /\ q.op = p.op /\ q.lb = p.lb
  <2> HIDE DEF p
  <2> QED BY <1>1 DEF Places, Sites
<1>4. pc'[t] = q
  BY <1>1, <1>2, <1>3, GoFacts
<1> HIDE DEF q, p
<1>5. TableThere(pc[t])' /\ OldTableThere(pc[t])'
  <2>1. HomeUntouched
    BY <1>2, AtWorkFacts DEF HomeUntouched
  <2>2. ~Uploading(p) /\ ~Remapping(p) /\ ~Uploading(q) /\ ~Remapping(q)
    BY <1>2, <1>3 DEF Uploading, Remapping
  <2> QED BY <1>1, <1>2, <1>4, <2>1, <2>2, StaysThere DEF p
<1>6. LocalsRight(pc[t])'
  BY <1>1, <1>2, <1>3, <1>4 DEF LocalsRight, Uploading
<1> QED BY <1>2, <1>5, <1>6 DEF Working, Attached, AtWork

\* find_valid_block_in_pool finds an entry: the caller goes on as the invariant says.
LEMMA FindEntryOrder ==
  ASSUME NEW t \in Callers, AtWork(t), FindEntry(t)
  PROVE  Working(pc[t])' /\ Attached'
<1> DEFINE p == pc[t]
           q == [p EXCEPT !.at = "take", !.n = Min(FreeEntries)]
<1>1. /\ p \in Places /\ LocalsRight(p) /\ pc \in [Callers -> Places] /\ TableThere(p)
  BY AtWorkFacts
<1>2. /\ p.at = "find" /\ Go(t, q) /\ FreeEntries # {} /\ p.lb \in env.range
      /\ UNCHANGED <<mode, bbt, idx, databuf, flash, badmark, worn, want, env>>
  BY DEF FindEntry
<1>3. Min(FreeEntries) \in FreeEntries /\ Min(FreeEntries) \in PoolIdx
  BY <1>2, FoundFree
<1>4. /\ q \in Places /\ q.at = "take" /\ q.op = p.op /\ q.lb = p.lb /\ q.old = p.old
      /\ q.n = Min(FreeEntries)
  <2> HIDE DEF p
  <2> QED BY <1>1, <1>3 DEF Places, Sites
<1>5. pc'[t] = q
  BY <1>1, <1>2, <1>4, GoFacts
<1>6. q.n < idx /\ bbt.pool[q.n].mapped = NO_MAPPED
  <2> HIDE DEF q
  <2> QED BY <1>3, <1>4 DEF FreeEntries
<1> HIDE DEF q, p
<1>7. TableThere(pc[t])' /\ OldTableThere(pc[t])'
  <2>1. HomeUntouched
    BY <1>2, AtWorkFacts DEF HomeUntouched
  <2>2. ~Uploading(p) /\ ~Remapping(p) /\ ~Uploading(q) /\ ~Remapping(q)
    BY <1>2, <1>4 DEF Uploading, Remapping
  <2> QED BY <1>1, <1>2, <1>5, <2>1, <2>2, StaysThere DEF p
<1>8. LocalsRight(pc[t])'
  BY <1>1, <1>2, <1>4, <1>5, <1>6 DEF LocalsRight, Uploading, Mapping
<1> QED BY <1>2, <1>7, <1>8 DEF Working, Attached, AtWork


\* The table after an entry has been taken for a logic block.
Taken(t, n, lb, b) == [t EXCEPT !.pool[n].mapped = NORMAL_MAPPED, !.map[lb] = b]

\* remap_block_v2 goes on with the entry if nobody has cleared it.
LEMMA EntryTaken ==
  ASSUME NEW t \in Callers, TakeEntry(t), bbt.pool[pc[t].n].block # 0
  PROVE  LET b == bbt.pool[pc[t].n].block IN
         /\ Go(t, [pc[t] EXCEPT !.at = "new_erase", !.new = b])
         /\ bbt' = Taken(bbt, pc[t].n, pc[t].lb, b)
BY DEF TakeEntry, Taken

\* Taking an entry changes the mapping of one logic block.
LEMMA TakenMap ==
  ASSUME NEW t \in Bbbts, NEW n \in PoolIdx, NEW lb \in LBlocks, NEW b \in Blocks
  PROVE  Taken(t, n, lb, b).map = [t.map EXCEPT ![lb] = b]
BY DEF Bbbts, Taken

\* Taking an entry changes one mapping and marks one entry.
LEMMA TakenTable ==
  ASSUME NEW t \in Bbbts, NEW n \in PoolIdx, NEW lb \in LBlocks, NEW b \in Blocks, NEW u,
         u = Taken(t, n, lb, b)
  PROVE  /\ u.map[lb] = b /\ \A lc \in LBlocks : lc # lb => u.map[lc] = t.map[lc]
         /\ \A k \in PoolIdx :
              /\ u.pool[k].block = t.pool[k].block
              /\ u.pool[k].mapped = IF k = n THEN NORMAL_MAPPED ELSE t.pool[k].mapped
<1>1. t.map \in [LBlocks -> Blocks] /\ t.pool \in [PoolIdx -> Entries]
  BY DEF Bbbts
<1>2. u.map[lb] = b /\ \A lc \in LBlocks : lc # lb => u.map[lc] = t.map[lc]
  BY DEF Bbbts, Taken
<1>3. u.pool = [t.pool EXCEPT ![n].mapped = NORMAL_MAPPED]
  BY DEF Bbbts, Taken
<1>4. ASSUME NEW k \in PoolIdx
      PROVE  /\ u.pool[k].block = t.pool[k].block
             /\ u.pool[k].mapped = IF k = n THEN NORMAL_MAPPED ELSE t.pool[k].mapped
  BY <1>1, <1>3 DEF Entries
<1> QED BY <1>2, <1>4

\* Taking a free entry keeps the table laid out in order.
LEMMA TakenLayout ==
  ASSUME NEW t \in Bbbts, NEW i, Layout(t, i), NEW n \in PoolIdx, n < i,
         t.pool[n].mapped = NO_MAPPED, NEW lb \in LBlocks, NEW u,
         u = Taken(t, n, lb, t.pool[n].block), env.range \subseteq LBlocks
  PROVE  /\ Layout(u, i) /\ u.pool[i].block = t.pool[i].block
         /\ t.map[lb] # t.pool[n].block /\ t.pool[n].block >= PoolLba
<1> DEFINE b == t.pool[n].block
<1>1. b \in Blocks
  BY PoolType
<1>2. /\ u.map[lb] = b /\ \A lc \in LBlocks : lc # lb => u.map[lc] = t.map[lc]
      /\ \A k \in PoolIdx :
           /\ u.pool[k].block = t.pool[k].block
           /\ u.pool[k].mapped = IF k = n THEN NORMAL_MAPPED ELSE t.pool[k].mapped
  BY <1>1, TakenTable
<1>3. i \in PoolIdx /\ i > 0 /\ n <= i /\ n # i
  BY Sizes DEF Layout
<1>4. b >= PoolLba
  BY <1>3 DEF Layout
<1>5. ASSUME NEW lc \in LBlocks PROVE t.map[lc] # b
  <2>1. t.pool[n].mapped # NORMAL_MAPPED
    BY DEF NO_MAPPED, NORMAL_MAPPED
  <2> QED BY <1>3, <2>1 DEF Layout
<1>6. u.pool[i].mapped = BMT_MAPPED /\ u.pool[i].block = t.pool[i].block
  BY <1>2, <1>3 DEF Layout
<1> HIDE DEF b
<1>7. ASSUME NEW k \in PoolIdx
      PROVE  IF k <= i THEN u.pool[k].block >= PoolLba ELSE u.pool[k].block = 0
  BY <1>2 DEF Layout
<1>8. ASSUME NEW k \in PoolIdx, k < i PROVE u.pool[k].mapped # BMT_MAPPED
  BY <1>2, <1>8 DEF Layout, NORMAL_MAPPED, BMT_MAPPED
<1>9. ASSUME NEW k \in PoolIdx, NEW l \in PoolIdx, k <= i, l <= i,
             u.pool[k].block = u.pool[l].block
      PROVE  k = l
  BY <1>2, <1>9 DEF Layout
<1>10. Apart(u, env.range)
  <2>1. ASSUME NEW j \in env.range, NEW l \in LBlocks \ env.range PROVE u.map[j] # l
    <3>1. CASE j = lb
      <4>1. l < PoolLba /\ l \in Nat
        BY Sizes DEF LBlocks
      <4> QED BY <1>1, <1>2, <1>4, <3>1, <4>1, Sizes
    <3>2. CASE j # lb /\ j \in LBlocks
      BY <1>2, <2>1, <3>2 DEF Layout, Apart
    <3>3. j \in LBlocks
      OBVIOUS
    <3> QED BY <3>1, <3>2, <3>3
  <2> QED BY <2>1 DEF Apart
<1>11. ASSUME NEW lc \in LBlocks, NEW k \in PoolIdx, k <= i, u.map[lc] = u.pool[k].block
       PROVE  u.pool[k].mapped = NORMAL_MAPPED
  <2>1. CASE lc = lb
    <3>1. t.pool[k].block = t.pool[n].block
      BY <1>2, <1>11, <2>1 DEF b
    <3>2. k = n
      BY <1>3, <1>11, <3>1 DEF Layout
    <3> QED BY <1>2, <3>2
  <2>2. CASE lc # lb
    <3>1. t.map[lc] = t.pool[k].block
      BY <1>2, <1>11, <2>2
    <3>2. t.pool[k].mapped = NORMAL_MAPPED
      BY <1>11, <3>1 DEF Layout
    <3> QED BY <1>2, <3>2
  <2> QED BY <2>1, <2>2
<1>12. ASSUME NEW lc \in LBlocks, NEW ld \in LBlocks, u.map[lc] = u.map[ld] PROVE lc = ld
  <2>1. CASE lc # lb /\ ld # lb
    BY <1>2, <1>12, <2>1 DEF Layout
  <2>2. CASE lc = lb \/ ld = lb
    BY <1>2, <1>5, <1>12, <2>2
  <2> QED BY <2>1, <2>2
<1>13. Layout(u, i)
  BY <1>3, <1>6, <1>7, <1>8, <1>9, <1>10, <1>11, <1>12 DEF Layout
<1> QED BY <1>4, <1>5, <1>6, <1>13 DEF b

\* The entry found is marked and mapped: the caller goes on as the invariant says.
LEMMA TakeEntryOrder ==
  ASSUME NEW t \in Callers, AtWork(t), TakeEntry(t)
  PROVE  Working(pc[t])' /\ Attached'
<1> DEFINE p == pc[t]
           b == bbt.pool[p.n].block
           q == [p EXCEPT !.at = "new_erase", !.new = b]
<1>1. /\ p \in Places /\ LocalsRight(p) /\ pc \in [Callers -> Places] /\ TableThere(p)
      /\ bbt \in Bbbts /\ Layout(bbt, idx) /\ p.lb \in LBlocks /\ Home \in Blocks
      /\ Home \notin worn
      /\ \A c \in Blocks : flash[c].kind = "table" => c = Home
  BY AtWorkFacts
<1>2. /\ p.at = "take" /\ Go(t, q)
      /\ bbt' = Taken(bbt, p.n, p.lb, b)
      /\ UNCHANGED <<mode, idx, databuf, flash, badmark, worn, want, env>>
  <2>1. /\ p.at = "take"
        /\ UNCHANGED <<mode, idx, databuf, flash, badmark, worn, want, env>>
    BY DEF TakeEntry
  <2>2. p.n \in PoolIdx /\ p.n < idx
    BY <1>1, <2>1 DEF LocalsRight, AtWork, TypeInv, Placed
  <2>3. b # 0
    BY <1>1, <2>2, Sizes DEF Layout
  <2> QED BY <2>1, <2>3, EntryTaken
<1>3. /\ p.n \in PoolIdx /\ p.n < idx /\ bbt.pool[p.n].mapped = NO_MAPPED
      /\ p.lb \in env.range /\ p.old = Mapping(p.lb)
  BY <1>1, <1>2 DEF LocalsRight, AtWork, TypeInv, Placed
<1>4. b \in Blocks
  BY <1>1, <1>3, PoolType
<1>5. /\ q \in Places /\ q.at = "new_erase" /\ q.op = p.op /\ q.lb = p.lb /\ q.old = p.old
      /\ q.new = b
  <2> HIDE DEF p, b
  <2> QED BY <1>1, <1>4 DEF Places, Sites
<1>6. pc'[t] = q
  BY <1>1, <1>2, <1>5, GoFacts
<1>7. /\ Layout(bbt', idx) /\ bbt'.pool[idx].block = bbt.pool[idx].block
      /\ bbt.map[p.lb] # b /\ b >= PoolLba
  <2>1. env.range \subseteq LBlocks
    BY AtWorkFacts, EnvFields
  <2> QED BY <1>1, <1>2, <1>3, <2>1, TakenLayout
<1>8. /\ bbt'.map = [bbt.map EXCEPT ![p.lb] = b] /\ bbt'.map[p.lb] = b
  BY <1>1, <1>2, <1>3, <1>4, TakenMap, TakenTable
<1>9. Home' = Home /\ Layout(bbt, idx)'
  BY <1>2, <1>7 DEF Home, Layout, Apart
<1> HIDE DEF q, p, b
<1>10. TableThere(pc[t])'
  BY <1>1, <1>2, <1>5, <1>6, <1>9 DEF TableThere, Remapping
<1>11. p.old = bbt.map[p.lb] /\ flash[Home] = Table(bbt)
  BY <1>1, <1>2, <1>3 DEF Mapping, TableThere, Uploading, Remapping
<1>12. flash[Home].kind = "table" /\ flash[Home].bbt = bbt
  BY <1>1, <1>11, ContentKinds
<1>13. StoredIn(Home, idx)'
  <2>1. StoredIn(Home, idx)
    BY <1>1, <1>12 DEF StoredIn, Home
  <2>2. Layout(flash[Home].bbt, idx)'
    <3>1. flash'[Home'].bbt = bbt /\ idx' = idx /\ env' = env
      BY <1>2, <1>9, <1>12
    <3> QED BY <1>1, <3>1 DEF Layout, Apart
  <2> QED BY <1>2, <1>9, <2>1, <2>2 DEF StoredIn
<1>14. flash[Home].bbt.map = [bbt'.map EXCEPT ![p.lb] = p.old]
  <2>1. bbt.map \in [LBlocks -> Blocks]
    BY <1>1 DEF Bbbts
  <2> QED BY <1>1, <1>8, <1>11, <1>12, <2>1
<1>15. OldTableThere(pc[t])'
  BY <1>2, <1>3, <1>5, <1>6, <1>7, <1>8, <1>9, <1>11, <1>13, <1>14 DEF OldTableThere
<1>16. LocalsRight(pc[t])'
  BY <1>1, <1>2, <1>5, <1>6 DEF LocalsRight, Uploading
<1> QED BY <1>2, <1>10, <1>15, <1>16 DEF Working, Attached, AtWork

\* In a remap the old and the new block are not the table's.
LEMMA RemapApart ==
  ASSUME NEW t \in Callers, AtWork(t), Remapping(pc[t])
  PROVE  pc[t].new # Home /\ pc[t].old # Home /\ flash[pc[t].old].kind # "table"
<1>1. /\ bbt \in Bbbts /\ Layout(bbt, idx) /\ OldTableThere(pc[t]) /\ pc[t].lb \in LBlocks
      /\ pc[t].old \in Blocks /\ flash \in [Blocks -> Contents]
      /\ \A c \in Blocks : flash[c].kind = "table" => c = Home
  BY AtWorkFacts
<1>2. /\ StoredIn(Home, idx) /\ pc[t].new = bbt.map[pc[t].lb]
      /\ flash[Home].bbt.map = [bbt.map EXCEPT ![pc[t].lb] = pc[t].old]
  BY <1>1 DEF OldTableThere
<1>3. pc[t].new # Home
  BY <1>1, <1>2, HomeOwned DEF Home
<1>4. /\ flash[Home].kind = "table" /\ Home \in Blocks /\ Layout(flash[Home].bbt, idx)
      /\ flash[Home].bbt.pool[idx].block = Home
  BY <1>2 DEF StoredIn
<1>5. flash[Home].bbt \in Bbbts
  BY <1>1, <1>4, ContentKinds
<1>6. flash[Home].bbt.map[pc[t].lb] # Home
  BY <1>1, <1>4, <1>5, HomeOwned
<1>7. flash[Home].bbt.map[pc[t].lb] = pc[t].old
  <2>1. bbt.map \in [LBlocks -> Blocks]
    BY <1>1 DEF Bbbts
  <2> QED BY <1>1, <1>2, <2>1
<1> QED BY <1>1, <1>3, <1>6, <1>7


\* Within a remap the caller goes on to the update of the table or stays in it.
LEMMA RemapPlaces ==
  ASSUME NEW t \in Callers, AtWork(t), Remapping(pc[t])
  PROVE  LET p == pc[t]
             goes(q) == /\ q \in Places /\ q.op = p.op /\ q.lb = p.lb
                        /\ q.old = p.old /\ q.new = p.new /\ q.copy = p.copy
                        /\ q.again = p.again
         IN  /\ goes(AfterErase(p)) /\ goes(AfterCopy(p))
             /\ \/ AfterErase(p).at = "copy_read"
                \/ AfterErase(p).at = "bmt_erase" /\ AfterErase(p).n = idx
             /\ AfterErase(p).at = "copy_read" <=> p.copy
             /\ AfterCopy(p).at = "bmt_erase" /\ AfterCopy(p).n = idx
<1> DEFINE p == pc[t]
<1>1. p \in Places /\ LocalsRight(p) /\ idx \in PoolIdx
  BY AtWorkFacts
<1>2. p.op # "repair"
  BY <1>1 DEF LocalsRight, Remapping, Uploading
<1>3. /\ Upload(p, idx) \in Places /\ Upload(p, idx).at = "bmt_erase" /\ Upload(p, idx).n = idx
      /\ Upload(p, idx).op = p.op /\ Upload(p, idx).lb = p.lb /\ Upload(p, idx).old = p.old
      /\ Upload(p, idx).new = p.new /\ Upload(p, idx).copy = p.copy
      /\ Upload(p, idx).again = p.again
  BY <1>1, UploadPlace
<1> DEFINE r == [p EXCEPT !.at = "copy_read"]
<1>4. /\ r \in Places /\ r.at = "copy_read" /\ r.op = p.op /\ r.lb = p.lb /\ r.old = p.old
      /\ r.new = p.new /\ r.copy = p.copy /\ r.again = p.again
  <2>1. "copy_read" \in Sites
    BY DEF Sites
  <2> QED BY <1>1, <2>1, PlaceAt
<1>5. AfterErase(p) = (IF p.copy THEN r ELSE Upload(p, idx)) /\ AfterCopy(p) = Upload(p, idx)
  BY <1>2 DEF AfterErase, AfterCopy
<1> HIDE DEF r, p
<1>6. p.copy \in BOOLEAN
  BY <1>1, PlaceFields
<1> QED BY <1>3, <1>4, <1>5, <1>6 DEF p

\* The rest of a step of a remap that goes on to q.
LEMMA RemapStep ==
  ASSUME NEW t \in Callers, AtWork(t), Remapping(pc[t]), NEW q, pc'[t] = q,
         q.op = pc[t].op, q.lb = pc[t].lb, q.old = pc[t].old, q.new = pc[t].new,
         \/ q.at = "bmt_erase" /\ q.n = idx
         \/ q.at \in {"copy_read", "copy_write"},
         q.at = "copy_write" => databuf'.kind # "table",
         HomeUntouched, bbt' = bbt, idx' = idx, mode' = mode, env'.range = env.range
  PROVE  Working(pc[t])' /\ Attached'
<1>1. TableThere(pc[t]) /\ OldTableThere(pc[t]) /\ LocalsRight(pc[t])
  BY AtWorkFacts
<1>2. TableThere(pc[t])' /\ OldTableThere(pc[t])'
  <2>1. \/ pc'[t].at = "bmt_erase"
        \/ /\ Remapping(pc'[t]) /\ pc'[t].lb = pc[t].lb
           /\ pc'[t].old = pc[t].old /\ pc'[t].new = pc[t].new
    BY DEF Remapping
  <2> QED BY <1>1, <2>1, RemapGoesOn
<1>3. pc[t].op # "attach" /\ mode = "run" /\ pc[t].lb \in UBlocks
      /\ pc[t].op \in {"read", "write", "erase", "isbad", "markbad", "mark_bad"}
  BY <1>1 DEF LocalsRight, Remapping, Uploading
<1>4. LocalsRight(pc[t])'
  BY <1>3 DEF LocalsRight, Uploading
<1> QED BY <1>2, <1>4 DEF Working, Attached, AtWork

\* The new block is erased: the caller goes on as the invariant says.
LEMMA NewEraseOrder ==
  ASSUME NEW t \in Callers, AtWork(t), NewErase(t)
  PROVE  Working(pc[t])' /\ Attached'
<1> DEFINE p == pc[t]
           q == AfterErase(p)
<1>1. Remapping(p)
  BY DEF NewErase, Remapping
<1>2. /\ q \in Places /\ q.op = p.op /\ q.lb = p.lb /\ q.old = p.old /\ q.new = p.new
      /\ q.at = "copy_read" \/ (q.at = "bmt_erase" /\ q.n = idx)
  BY <1>1, RemapPlaces
<1>3. /\ Go(t, q) /\ flash' = [flash EXCEPT ![p.new] = Erased]
      /\ UNCHANGED <<mode, bbt, idx, databuf, badmark, worn, want, env>>
  BY DEF NewErase
<1>4. pc'[t] = q
  BY <1>2, <1>3, AtWorkFacts, GoFacts
<1>5. HomeUntouched
  <2>1. p.new # Home /\ p.new \in Blocks
    BY <1>1, RemapApart, AtWorkFacts
  <2>2. Erased.kind # "table"
    BY ContentKinds
  <2> QED BY <1>3, <2>1, <2>2, WriteElsewhere
<1> HIDE DEF q
<1> QED BY <1>1, <1>2, <1>3, <1>4, <1>5, RemapStep

\* bbt_nand_copy reads the old block: the caller goes on as the invariant says.
LEMMA CopyReadOrder ==
  ASSUME NEW t \in Callers, AtWork(t), CopyRead(t)
  PROVE  Working(pc[t])' /\ Attached'
<1> DEFINE p == pc[t]
           ok == flash[p.old] # Junk
           r == [p EXCEPT !.at = "copy_write"]
           q == IF ok THEN r ELSE AfterCopy(p)
<1>1. Remapping(p)
  BY DEF CopyRead, Remapping
<1>2. /\ Go(t, q) /\ databuf' = IF ok THEN flash[p.old] ELSE databuf
      /\ UNCHANGED <<mode, bbt, idx, flash, badmark, worn, want, env>>
  BY DEF CopyRead
<1>3. /\ r \in Places /\ r.at = "copy_write" /\ r.op = p.op /\ r.lb = p.lb /\ r.old = p.old
      /\ r.new = p.new
  <2>1. "copy_write" \in Sites /\ p \in Places
    BY AtWorkFacts DEF Sites
  <2> HIDE DEF p
  <2> QED BY <2>1, PlaceAt
<1>4. /\ AfterCopy(p) \in Places /\ AfterCopy(p).op = p.op /\ AfterCopy(p).lb = p.lb
      /\ AfterCopy(p).old = p.old /\ AfterCopy(p).new = p.new
      /\ AfterCopy(p).at = "bmt_erase" /\ AfterCopy(p).n = idx
  BY <1>1, RemapPlaces
<1>5. flash[p.old].kind # "table"
  BY <1>1, RemapApart
<1>6. HomeUntouched
  BY <1>2, AtWorkFacts DEF HomeUntouched
<1> HIDE DEF r, ok
<1>7. q \in Places /\ pc \in [Callers -> Places]
  BY <1>3, <1>4, AtWorkFacts
<1>8. pc'[t] = q
  <2> HIDE DEF q
  <2> QED BY <1>2, <1>7, GoFacts
<1>9. /\ q.op = p.op /\ q.lb = p.lb /\ q.old = p.old /\ q.new = p.new
      /\ (q.at = "bmt_erase" /\ q.n = idx) \/ q.at = "copy_write"
      /\ q.at = "copy_write" => databuf'.kind # "table"
  <2>1. CASE ok
    BY <1>2, <1>3, <1>5, <2>1
  <2>2. CASE ~ok
    BY <1>4, <2>2
  <2> QED BY <2>1, <2>2
<1> HIDE DEF q
<1> QED BY <1>1, <1>2, <1>6, <1>8, <1>9, RemapStep

\* bbt_nand_copy writes the new block: the caller goes on as the invariant says.
LEMMA CopyWriteOrder ==
  ASSUME NEW t \in Callers, AtWork(t), CopyWrite(t)
  PROVE  Working(pc[t])' /\ Attached'
<1> DEFINE p == pc[t]
           q == AfterCopy(p)
           c == IF databuf = Erased THEN flash[p.new] ELSE Programmed(p.new, databuf)
<1>1. Remapping(p)
  BY DEF CopyWrite, Remapping
<1>2. /\ q \in Places /\ q.op = p.op /\ q.lb = p.lb /\ q.old = p.old /\ q.new = p.new
      /\ q.at = "bmt_erase" /\ q.n = idx
  BY <1>1, RemapPlaces
<1>3. /\ Go(t, q) /\ flash' = [flash EXCEPT ![p.new] = c] /\ p.at = "copy_write"
      /\ UNCHANGED <<mode, bbt, idx, databuf, badmark, worn, want, env>>
  BY DEF CopyWrite
<1>4. pc'[t] = q
  BY <1>2, <1>3, AtWorkFacts, GoFacts
<1>5. HomeUntouched
  <2>1. p.new # Home /\ p.new \in Blocks
    BY <1>1, RemapApart, AtWorkFacts
  <2>2. databuf.kind # "table"
    BY <1>3, AtWorkFacts DEF LocalsRight
  <2>3. c.kind # "table" \/ c = flash[p.new]
    BY <2>2, ContentKinds DEF Programmed
  <2> HIDE DEF c
  <2> QED BY <1>3, <2>1, <2>3, WriteElsewhere
<1> HIDE DEF q
<1> QED BY <1>1, <1>2, <1>3, <1>4, <1>5, RemapStep

\* The new block fails: the caller goes on as the invariant says.
LEMMA NewFailsOrder ==
  ASSUME NEW t \in Callers, AtWork(t), NewFails(t)
  PROVE  Working(pc[t])' /\ Attached'
<1> DEFINE p == pc[t]
           q == IF p.at = "new_erase" THEN AfterErase(p) ELSE AfterCopy(p)
<1>1. Remapping(p)
  BY DEF NewFails, Remapping
<1>2. /\ q \in Places /\ q.op = p.op /\ q.lb = p.lb /\ q.old = p.old /\ q.new = p.new
      /\ q.at = "copy_read" \/ (q.at = "bmt_erase" /\ q.n = idx)
  BY <1>1, RemapPlaces
<1>3. /\ Go(t, q) /\ flash' = [flash EXCEPT ![p.new] = Junk] /\ worn' = worn \union {p.new}
      /\ UNCHANGED <<mode, bbt, idx, databuf, badmark, want>> /\ OneFault
  BY DEF NewFails
<1> HIDE DEF q
<1>4. pc'[t] = q
  BY <1>2, <1>3, AtWorkFacts, GoFacts
<1>5. HomeUntouched
  <2>1. p.new # Home /\ p.new \in Blocks
    BY <1>1, RemapApart, AtWorkFacts
  <2>2. Junk.kind # "table"
    BY ContentKinds
  <2> QED BY <1>3, <2>1, <2>2, WriteElsewhere
<1>6. env'.range = env.range
  BY <1>3, AtWorkFacts, EnvSame
<1> QED BY <1>1, <1>2, <1>3, <1>4, <1>5, <1>6, RemapStep


\* A step outside remaps and updates that goes on to q.
LEMMA OutsideStep ==
  ASSUME NEW t \in Callers, AtWork(t), NEW q, pc'[t] = q,
         pc[t].at \in {"idle", "access", "find", "return"},
         q.at \in {"idle", "access", "find"}, mode' = "run",
         q.at # "idle" =>
           /\ q.op \in {"read", "write", "erase", "isbad", "markbad", "mark_bad"}
           /\ q.lb \in UBlocks /\ q.old = Mapping(q.lb),
         HomeUntouched, bbt' = bbt, idx' = idx, env'.range = env.range
  PROVE  Working(pc[t])' /\ Attached'
<1>1. TableThere(pc[t])
  BY AtWorkFacts
<1>2. TableThere(pc[t])' /\ OldTableThere(pc[t])'
  <2>1. ~Uploading(pc[t]) /\ ~Remapping(pc[t]) /\ ~Uploading(pc'[t]) /\ ~Remapping(pc'[t])
    BY DEF Uploading, Remapping
  <2> QED BY <1>1, <2>1, StaysThere
<1>3. \A lb : Mapping(lb)' = Mapping(lb)
  BY SameMapping
<1>4. LocalsRight(pc[t])'
  BY <1>3 DEF LocalsRight, Uploading
<1> QED BY <1>2, <1>4 DEF Working, Attached

\* The call that is under way outside an attach.
LEMMA CallFacts ==
  ASSUME NEW t \in Callers, AtWork(t), pc[t].at \in {"access", "find", "take"}
  PROVE  /\ pc[t].op \in {"read", "write", "erase", "isbad", "markbad", "mark_bad"}
         /\ mode = "run" /\ pc[t].lb \in UBlocks /\ pc[t].old = Mapping(pc[t].lb)
         /\ pc[t].old # Home /\ pc[t].old \in Blocks
<1>1. LocalsRight(pc[t]) /\ pc[t].lb \in LBlocks
  BY AtWorkFacts
<1>2. /\ pc[t].op \in {"read", "write", "erase", "isbad", "markbad", "mark_bad"}
      /\ mode = "run" /\ pc[t].lb \in UBlocks /\ pc[t].old = Mapping(pc[t].lb)
  BY <1>1 DEF LocalsRight, Uploading
<1>3. Mapping(pc[t].lb) # Home /\ Mapping(pc[t].lb) \in Blocks
  BY <1>1, AtWorkFacts
<1> QED BY <1>2, <1>3

\* An MTD operation begins: the caller goes on as the invariant says.
LEMMA StartOrder ==
  ASSUME NEW t \in Callers, AtWork(t), NEW lb \in UBlocks,
         NEW op \in {"read", "write", "erase", "isbad"}, Start(t, op, lb)
  PROVE  Working(pc[t])' /\ Attached'
<1> DEFINE q == [Rest EXCEPT !.at = "access", !.op = op, !.lb = lb, !.old = Mapping(lb)]
<1>1. /\ Go(t, q) /\ mode = "run" /\ pc[t].at = "idle"
      /\ UNCHANGED <<mode, bbt, idx, databuf, flash, badmark, worn, env>>
  BY DEF Start, Calls, Ready
<1>2. lb \in LBlocks
  BY Sizes
<1>3. Mapping(lb) \in Blocks
  BY <1>2, AtWorkFacts
<1>4. q \in Places /\ q.at = "access" /\ q.op = op /\ q.lb = lb /\ q.old = Mapping(lb)
  BY <1>2, <1>3, RestPlace DEF Places, Sites, Ops
<1>5. pc'[t] = q
  BY <1>1, <1>4, AtWorkFacts, GoFacts
<1>6. HomeUntouched
  BY <1>1, AtWorkFacts DEF HomeUntouched
<1> HIDE DEF q
<1> QED BY <1>1, <1>4, <1>5, <1>6, OutsideStep

\* The operation of the chip succeeds: the caller goes on as the invariant says.
LEMMA AccessOrder ==
  ASSUME NEW t \in Callers, AtWork(t), Access(t)
  PROVE  Working(pc[t])' /\ Attached'
<1> DEFINE p == pc[t]
<1>1. /\ p.at = "access" /\ Go(t, Rest)
      /\ UNCHANGED <<mode, bbt, idx, databuf, badmark, worn, env>>
  BY DEF Access
<1>2. mode = "run" /\ p.old # Home /\ p.old \in Blocks /\ p.lb \in UBlocks
  BY <1>1, CallFacts
<1>3. HomeUntouched
  <2>1. CASE p.op = "erase"
    <3>1. flash' = [flash EXCEPT ![p.old] = Erased]
      BY <2>1 DEF Access
    <3>2. Erased.kind # "table"
      BY ContentKinds
    <3> QED BY <1>1, <1>2, <3>1, <3>2, WriteElsewhere
  <2>2. CASE p.op = "write"
    <3> DEFINE c == Programmed(p.old, Data(p.lb, want[p.lb].v + 1))
    <3>1. flash' = [flash EXCEPT ![p.old] = c]
      BY <2>2 DEF Access
    <3>2. c.kind # "table"
      <4>1. Data(p.lb, want[p.lb].v + 1).kind = "data"
        BY DEF Data
      <4> QED BY <4>1, ContentKinds DEF Programmed
    <3> HIDE DEF c
    <3> QED BY <1>1, <1>2, <3>1, <3>2, WriteElsewhere
  <2>3. CASE p.op \notin {"erase", "write"}
    <3>1. flash' = flash
      BY <2>3 DEF Access
    <3> QED BY <1>1, <3>1, AtWorkFacts DEF HomeUntouched
  <2> QED BY <2>1, <2>2, <2>3
<1>4. pc'[t] = Rest /\ Rest.at = "idle"
  BY <1>1, AtWorkFacts, RestPlace, GoFacts
<1> QED BY <1>1, <1>2, <1>3, <1>4, OutsideStep

\* mtk_bmt_block_isbad finds a mark: the caller goes on as the invariant says.
LEMMA IsBadOrder ==
  ASSUME NEW t \in Callers, AtWork(t), IsBad(t)
  PROVE  Working(pc[t])' /\ Attached'
<1> DEFINE p == pc[t]
           q == [p EXCEPT !.at = "find", !.copy = TRUE, !.again = TRUE]
<1>1. /\ p.at = "access" /\ Go(t, q)
      /\ UNCHANGED <<mode, bbt, idx, databuf, flash, badmark, worn, want, env>>
  BY DEF IsBad
<1>2. /\ q \in Places /\ q.at = "find" /\ q.op = p.op /\ q.lb = p.lb /\ q.old = p.old
  <2>1. p \in Places
    BY AtWorkFacts
  <2> HIDE DEF p
  <2> QED BY <2>1 DEF Places, Sites
<1>3. pc'[t] = q
  BY <1>1, <1>2, AtWorkFacts, GoFacts
<1>4. HomeUntouched
  BY <1>1, AtWorkFacts DEF HomeUntouched
<1> HIDE DEF q
<1> QED BY <1>1, <1>2, <1>3, <1>4, CallFacts, OutsideStep

\* The operation of the chip fails: the caller goes on as the invariant says.
LEMMA AccessFailsOrder ==
  ASSUME NEW t \in Callers, AtWork(t), AccessFails(t)
  PROVE  Working(pc[t])' /\ Attached'
<1> DEFINE p == pc[t]
           q == [p EXCEPT !.at = "find", !.copy = p.op = "read", !.again = TRUE]
<1>1. /\ p.at = "access" /\ Go(t, q) /\ worn' = worn \union {p.old} /\ OneFault
      /\ UNCHANGED <<mode, bbt, idx, databuf, badmark>>
  BY DEF AccessFails
<1>2. PICK c \in {flash[p.old], Junk} : flash' = [flash EXCEPT ![p.old] = c]
  BY DEF AccessFails
<1>3. /\ q \in Places /\ q.at = "find" /\ q.op = p.op /\ q.lb = p.lb /\ q.old = p.old
  <2>1. p \in Places
    BY AtWorkFacts
  <2> HIDE DEF p
  <2> QED BY <2>1 DEF Places, Sites
<1>4. pc'[t] = q
  BY <1>1, <1>3, AtWorkFacts, GoFacts
<1>5. p.old # Home /\ p.old \in Blocks
  BY <1>1, CallFacts
<1>6. HomeUntouched
  <2>1. c.kind # "table" \/ c = flash[p.old]
    BY <1>2, ContentKinds
  <2> QED BY <1>1, <1>2, <1>5, <2>1, WriteElsewhere
<1>7. env'.range = env.range
  BY <1>1, AtWorkFacts, EnvSame
<1> HIDE DEF q
<1> QED BY <1>1, <1>3, <1>4, <1>6, <1>7, CallFacts, OutsideStep

\* A read with too many bitflips: the caller goes on as the invariant says.
LEMMA BitflipsOrder ==
  ASSUME NEW t \in Callers, AtWork(t), Bitflips(t)
  PROVE  Working(pc[t])' /\ Attached'
<1> DEFINE p == pc[t]
           q == [p EXCEPT !.at = "find", !.copy = TRUE]
<1>1. /\ p.at = "access" /\ Go(t, q) /\ worn' = worn \union {p.old} /\ OneFault
      /\ UNCHANGED <<mode, bbt, idx, databuf, flash, badmark>>
  BY DEF Bitflips
<1>2. /\ q \in Places /\ q.at = "find" /\ q.op = p.op /\ q.lb = p.lb /\ q.old = p.old
  <2>1. p \in Places
    BY AtWorkFacts
  <2> HIDE DEF p
  <2> QED BY <2>1 DEF Places, Sites
<1>3. pc'[t] = q
  BY <1>1, <1>2, AtWorkFacts, GoFacts
<1>4. HomeUntouched
  <2>1. p.old # Home
    BY <1>1, CallFacts
  <2> QED BY <1>1, <2>1, WriteNowhere
<1>5. env'.range = env.range
  BY <1>1, AtWorkFacts, EnvSame
<1> HIDE DEF q
<1> QED BY <1>1, <1>2, <1>3, <1>4, <1>5, CallFacts, OutsideStep

\* A block is marked bad: the caller goes on as the invariant says.
LEMMA MarkBadOrder ==
  ASSUME NEW t \in Callers, AtWork(t), NEW lb \in UBlocks, NEW op \in {"markbad", "mark_bad"},
         MarkBad(t, op, lb)
  PROVE  Working(pc[t])' /\ Attached'
<1> DEFINE q == [Rest EXCEPT !.at = "find", !.op = op, !.lb = lb, !.old = Mapping(lb),
                             !.copy = TRUE]
<1>1. /\ Go(t, q) /\ mode = "run" /\ pc[t].at = "idle" /\ worn' = worn \union {Mapping(lb)}
      /\ OneFault \/ env' = env
      /\ UNCHANGED <<mode, bbt, idx, databuf, flash, badmark>>
  BY DEF MarkBad, Calls, Ready
<1>2. lb \in LBlocks
  BY Sizes
<1>3. Mapping(lb) \in Blocks /\ Mapping(lb) # Home
  BY <1>2, AtWorkFacts
<1>4. q \in Places /\ q.at = "find" /\ q.op = op /\ q.lb = lb /\ q.old = Mapping(lb)
  BY <1>2, <1>3, RestPlace DEF Places, Sites, Ops
<1>5. pc'[t] = q
  BY <1>1, <1>4, AtWorkFacts, GoFacts
<1>6. HomeUntouched
  BY <1>1, <1>3, WriteNowhere
<1>7. env'.range = env.range
  BY <1>1, AtWorkFacts, EnvSame
<1> HIDE DEF q
<1> QED BY <1>1, <1>4, <1>5, <1>6, <1>7, OutsideStep

\* Back in the caller: retry or done: the caller goes on as the invariant says.
LEMMA ReturnsOrder ==
  ASSUME NEW t \in Callers, AtWork(t), Returns(t)
  PROVE  Working(pc[t])' /\ Attached'
<1> DEFINE p == pc[t]
<1>1. /\ p \in Places /\ LocalsRight(p) /\ pc \in [Callers -> Places] /\ p.lb \in LBlocks
      /\ idx # NoIdx
  BY AtWorkFacts
<1>2. p.at = "return" /\ UNCHANGED <<bbt, idx, databuf, flash, worn, want, env>>
  BY DEF Returns
<1>3. p.op # "repair" /\ (p.again => p.op # "attach")
  BY <1>1, <1>2 DEF LocalsRight
<1>4. /\ Go(t, IF MayRetry(p) THEN Retry(p) ELSE Rest)
      /\ mode' = IF p.op # "attach" THEN mode ELSE "run"
  BY <1>1, <1>3 DEF Returns
<1>5. mode' = "run"
  BY <1>1, <1>2, <1>4 DEF LocalsRight, Uploading
<1>6. HomeUntouched
  BY <1>2, AtWorkFacts DEF HomeUntouched
<1>7. CASE MayRetry(p)
  <2> DEFINE q == Retry(p)
  <2>1. /\ q \in Places /\ q.at = "access" /\ q.op = p.op /\ q.lb = p.lb
        /\ q.old = Mapping(p.lb)
    <3>1. Mapping(p.lb) \in Blocks
      BY <1>1, AtWorkFacts
    <3>2. p.retry + 1 \in 0 .. MaxRetry
      BY <1>1, <1>7, PlaceFields, Sizes DEF MayRetry
    <3> HIDE DEF p
    <3> QED BY <1>1, <3>1, <3>2 DEF Places, Sites, Retry
  <2>2. /\ p.op \in {"read", "write", "erase", "isbad", "markbad", "mark_bad"}
        /\ p.lb \in UBlocks
    BY <1>1, <1>2, <1>3, <1>7 DEF LocalsRight, MayRetry
  <2>3. pc'[t] = q
    BY <1>1, <1>4, <1>7, <2>1, GoFacts
  <2> HIDE DEF q
  <2> QED BY <1>2, <1>5, <1>6, <2>1, <2>2, <2>3, OutsideStep
<1>8. CASE ~MayRetry(p)
  <2>1. pc'[t] = Rest /\ Rest.at = "idle"
    BY <1>1, <1>4, <1>8, RestPlace, GoFacts
  <2> QED BY <1>2, <1>5, <1>6, <2>1, OutsideStep
<1> QED BY <1>7, <1>8


\* The setting only loses failures and power losses.
LEMMA EnvNext ==
  ASSUME TypeInv, [Next]_vars
  PROVE  /\ env'.range = env.range /\ env'.torn = env.torn /\ env'.callers = env.callers
         /\ env'.files = env.files /\ env'.fail = env.fail
<1>1. EnvOK(env)
  BY DEF TypeInv, TypeOK, EnvOK
<1>2. CASE UNCHANGED vars
  BY <1>2 DEF vars
<1>3. CASE AttachFails
  BY <1>3 DEF AttachFails
<1>4. CASE Crash
  BY <1>1, <1>4, EnvSame DEF Crash
<1>5. ASSUME NEW t \in Callers, Driver(t) PROVE env' = env
  BY <1>5 DEF Driver, Attach, AttachLoad, AttachScan, UploadFails, BmtErase, BmtWrite,
              RemapRefused, FindEntry, TakeEntry, NewErase, CopyRead, CopyWrite, Access,
              IsBad, Returns
<1>6. ASSUME NEW t \in Callers, Fault(t) PROVE OneFault
  BY <1>6 DEF Fault, UploadRetries, NewFails, AccessFails, Bitflips
<1>7. ASSUME NEW t \in Callers, User(t) PROVE env' = env \/ OneFault
  BY <1>7 DEF User, Start, MarkBad, Unmap, Free
<1> QED BY <1>1, <1>2, <1>3, <1>4, <1>5, <1>6, <1>7, EnvSame DEF Next

\* A caller who is idle can only attach or begin a call.
LEMMA IdleSteps ==
  ASSUME NEW t \in Callers, pc[t].at = "idle", Driver(t) \/ Fault(t) \/ User(t)
  PROVE  /\ t \in env.callers
         /\ (Attach(t) /\ mode = "off") \/ (User(t) /\ mode = "run")
<1>1. ASSUME Driver(t) PROVE Attach(t)
  BY <1>1 DEF Driver, UploadFails, BmtErase, BmtWrite, RemapRefused, FindEntry, TakeEntry,
              NewErase, CopyRead, CopyWrite, Access, IsBad, Returns
<1>2. ASSUME Fault(t) PROVE FALSE
  BY <1>2 DEF Fault, UploadRetries, NewFails, AccessFails, Bitflips
<1>3. ASSUME Attach(t) PROVE mode = "off" /\ t \in env.callers
  BY <1>3 DEF Attach, AttachLoad, AttachScan
<1>4. ASSUME User(t) PROVE mode = "run" /\ t \in env.callers
  BY <1>4 DEF User, Start, MarkBad, Unmap, Free, Calls, Ready
<1> QED BY <1>1, <1>2, <1>3, <1>4

\* A step of one caller leaves the places of the others.
LEMMA OthersStay ==
  ASSUME TypeInv, NEW t \in Callers, Driver(t) \/ Fault(t) \/ User(t)
  PROVE  \A u \in Callers : u # t => pc'[u] = pc[u]
<1>1. pc \in [Callers -> Places]
  BY DEF TypeInv, TypeOK
<1>2. (\E q : Go(t, q)) \/ pc' = pc
  <2>1. ASSUME Driver(t) PROVE (\E q : Go(t, q)) \/ pc' = pc
    BY <2>1 DEF Driver, Attach, AttachLoad, AttachScan, UploadFails, BmtErase, BmtWrite,
                RemapRefused, FindEntry, TakeEntry, NewErase, CopyRead, CopyWrite, Access,
                IsBad, Returns
  <2>2. ASSUME Fault(t) PROVE \E q : Go(t, q)
    BY <2>2 DEF Fault, UploadRetries, NewFails, AccessFails, Bitflips
  <2>3. ASSUME User(t) PROVE \E q : Go(t, q)
    BY <2>3 DEF User, Start, MarkBad, Unmap, Free
  <2> QED BY <2>1, <2>2, <2>3
<1> QED BY <1>1, <1>2 DEF Go

\* What the caller at work does, step by step.
LEMMA WorkSteps ==
  ASSUME OrderlyUse, NEW t \in Callers, AtWork(t), Driver(t) \/ Fault(t) \/ User(t)
  PROVE  Working(pc[t])' /\ Attached'
<1>1. mode # "off"
  BY DEF AtWork, Attached
<1>2. ASSUME Driver(t) PROVE Working(pc[t])' /\ Attached'
  <2>1. ~Attach(t)
    BY <1>1 DEF Attach, AttachLoad, AttachScan
  <2> QED BY <1>2, <2>1, UploadFailsOrder, BmtEraseOrder, BmtWriteOrder, RemapRefusedOrder,
             FindEntryOrder, TakeEntryOrder, NewEraseOrder, CopyReadOrder, CopyWriteOrder,
             AccessOrder, IsBadOrder, ReturnsOrder
             DEF Driver
<1>3. ASSUME Fault(t) PROVE Working(pc[t])' /\ Attached'
  <2>1. ~UploadRetries(t)
    BY DEF AtWork, UploadRetries
  <2> QED BY <1>3, <2>1, NewFailsOrder, AccessFailsOrder, BitflipsOrder DEF Fault
<1>4. ASSUME User(t) PROVE Working(pc[t])' /\ Attached'
  <2>1. env.files \subseteq {"mark_bad"}
    BY AtWorkFacts, EnvOrderly DEF AtWork
  <2>2. \E lb \in UBlocks :
          \/ \E op \in {"read", "write", "erase", "isbad"} : Start(t, op, lb)
          \/ \E op \in {"markbad", "mark_bad"} : MarkBad(t, op, lb)
    BY <1>4, <2>1 DEF User
  <2> QED BY <2>2, StartOrder, MarkBadOrder
<1> QED BY <1>2, <1>3, <1>4

\* The table that was on the flash is still there if nothing is written.
LEMMA StoredSame ==
  ASSUME flash' = flash, worn' = worn, env'.range = env.range, NEW b, NEW i, StoredIn(b, i)
  PROVE  StoredIn(b, i)'
BY DEF StoredIn, Layout, Apart

\* mtk_bmt_init_v2: the caller goes on as the invariant says.
LEMMA AttachOrder ==
  ASSUME TypeInv, ~env.torn, NEW t \in Callers, Attach(t), pc[t].at = "idle",
         New \/ \E b \in Blocks, i \in PoolIdx : StoredIn(b, i)
  PROVE  Working(pc[t])' /\ Attached'
<1>1. /\ flash \in [Blocks -> Contents] /\ EnvOK(env) /\ pc \in [Callers -> Places]
  BY DEF TypeInv, TypeOK, EnvOK
<1>2. CASE AttachLoad(t)
  <2>1. PICK ecc \in EccErrors : \E x \in LoadTable(ecc) : bbt' = x /\ idx' = BmtIndex(x.pool)
    BY <1>2 DEF AttachLoad
  <2>2. PICK x \in LoadTable(ecc) : bbt' = x /\ idx' = BmtIndex(x.pool)
    BY <2>1
  <2>3. ~New
    BY <2>2, NewLoads
  <2>4. PICK b \in Blocks, i \in PoolIdx : StoredIn(b, i)
    BY <2>3
  <2>5. flash[b].bbt \in Bbbts /\ bbt' = flash[b].bbt /\ idx' = i
    BY <2>2, <2>4, StoredLoads
  <2>6. /\ mode' = "run" /\ pc' = pc /\ flash' = flash /\ worn' = worn /\ env' = env
    BY <1>2 DEF AttachLoad
  <2>7. /\ b \notin worn /\ flash[b].kind = "table" /\ Layout(flash[b].bbt, i)
        /\ flash[b].bbt.pool[i].block = b
        /\ \A c \in Blocks : flash[c].kind = "table" => c = b
    BY <2>4 DEF StoredIn
  <2>8. Home' = b /\ Layout(bbt, idx)'
    BY <2>5, <2>6, <2>7 DEF Home, Layout, Apart
  <2>9. flash[b] = Table(bbt')
    BY <1>1, <2>4, <2>5, <2>7, ContentKinds
  <2>10. TableThere(pc[t])'
    BY <2>6, <2>7, <2>8, <2>9 DEF TableThere
  <2>11. OldTableThere(pc[t])' /\ LocalsRight(pc[t])'
    BY <2>6 DEF OldTableThere, Remapping, LocalsRight, Uploading
  <2> QED BY <2>6, <2>10, <2>11 DEF Working, Attached
<1>3. CASE AttachScan(t)
  <2>1. PICK ecc \in EccErrors :
          /\ LoadTable(ecc) = {}
          /\ \E s \in ScanBadBlocks(ReadsBad(ecc)) :
               bbt' = s.bbt /\ idx' = s.idx /\ Go(t, Upload(Rest, s.idx))
    BY <1>3 DEF AttachScan
  <2>2. ~ \E b \in Blocks, i \in PoolIdx : StoredIn(b, i)
    <3>1. ASSUME NEW b \in Blocks, NEW i \in PoolIdx, StoredIn(b, i) PROVE FALSE
      BY <2>1, <3>1, StoredLoads
    <3> QED BY <3>1
  <2>3. New
    BY <2>2
  <2>4. ReadsBad(ecc) = badmark
    BY <2>3, NewLoads
  <2>5. PICK s \in ScanBadBlocks(badmark) :
          bbt' = s.bbt /\ idx' = s.idx /\ Go(t, Upload(Rest, s.idx))
    BY <2>1, <2>4
  <2>6. /\ mode' = "boot" /\ flash' = flash /\ worn' = worn /\ env' = env
    BY <1>3 DEF AttachScan
  <2>7. s.idx > 0 /\ Apart(s.bbt, env.range)
    BY <2>3, <2>5 DEF New, FitsChip
  <2>8. Layout(s.bbt, s.idx) /\ s.idx \in PoolIdx
    BY <1>1, <2>5, <2>7, ScanLayout, ScanIdx
  <2>9. Layout(bbt, idx)'
    BY <2>5, <2>6, <2>8 DEF Layout, Apart
  <2> DEFINE q == Upload(Rest, s.idx)
  <2>10. /\ q \in Places /\ q.at = "bmt_erase" /\ q.n = s.idx /\ q.op = "attach" /\ ~q.again
    BY <2>8, UploadPlace, RestPlace
  <2>11. pc'[t] = q
    BY <1>1, <2>5, <2>10, GoFacts
  <2> HIDE DEF q
  <2>12. worn' = {} /\ \A c \in Blocks : flash'[c].kind # "table"
    BY <2>3, <2>6, ContentKinds DEF New
  <2>13. TableThere(pc[t])'
    BY <2>9, <2>10, <2>11, <2>12 DEF TableThere, Uploading
  <2>14. OldTableThere(pc[t])' /\ LocalsRight(pc[t])'
    BY <2>5, <2>10, <2>11 DEF OldTableThere, Remapping, LocalsRight, Uploading
  <2> QED BY <2>6, <2>13, <2>14 DEF Working, Attached
<1> QED BY <1>2, <1>3 DEF Attach

\* A power loss tears the new block of a remap or the one that is erased or written.
LEMMA InFlightOne ==
  ASSUME NEW t \in Callers, \A u \in Callers : u # t => pc[u].at = "idle", ~Uploading(pc[t]),
         NEW b \in InFlight
  PROVE  \/ Remapping(pc[t]) /\ b = pc[t].new
         \/ pc[t].at = "access" /\ pc[t].op \in {"erase", "write"} /\ b = pc[t].old
<1>1. PICK u \in Callers :
        b \in (CASE pc[u].at = "bmt_erase" /\ ~NoSpace(pc[u]) -> {bbt.pool[pc[u].n].block}
                 [] pc[u].at \in {"bmt_write", "new_erase", "copy_write"} -> {pc[u].new}
                 [] pc[u].at = "access" /\ pc[u].op \in {"erase", "write"} -> {pc[u].old}
                 [] OTHER -> {})
  BY DEF InFlight
<1>2. u = t
  BY <1>1
<1> QED BY <1>1, <1>2 DEF Uploading, Remapping

\* What a power loss can tear is not the table.
LEMMA HomeNotInFlight ==
  ASSUME NEW t \in Callers, AtWork(t), \A u \in Callers : u # t => pc[u].at = "idle",
         ~Uploading(pc[t])
  PROVE  Home \notin InFlight
<1> SUFFICES ASSUME Home \in InFlight PROVE FALSE
  OBVIOUS
<1>1. CASE Remapping(pc[t]) /\ Home = pc[t].new
  BY <1>1, RemapApart
<1>2. CASE pc[t].at = "access" /\ Home = pc[t].old
  BY <1>2, CallFacts
<1> QED BY <1>1, <1>2, InFlightOne

\* Without an update under way the flash holds a table.
LEMMA HomeStored ==
  ASSUME NEW t \in Callers, AtWork(t), ~Uploading(pc[t])
  PROVE  StoredIn(Home, idx)
<1>1. CASE Remapping(pc[t])
  BY <1>1, AtWorkFacts DEF OldTableThere
<1>2. CASE ~Remapping(pc[t])
  <2>1. /\ Layout(bbt, idx) /\ Home \in Blocks /\ Home \notin worn /\ bbt \in Bbbts
        /\ \A c \in Blocks : flash[c].kind = "table" => c = Home
        /\ TableThere(pc[t])
    BY AtWorkFacts
  <2>2. flash[Home] = Table(bbt)
    BY <1>2, <2>1 DEF TableThere
  <2>3. flash[Home].kind = "table" /\ flash[Home].bbt = bbt
    BY <2>1, <2>2, ContentKinds
  <2> QED BY <2>1, <2>3 DEF StoredIn, Home
<1> QED BY <1>1, <1>2

\* A power loss between updates of the table leaves it on the flash.
LEMMA CrashOrder ==
  ASSUME NEW t \in Callers, AtWork(t), \A u \in Callers : u # t => pc[u].at = "idle", Crash
  PROVE  \E b \in Blocks, i \in PoolIdx : b = Home /\ i = idx /\ StoredIn(b, i) /\ StoredIn(b, i)'
<1>1. ~Uploading(pc[t])
  BY DEF Crash, AtWork, Uploading
<1>2. Home \notin InFlight
  BY <1>1, HomeNotInFlight
<1>3. StoredIn(Home, idx)
  BY <1>1, HomeStored
<1>4. PICK b \in Blocks, i \in PoolIdx : b = Home /\ i = idx
  BY AtWorkFacts
<1>5. StoredIn(b, i)
  BY <1>3, <1>4
<1>6. PICK torn \in SUBSET InFlight :
        /\ flash' = [c \in Blocks |-> IF c \in torn THEN Junk ELSE flash[c]]
        /\ worn' = worn \union torn
  BY DEF Crash
<1>7. flash'[b] = flash[b] /\ b \notin torn
  BY <1>2, <1>4, <1>6
<1>8. \A c \in Blocks : flash'[c].kind = "table" => c = b
  BY <1>5, <1>6, ContentKinds DEF StoredIn
<1>9. env'.range = env.range
  BY AtWorkFacts, EnvSame DEF Crash
<1>10. Layout(flash[b].bbt, i)'
  BY <1>5, <1>7, <1>9 DEF StoredIn, Layout, Apart
<1>11. StoredIn(b, i)'
  BY <1>5, <1>6, <1>7, <1>8, <1>10 DEF StoredIn
<1> QED BY <1>4, <1>5, <1>11

\* A power loss at rest changes nothing on the flash.
LEMMA CrashAtRest ==
  ASSUME TypeInv, \A u \in Callers : pc[u].at = "idle", Crash
  PROVE  flash' = flash /\ worn' = worn /\ badmark' = badmark
<1>1. InFlight = {}
  <2>1. \A u \in Callers :
          (CASE pc[u].at = "bmt_erase" /\ ~NoSpace(pc[u]) -> {bbt.pool[pc[u].n].block}
             [] pc[u].at \in {"bmt_write", "new_erase", "copy_write"} -> {pc[u].new}
             [] pc[u].at = "access" /\ pc[u].op \in {"erase", "write"} -> {pc[u].old}
             [] OTHER -> {}) = {}
    OBVIOUS
  <2> QED BY <2>1 DEF InFlight
<1>2. flash \in [Blocks -> Contents]
  BY DEF TypeInv, TypeOK
<1> QED BY <1>1, <1>2 DEF Crash

\* A new chip is in order.
LEMMA InitOrder == ASSUME OrderlyUse, Init PROVE OrderInv
<1>1. PICK s \in Settings : badmark \in s.bad /\ env = [s EXCEPT !.bad = {}]
  BY DEF Init
<1>2. s \in SettingRecords
  BY BmtV2Assumption
<1>3. env.range = s.range /\ env.torn = s.torn
  BY <1>1, <1>2 DEF SettingRecords
<1>4. ASSUME ~env.torn PROVE New
  <2>1. Orderly(s)
    BY <1>3, <1>4 DEF OrderlyUse
  <2>2. FitsChip(env.range, badmark)
    BY <1>1, <1>3, <2>1 DEF Orderly
  <2> QED BY <2>2 DEF New, Init
<1>5. mode = "off" /\ \A t \in Callers : pc[t].at = "idle"
  BY RestPlace DEF Init
<1> QED BY <1>4, <1>5 DEF OrderInv, Attached

\* Every step of orderly use keeps the order.
LEMMA OrderStep ==
  ASSUME OrderlyUse, TypeInv, OrderInv, [Next]_vars
  PROVE  OrderInv'
<1>1. /\ env'.range = env.range /\ env'.torn = env.torn /\ env'.callers = env.callers
  BY EnvNext
<1> SUFFICES ASSUME ~env.torn
             PROVE  /\ \A t \in Callers : t \notin env'.callers => pc'[t].at = "idle"
                    /\ ~Attached' => \/ New'
                                     \/ \E b \in Blocks, i \in PoolIdx : StoredIn(b, i)'
                    /\ ~Attached' => \A t \in Callers : pc'[t].at = "idle"
                    /\ Attached' => \E t \in env'.callers : Working(pc[t])'
  BY <1>1 DEF OrderInv
<1>2. /\ \A t, u \in env.callers : t = u
      /\ env.callers \subseteq Callers
      /\ EnvOK(env)
  <2>1. EnvOK(env)
    BY DEF TypeInv, TypeOK, EnvOK
  <2> QED BY <2>1, EnvOrderly
<1>3. \A t \in Callers : t \notin env.callers => pc[t].at = "idle"
  BY DEF OrderInv
<1>4. CASE Attached
  <2>1. PICK t \in env.callers : Working(pc[t])
    BY <1>4 DEF OrderInv
  <2>2. t \in Callers /\ AtWork(t) /\ \A u \in Callers : u # t => pc[u].at = "idle"
    BY <1>2, <1>3, <1>4, <2>1 DEF AtWork
  <2>3. CASE UNCHANGED vars
    <3>1. Working(pc[t])' /\ Attached' /\ pc' = pc
      <4>1. UNCHANGED <<mode, bbt, idx, databuf, pc, flash, worn, env>>
        BY <2>3 DEF vars
      <4>2. Home' = Home /\ (Layout(bbt, idx) => Layout(bbt, idx)')
        BY <4>1 DEF Home, Layout, Apart
      <4>3. StoredIn(Home, idx) => StoredIn(Home, idx)'
        BY <4>1, <4>2 DEF StoredIn, Layout, Apart
      <4>4. TableThere(pc[t])'
        BY <2>1, <4>1, <4>2 DEF Working, TableThere, Uploading, Remapping
      <4>5. OldTableThere(pc[t])'
        BY <2>1, <4>1, <4>2, <4>3 DEF Working, OldTableThere, Remapping
      <4>6. LocalsRight(pc[t])'
        BY <2>1, <4>1, <4>2 DEF Working, LocalsRight, Uploading, Mapping
      <4> QED BY <1>4, <4>1, <4>4, <4>5, <4>6 DEF Working, Attached
    <3> QED BY <1>1, <1>3, <2>1, <3>1
  <2>4. CASE AttachFails
    BY <1>4, <2>4 DEF AttachFails, Attached
  <2>5. CASE Crash
    <3>1. \E b \in Blocks, i \in PoolIdx : StoredIn(b, i)'
      BY <2>2, <2>5, CrashOrder
    <3>2. ~Attached' /\ \A u \in Callers : pc'[u].at = "idle"
      BY <2>5, RestPlace DEF Crash, Attached
    <3> QED BY <3>1, <3>2
  <2>6. ASSUME NEW u \in Callers, Driver(u) \/ Fault(u) \/ User(u)
        PROVE  /\ Working(pc[t])' /\ Attached'
               /\ \A w \in Callers : w # t => pc'[w].at = "idle"
    <3>1. u = t
      BY <1>2, <2>1, <2>2, <2>6, IdleSteps
    <3>2. Working(pc[t])' /\ Attached'
      BY <2>2, <2>6, <3>1, WorkSteps
    <3>3. \A w \in Callers : w # t => pc'[w].at = "idle"
      BY <2>2, <2>6, <3>1, OthersStay
    <3> QED BY <3>2, <3>3
  <2>7. ASSUME NEW u \in Callers, Driver(u) \/ Fault(u) \/ User(u)
        PROVE  /\ \A w \in Callers : w \notin env'.callers => pc'[w].at = "idle"
               /\ Attached' /\ \E w \in env'.callers : Working(pc[w])'
    BY <1>1, <2>1, <2>6, <2>7
  <2> QED BY <2>3, <2>4, <2>5, <2>7 DEF Next
<1>5. CASE ~Attached
  <2>1. /\ New \/ \E b \in Blocks, i \in PoolIdx : StoredIn(b, i)
        /\ \A t \in Callers : pc[t].at = "idle"
    BY <1>5 DEF OrderInv
  <2>2. ASSUME flash' = flash, worn' = worn, badmark' = badmark
        PROVE  New' \/ \E b \in Blocks, i \in PoolIdx : StoredIn(b, i)'
    <3>1. CASE New
      BY <1>1, <2>2, <3>1 DEF New, FitsChip, Apart
    <3>2. ASSUME NEW b \in Blocks, NEW i \in PoolIdx, StoredIn(b, i) PROVE StoredIn(b, i)'
      BY <1>1, <2>2, <3>2, StoredSame
    <3> QED BY <2>1, <3>1, <3>2
  <2>3. CASE UNCHANGED vars
    BY <1>5, <2>1, <2>2, <2>3 DEF vars, Attached
  <2>4. CASE AttachFails
    BY <2>1, <2>2, <2>4 DEF AttachFails, Attached
  <2>5. CASE Crash
    <3>1. flash' = flash /\ worn' = worn /\ badmark' = badmark
      BY <2>1, <2>5, CrashAtRest
    <3>2. ~Attached' /\ \A u \in Callers : pc'[u].at = "idle"
      BY <2>5, RestPlace DEF Crash, Attached
    <3> QED BY <2>2, <3>1, <3>2
  <2>6. ASSUME NEW u \in Callers, Driver(u) \/ Fault(u) \/ User(u)
        PROVE  /\ \A w \in Callers : w \notin env'.callers => pc'[w].at = "idle"
               /\ Attached' /\ \E w \in env'.callers : Working(pc[w])'
    <3>1. Attach(u) /\ u \in env.callers
      BY <1>5, <2>1, <2>6, IdleSteps DEF Attached
    <3>2. Working(pc[u])' /\ Attached'
      BY <2>1, <3>1, AttachOrder
    <3>3. \A w \in Callers : w # u => pc'[w] = pc[w]
      BY <2>6, OthersStay
    <3> QED BY <1>1, <1>3, <3>1, <3>2, <3>3
  <2> QED BY <2>3, <2>4, <2>5, <2>6 DEF Next
<1> QED BY <1>4, <1>5

\* Two logic blocks of the user do not have the same block.
LEMMA MappingInjective ==
  ASSUME bbt \in Bbbts, Layout(bbt, idx), env.range \subseteq LBlocks
  PROVE  \A i, j \in UBlocks : i # j => Mapping(i) # Mapping(j)
<1> SUFFICES ASSUME NEW i \in UBlocks, NEW j \in UBlocks, i # j PROVE Mapping(i) # Mapping(j)
  OBVIOUS
<1>1. i \in LBlocks /\ j \in LBlocks
  BY Sizes
<1>2. bbt.map[i] # bbt.map[j]
  BY <1>1 DEF Layout
<1>3. i \in env.range /\ j \notin env.range => bbt.map[i] # j
  BY <1>1 DEF Layout, Apart
<1>4. j \in env.range /\ i \notin env.range => bbt.map[j] # i
  BY <1>1 DEF Layout, Apart
<1> QED BY <1>2, <1>3, <1>4 DEF Mapping

\* Between operations the caller is at work with nothing under way.
LEMMA QuietFacts ==
  ASSUME OrderlyUse, TypeInv, OrderInv, Quiet, ~env.torn
  PROVE  /\ StoredIn(Home, idx) /\ flash[Home].bbt = bbt /\ Layout(bbt, idx)
         /\ bbt \in Bbbts /\ env.range \subseteq LBlocks
<1>1. PICK t \in env.callers : Working(pc[t])
  BY DEF OrderInv, Quiet, Running, Attached
<1>2. t \in Callers /\ env.range \subseteq LBlocks
  <2>1. EnvOK(env)
    BY DEF TypeInv, TypeOK, EnvOK
  <2> QED BY <1>1, <2>1, EnvFields
<1>3. AtWork(t)
  BY <1>1 DEF AtWork, Quiet, Running, Attached
<1>4. ~Uploading(pc[t]) /\ ~Remapping(pc[t])
  BY <1>2 DEF Quiet, Uploading, Remapping
<1>5. StoredIn(Home, idx)
  BY <1>2, <1>3, <1>4, HomeStored
<1>6. bbt \in Bbbts /\ Layout(bbt, idx) /\ TableThere(pc[t])
  BY <1>2, <1>3, AtWorkFacts
<1>7. flash[Home] = Table(bbt)
  BY <1>4, <1>6 DEF TableThere
<1>8. flash[Home].bbt = bbt
  BY <1>6, <1>7, ContentKinds
<1> QED BY <1>2, <1>5, <1>6, <1>8

\* The types and the order hold throughout orderly use.
LEMMA OrderAlways ==
  ASSUME OrderlyUse
  PROVE  Spec => [](TypeInv /\ OrderInv)
<1>1. Init => TypeInv /\ OrderInv
  BY InitTypes, InitOrder
<1>2. TypeInv /\ OrderInv /\ [Next]_vars => (TypeInv /\ OrderInv)'
  BY TypesStep, OrderStep
<1> QED BY <1>1, <1>2, PTL DEF Spec

\* In orderly use the flash holds the table in use whenever no operation is under
\* way: through any number of failing blocks, remaps, retries, bad marks and power
\* losses between updates of the table, init would load what remap_block_v2 made.
THEOREM TablePersists ==
  ASSUME OrderlyUse
  PROVE  Spec => []Persisted
<1>1. TypeInv /\ OrderInv => Persisted
  <2> SUFFICES ASSUME TypeInv, OrderInv, Quiet, ~env.torn PROVE LoadTable({}) = {bbt}
    BY DEF Persisted
  <2>1. StoredIn(Home, idx) /\ flash[Home].bbt = bbt
    BY QuietFacts
  <2>2. {} \in EccErrors
    BY DEF EccErrors
  <2> QED BY <2>1, <2>2, StoredLoads
<1> QED BY <1>1, OrderAlways, PTL

\* In orderly use no two logic blocks share a block, none has the block of the
\* table, and what find_valid_block_in_pool gives out belongs to nobody.
THEOREM NobodyShares ==
  ASSUME OrderlyUse
  PROVE  Spec => []NoSharing
<1>1. TypeInv /\ OrderInv => NoSharing
  <2> SUFFICES ASSUME TypeInv, OrderInv, Quiet, ~env.torn, NEW i \in UBlocks
               PROVE  /\ \A j \in UBlocks \ {i} : Mapping(i) # Mapping(j)
                      /\ idx # NoIdx => Mapping(i) # bbt.pool[idx].block
                      /\ \A k \in FreeEntries : Mapping(i) # bbt.pool[k].block
    BY DEF NoSharing
  <2>1. Layout(bbt, idx) /\ bbt \in Bbbts /\ env.range \subseteq LBlocks
    BY QuietFacts
  <2>2. \A lb \in UBlocks : lb \in LBlocks
    BY Sizes
  <2>3. \A j \in UBlocks \ {i} : Mapping(i) # Mapping(j)
    BY <2>1, MappingInjective
  <2>4. Mapping(i) # bbt.pool[idx].block
    BY <2>1, <2>2, MappingNotHome DEF Home
  <2>5. ASSUME NEW k \in FreeEntries PROVE Mapping(i) # bbt.pool[k].block
    <3>1. k \in PoolIdx /\ k < idx /\ bbt.pool[k].mapped # NORMAL_MAPPED /\ i \in LBlocks
      BY <2>2 DEF FreeEntries, NO_MAPPED, NORMAL_MAPPED
    <3>2. k <= idx
      BY <2>1, <3>1, Sizes DEF Layout
    <3>3. bbt.map[i] # bbt.pool[k].block
      BY <2>1, <3>1, <3>2 DEF Layout
    <3>4. bbt.pool[k].block >= PoolLba
      BY <2>1, <3>1, <3>2 DEF Layout
    <3>5. i # bbt.pool[k].block
      BY <3>1, <3>4, Sizes DEF LBlocks
    <3> QED BY <3>3, <3>5 DEF Mapping
  <2> QED BY <2>3, <2>4, <2>5
<1> QED BY <1>1, OrderAlways, PTL


-----------------------------------------------------------------------------
(* Orderly use on a chip whose pool lasts: the data. *)

\* What is promised is neither lost data nor a table.
LEMMA PromisedContent ==
  ASSUME TypeInv, NEW lb \in UBlocks
  PROVE  /\ want[lb].st \in {"none", "erased", "data"} /\ want[lb].v \in 0 .. MaxVersion
         /\ Content(lb) # Junk /\ Content(lb) \in Contents
<1>1. want \in Wants /\ lb \in LBlocks
  BY Sizes DEF TypeInv, TypeOK, Wants
<1>2. want[lb].st \in {"none", "erased", "data"} /\ want[lb].v \in 0 .. MaxVersion
  BY <1>1 DEF Wants
<1>3. /\ Data(lb, want[lb].v) \in Contents /\ Data(lb, want[lb].v).kind = "data"
      /\ Erased \in Contents /\ Erased.kind = "erased" /\ Junk.kind = "junk"
  BY <1>1, <1>2, ContentKinds
<1> QED BY <1>2, <1>3 DEF Content

\* The caller at work, with all promises kept.
SafeAtWork(t) ==
  /\ AtWork(t) /\ KeptBy(pc[t]) /\ WriteReady(pc[t])
  /\ \A b \in env.fail : b < PoolLba

\* What is known of the caller when the promises are kept.
LEMMA SafeFacts ==
  ASSUME NEW t \in Callers, SafeAtWork(t)
  PROVE  /\ AtWork(t) /\ KeptBy(pc[t]) /\ WriteReady(pc[t]) /\ TypeInv
         /\ want \in Wants /\ UBlocks \subseteq LBlocks
         /\ \A i, j \in UBlocks : i # j => Mapping(i) # Mapping(j)
         /\ \A lb \in UBlocks : Mapping(lb) # Home /\ Mapping(lb) \in Blocks
<1>1. AtWork(t) /\ KeptBy(pc[t]) /\ WriteReady(pc[t]) /\ TypeInv
  BY DEF SafeAtWork, AtWork
<1>2. want \in Wants /\ UBlocks \subseteq LBlocks
  BY <1>1, Sizes DEF TypeInv, TypeOK, Wants
<1>3. /\ bbt \in Bbbts /\ Layout(bbt, idx) /\ EnvOK(env)
      /\ \A lb \in LBlocks : Mapping(lb) # Home /\ Mapping(lb) \in Blocks
  BY <1>1, AtWorkFacts
<1>4. env.range \subseteq LBlocks
  BY <1>3, EnvFields
<1>5. \A i, j \in UBlocks : i # j => Mapping(i) # Mapping(j)
  BY <1>3, <1>4, MappingInjective
<1> QED BY <1>1, <1>2, <1>3, <1>5

\* What a step has to show that goes on to q outside a remap.
LEMMA SafeStep ==
  ASSUME NEW t \in Callers, NEW q, pc'[t] = q, ~Remapping(q),
         q.op \in {"markbad", "mark_bad"} => ~q.again /\ q.at # "access",
         \A lb \in UBlocks : Promised(lb)' => flash'[Mapping(lb)'] = Content(lb)',
         want'[q.lb].st # "none" /\ q.op # "attach" /\ q.at \in {"find", "take"} => q.copy,
         q.op \in {"write", "erase"} /\ q.at # "idle" =>
           want'[q.lb].st = "none" /\ ~q.copy,
         q.op = "write" /\ q.at = "access" => flash'[q.old] = Erased,
         q.op = "write" /\ (Uploading(q) \/ q.at = "return") /\ q.again =>
           flash'[Mapping(q.lb)'] = Erased
  PROVE  KeptBy(pc[t])' /\ WriteReady(pc[t])'
<1>1. KeptBy(pc[t])'
  BY DEF KeptBy, Remapping, Promised
<1>2. WriteReady(pc[t])'
  BY DEF WriteReady, Uploading
<1> QED BY <1>1, <1>2

\* All promises are kept outside a remap.
LEMMA AllKept ==
  ASSUME NEW t \in Callers, SafeAtWork(t), ~Remapping(pc[t]), NEW lb \in UBlocks, Promised(lb)
  PROVE  flash[Mapping(lb)] = Content(lb)
BY DEF SafeAtWork, KeptBy

\* A step that changes no promise and nothing on the flash but the table.
LEMMA SafeTableStep ==
  ASSUME NEW t \in Callers, SafeAtWork(t), Uploading(pc[t]), NEW q, pc'[t] = q,
         q.at \in {"bmt_write", "return"}, q.op = pc[t].op, q.lb = pc[t].lb,
         q.copy = pc[t].copy, q.again = pc[t].again,
         \A b \in Blocks : b # Home => flash'[b] = flash[b],
         want' = want, bbt' = bbt, env' = env
  PROVE  KeptBy(pc[t])' /\ WriteReady(pc[t])'
<1>1. ~Remapping(pc[t]) /\ ~Remapping(q) /\ pc[t].at # "idle"
  BY DEF Remapping, Uploading
<1>2. \A lb : Mapping(lb)' = Mapping(lb)
  BY SameMapping
<1>3. /\ \A lb \in UBlocks : Mapping(lb) # Home /\ Mapping(lb) \in Blocks
      /\ WriteReady(pc[t])
  BY SafeFacts
<1>4. ASSUME NEW lb \in UBlocks, Promised(lb)' PROVE flash'[Mapping(lb)'] = Content(lb)'
  <2>1. Promised(lb) /\ Content(lb)' = Content(lb)
    BY <1>4 DEF Promised, Content
  <2>2. flash[Mapping(lb)] = Content(lb)
    BY <1>1, <2>1, AllKept
  <2> QED BY <1>2, <1>3, <2>1, <2>2
<1>5. /\ q.op \in {"write", "erase"} /\ q.at # "idle" => want'[q.lb].st = "none" /\ ~q.copy
      /\ q.op \in {"markbad", "mark_bad"} => ~q.again /\ q.at # "access"
  BY <1>1, <1>3 DEF WriteReady
<1>6. q.op = "write" /\ q.again => flash'[Mapping(q.lb)'] = Erased
  <2>1. SUFFICES ASSUME q.op = "write", q.again PROVE flash'[Mapping(q.lb)'] = Erased
    OBVIOUS
  <2>2. flash[Mapping(pc[t].lb)] = Erased
    BY <1>3, <2>1 DEF WriteReady
  <2>3. Mapping(pc[t].lb) # Home /\ Mapping(pc[t].lb) \in Blocks
    BY AtWorkFacts, SafeFacts
  <2> QED BY <1>2, <2>2, <2>3
<1> QED BY <1>1, <1>4, <1>5, <1>6, SafeStep

\* upload_bmt erases the block of the table: the promises stay kept.
LEMMA BmtEraseSafe ==
  ASSUME NEW t \in Callers, SafeAtWork(t), BmtErase(t)
  PROVE  KeptBy(pc[t])' /\ WriteReady(pc[t])'
<1> DEFINE p == pc[t]
           q == [p EXCEPT !.at = "bmt_write", !.new = bbt.pool[p.n].block]
<1>1. /\ p \in Places /\ bbt \in Bbbts /\ flash \in [Blocks -> Contents]
      /\ Home \in Blocks /\ LocalsRight(p) /\ pc \in [Callers -> Places]
  BY SafeFacts, AtWorkFacts
<1>2. p.at = "bmt_erase" /\ p.n = idx /\ bbt.pool[p.n].block = Home
  BY <1>1 DEF LocalsRight, Uploading, BmtErase, Home
<1>3. /\ q \in Places /\ q.at = "bmt_write" /\ q.op = p.op /\ q.lb = p.lb
      /\ q.again = p.again /\ q.copy = p.copy
  <2> HIDE DEF p
  <2> QED BY <1>1, <1>2 DEF Places, Sites
<1>4. pc'[t] = q
  <2>1. Go(t, q)
    BY DEF BmtErase
  <2> QED BY <1>1, <1>3, <2>1, GoFacts
<1>5. /\ want' = want /\ bbt' = bbt /\ env' = env
      /\ \A b \in Blocks : b # Home => flash'[b] = flash[b]
  BY <1>1, <1>2 DEF BmtErase
<1>6. Uploading(p)
  BY <1>2 DEF Uploading
<1> HIDE DEF q
<1> QED BY <1>3, <1>4, <1>5, <1>6, SafeTableStep

\* upload_bmt writes the table: the promises stay kept.
LEMMA BmtWriteSafe ==
  ASSUME NEW t \in Callers, SafeAtWork(t), BmtWrite(t)
  PROVE  KeptBy(pc[t])' /\ WriteReady(pc[t])'
<1> DEFINE p == pc[t]
           q == [p EXCEPT !.at = "return"]
<1>1. /\ p \in Places /\ bbt \in Bbbts /\ flash \in [Blocks -> Contents]
      /\ Home \in Blocks /\ LocalsRight(p) /\ pc \in [Callers -> Places]
  BY SafeFacts, AtWorkFacts
<1>2. p.at = "bmt_write" /\ p.new = Home
  BY <1>1 DEF LocalsRight, Uploading, BmtWrite
<1>3. /\ q \in Places /\ q.at = "return" /\ q.op = p.op /\ q.lb = p.lb
      /\ q.again = p.again /\ q.copy = p.copy
  <2>1. "return" \in Sites
    BY DEF Sites
  <2> HIDE DEF p
  <2> QED BY <1>1, <2>1, PlaceAt
<1>4. pc'[t] = q
  <2>1. Go(t, q)
    BY DEF BmtWrite
  <2> QED BY <1>1, <1>3, <2>1, GoFacts
<1>5. /\ want' = want /\ bbt' = bbt /\ env' = env
      /\ \A b \in Blocks : b # Home => flash'[b] = flash[b]
  BY <1>1, <1>2 DEF BmtWrite
<1>6. Uploading(p)
  BY <1>2 DEF Uploading
<1> HIDE DEF q
<1> QED BY <1>3, <1>4, <1>5, <1>6, SafeTableStep

\* A step outside remaps that changes no promise and nothing on the flash.
LEMMA SafeIdleStep ==
  ASSUME NEW t \in Callers, SafeAtWork(t), ~Remapping(pc[t]), NEW q, pc'[t] = q,
         flash' = flash, want' = want, bbt' = bbt, env'.range = env.range,
         ~Remapping(q),
         q.op \in {"markbad", "mark_bad"} => ~q.again /\ q.at # "access",
         want[q.lb].st # "none" /\ q.op # "attach" /\ q.at \in {"find", "take"} => q.copy,
         q.op \in {"write", "erase"} /\ q.at # "idle" =>
           want[q.lb].st = "none" /\ ~q.copy,
         q.op = "write" /\ q.at = "access" => flash[q.old] = Erased,
         q.op = "write" /\ (Uploading(q) \/ q.at = "return") /\ q.again =>
           flash[Mapping(q.lb)] = Erased
  PROVE  KeptBy(pc[t])' /\ WriteReady(pc[t])'
<1>1. \A lb : Mapping(lb)' = Mapping(lb)
  BY SameMapping
<1>2. ASSUME NEW lb \in UBlocks, Promised(lb)' PROVE flash'[Mapping(lb)'] = Content(lb)'
  <2>1. Promised(lb) /\ Content(lb)' = Content(lb)
    BY <1>2 DEF Promised, Content
  <2>2. flash[Mapping(lb)] = Content(lb)
    BY <2>1, AllKept
  <2> QED BY <1>1, <2>1, <2>2
<1> QED BY <1>1, <1>2, SafeStep


\* A remap that is refused: the promises stay kept.
LEMMA RemapRefusedSafe ==
  ASSUME NEW t \in Callers, SafeAtWork(t), RemapRefused(t)
  PROVE  KeptBy(pc[t])' /\ WriteReady(pc[t])'
<1> DEFINE p == pc[t]
           q == [p EXCEPT !.at = "return", !.again = FALSE]
<1>1. /\ p \in Places /\ pc \in [Callers -> Places] /\ WriteReady(p)
  BY SafeFacts, AtWorkFacts
<1>2. /\ p.at = "find" /\ Go(t, q) /\ ~Remapping(p)
      /\ UNCHANGED <<mode, bbt, idx, databuf, flash, badmark, worn, want, env>>
  BY DEF RemapRefused, Remapping
<1>3. q \in Places /\ q.at = "return" /\ q.op = p.op /\ q.lb = p.lb /\ q.copy = p.copy /\ ~q.again
  <2> HIDE DEF p
  <2> QED BY <1>1 DEF Places, Sites
<1>4. pc'[t] = q
  BY <1>1, <1>2, <1>3, GoFacts
<1>5. ~Remapping(q)
  BY <1>3 DEF Remapping
<1>6. q.op \in {"write", "erase"} => want[q.lb].st = "none" /\ ~q.copy
  BY <1>1, <1>2, <1>3 DEF WriteReady
<1> HIDE DEF q
<1> QED BY <1>2, <1>3, <1>4, <1>5, <1>6, SafeIdleStep

\* find_valid_block_in_pool finds an entry: the promises stay kept.
LEMMA FindEntrySafe ==
  ASSUME NEW t \in Callers, SafeAtWork(t), FindEntry(t)
  PROVE  KeptBy(pc[t])' /\ WriteReady(pc[t])'
<1> DEFINE p == pc[t]
           q == [p EXCEPT !.at = "take", !.n = Min(FreeEntries)]
<1>1. /\ p \in Places /\ pc \in [Callers -> Places] /\ WriteReady(p) /\ KeptBy(p)
  BY SafeFacts, AtWorkFacts
<1>2. /\ p.at = "find" /\ Go(t, q) /\ ~Remapping(p) /\ FreeEntries # {}
      /\ UNCHANGED <<mode, bbt, idx, databuf, flash, badmark, worn, want, env>>
  BY DEF FindEntry, Remapping
<1>3. Min(FreeEntries) \in PoolIdx
  BY <1>2, FoundFree
<1>4. /\ q \in Places /\ q.at = "take" /\ q.op = p.op /\ q.lb = p.lb /\ q.copy = p.copy
      /\ q.again = p.again
  <2> HIDE DEF p
  <2> QED BY <1>1, <1>3 DEF Places, Sites
<1>5. pc'[t] = q
  BY <1>1, <1>2, <1>4, GoFacts
<1>6. ~Remapping(q) /\ ~Uploading(q)
  BY <1>4 DEF Remapping, Uploading
<1>7. /\ q.op \in {"write", "erase"} => want[q.lb].st = "none" /\ ~q.copy
      /\ q.op \in {"markbad", "mark_bad"} => ~q.again
      /\ want[q.lb].st # "none" /\ q.op # "attach" => q.copy
  BY <1>1, <1>2, <1>4 DEF WriteReady, KeptBy, Promised
<1> HIDE DEF q
<1> QED BY <1>2, <1>4, <1>5, <1>6, <1>7, SafeIdleStep

\* mtk_bmt_block_isbad finds a mark: the promises stay kept.
LEMMA IsBadSafe ==
  ASSUME NEW t \in Callers, SafeAtWork(t), IsBad(t)
  PROVE  KeptBy(pc[t])' /\ WriteReady(pc[t])'
<1> DEFINE p == pc[t]
           q == [p EXCEPT !.at = "find", !.copy = TRUE, !.again = TRUE]
<1>1. /\ p \in Places /\ pc \in [Callers -> Places]
  BY SafeFacts, AtWorkFacts
<1>2. /\ p.at = "access" /\ p.op = "isbad" /\ Go(t, q) /\ ~Remapping(p)
      /\ UNCHANGED <<mode, bbt, idx, databuf, flash, badmark, worn, want, env>>
  BY DEF IsBad, Remapping
<1>3. q \in Places /\ q.at = "find" /\ q.op = "isbad" /\ q.copy
  <2> HIDE DEF p
  <2> QED BY <1>1, <1>2 DEF Places, Sites
<1>4. pc'[t] = q
  BY <1>1, <1>2, <1>3, GoFacts
<1>5. ~Remapping(q)
  BY <1>3 DEF Remapping
<1> HIDE DEF q
<1> QED BY <1>2, <1>3, <1>4, <1>5, SafeIdleStep

\* A read with too many bitflips: the promises stay kept.
LEMMA BitflipsSafe ==
  ASSUME NEW t \in Callers, SafeAtWork(t), Bitflips(t)
  PROVE  KeptBy(pc[t])' /\ WriteReady(pc[t])'
<1> DEFINE p == pc[t]
           q == [p EXCEPT !.at = "find", !.copy = TRUE]
<1>1. /\ p \in Places /\ pc \in [Callers -> Places]
  BY SafeFacts, AtWorkFacts
<1>2. /\ p.at = "access" /\ p.op = "read" /\ Go(t, q) /\ ~Remapping(p) /\ OneFault
      /\ UNCHANGED <<mode, bbt, idx, databuf, flash, badmark, want>>
  BY DEF Bitflips, Remapping
<1>3. q \in Places /\ q.at = "find" /\ q.op = "read" /\ q.copy
  <2> HIDE DEF p
  <2> QED BY <1>1, <1>2 DEF Places, Sites
<1>4. pc'[t] = q
  BY <1>1, <1>2, <1>3, GoFacts
<1>5. ~Remapping(q)
  BY <1>3 DEF Remapping
<1>6. env'.range = env.range
  BY <1>2, SafeFacts, AtWorkFacts, EnvSame
<1> HIDE DEF q
<1> QED BY <1>2, <1>3, <1>4, <1>5, <1>6, SafeIdleStep

\* A block is marked bad: the promises stay kept.
LEMMA MarkBadSafe ==
  ASSUME NEW t \in Callers, SafeAtWork(t), NEW lb \in UBlocks,
         NEW op \in {"markbad", "mark_bad"}, MarkBad(t, op, lb)
  PROVE  KeptBy(pc[t])' /\ WriteReady(pc[t])'
<1> DEFINE q == [Rest EXCEPT !.at = "find", !.op = op, !.lb = lb, !.old = Mapping(lb),
                             !.copy = TRUE]
<1>1. /\ Go(t, q) /\ ~Remapping(pc[t]) /\ (OneFault \/ env' = env)
      /\ UNCHANGED <<mode, bbt, idx, databuf, flash, badmark, want>>
  BY DEF MarkBad, Calls, Ready, Remapping
<1>2. lb \in LBlocks
  BY Sizes
<1>3. Mapping(lb) \in Blocks
  BY <1>2, SafeFacts
<1>4. q \in Places /\ q.at = "find" /\ q.op = op /\ q.copy /\ ~q.again
  BY <1>2, <1>3, RestPlace DEF Places, Sites, Ops
<1>5. pc'[t] = q
  BY <1>1, <1>4, SafeFacts, AtWorkFacts, GoFacts
<1>6. ~Remapping(q)
  BY <1>4 DEF Remapping
<1>7. env'.range = env.range
  BY <1>1, SafeFacts, AtWorkFacts, EnvSame
<1> HIDE DEF q
<1> QED BY <1>1, <1>4, <1>5, <1>6, <1>7, SafeIdleStep

\* Back in the caller: retry or done: the promises stay kept.
LEMMA ReturnsSafe ==
  ASSUME NEW t \in Callers, SafeAtWork(t), Returns(t)
  PROVE  KeptBy(pc[t])' /\ WriteReady(pc[t])'
<1> DEFINE p == pc[t]
<1>1. /\ p \in Places /\ LocalsRight(p) /\ pc \in [Callers -> Places] /\ p.lb \in LBlocks
      /\ WriteReady(p)
  BY SafeFacts, AtWorkFacts
<1>2. /\ p.at = "return" /\ ~Remapping(p)
      /\ UNCHANGED <<bbt, idx, databuf, flash, worn, want, env>>
  BY DEF Returns, Remapping
<1>3. p.op # "repair"
  BY <1>1, <1>2 DEF LocalsRight
<1>4. Go(t, IF MayRetry(p) THEN Retry(p) ELSE Rest)
  BY <1>3 DEF Returns
<1>5. CASE MayRetry(p)
  <2> DEFINE q == Retry(p)
  <2>1. /\ q \in Places /\ q.at = "access" /\ q.op = p.op /\ q.lb = p.lb
        /\ q.old = Mapping(p.lb) /\ q.copy = p.copy
    <3>1. Mapping(p.lb) \in Blocks
      BY <1>1, SafeFacts, AtWorkFacts
    <3>2. p.retry + 1 \in 0 .. MaxRetry
      BY <1>1, <1>5, PlaceFields, Sizes DEF MayRetry
    <3> HIDE DEF p
    <3> QED BY <1>1, <3>1, <3>2 DEF Places, Sites, Retry
  <2>2. pc'[t] = q
    BY <1>1, <1>4, <1>5, <2>1, GoFacts
  <2>3. /\ q.op \in {"write", "erase"} => want[q.lb].st = "none" /\ ~q.copy
        /\ q.op = "write" => flash[q.old] = Erased
        /\ q.op \notin {"markbad", "mark_bad"}
    BY <1>1, <1>2, <1>5, <2>1 DEF WriteReady, MayRetry
  <2>4. ~Remapping(q) /\ ~Uploading(q)
    BY <2>1 DEF Remapping, Uploading
  <2> HIDE DEF q
  <2> QED BY <1>2, <2>1, <2>2, <2>3, <2>4, SafeIdleStep
<1>6. CASE ~MayRetry(p)
  <2>1. pc'[t] = Rest
    BY <1>1, <1>4, <1>6, RestPlace, GoFacts
  <2>2. ~Remapping(Rest) /\ Rest.op = "attach"
    BY RestPlace DEF Remapping
  <2> QED BY <1>2, <2>1, <2>2, SafeIdleStep
<1> QED BY <1>5, <1>6


\* A step that changes one promise and the block that holds it.
LEMMA OneBlockStep ==
  ASSUME NEW t \in Callers, SafeAtWork(t), ~Remapping(pc[t]), NEW lb \in UBlocks, NEW w,
         want' = [want EXCEPT ![lb] = w], bbt' = bbt, env'.range = env.range,
         \A b \in Blocks : b # Mapping(lb) => flash'[b] = flash[b],
         w.st # "none" =>
           flash'[Mapping(lb)] = IF w.st = "erased" THEN Erased ELSE Data(lb, w.v),
         NEW lc \in UBlocks, Promised(lc)'
  PROVE  flash'[Mapping(lc)'] = Content(lc)'
<1>1. /\ want \in Wants /\ \A i, j \in UBlocks : i # j => Mapping(i) # Mapping(j)
      /\ \A i \in UBlocks : Mapping(i) \in Blocks
  BY SafeFacts
<1>2. \A i : Mapping(i)' = Mapping(i)
  BY SameMapping
<1>3. CASE lc = lb
  <2>1. want'[lc] = w
    BY <1>1, <1>3 DEF Wants
  <2> QED BY <1>2, <1>3, <2>1 DEF Promised, Content
<1>4. CASE lc # lb
  <2>1. want'[lc] = want[lc]
    BY <1>1, <1>4 DEF Wants
  <2>2. Promised(lc) /\ Content(lc)' = Content(lc)
    BY <2>1 DEF Promised, Content
  <2>3. flash[Mapping(lc)] = Content(lc)
    BY <2>2, AllKept
  <2> QED BY <1>1, <1>2, <1>4, <2>2, <2>3
<1> QED BY <1>3, <1>4

\* An MTD operation begins: the promises stay kept.
LEMMA StartSafe ==
  ASSUME NEW t \in Callers, SafeAtWork(t), NEW lb \in UBlocks,
         NEW op \in {"read", "write", "erase", "isbad"}, Start(t, op, lb)
  PROVE  KeptBy(pc[t])' /\ WriteReady(pc[t])'
<1> DEFINE q == [Rest EXCEPT !.at = "access", !.op = op, !.lb = lb, !.old = Mapping(lb)]
<1>1. /\ Go(t, q) /\ ~Remapping(pc[t])
      /\ UNCHANGED <<mode, bbt, idx, databuf, flash, badmark, worn, env>>
  BY DEF Start, Calls, Ready, Remapping
<1>2. lb \in LBlocks
  BY Sizes
<1>3. Mapping(lb) \in Blocks /\ want \in Wants
  BY SafeFacts
<1>4. q \in Places /\ q.at = "access" /\ q.op = op /\ q.lb = lb /\ q.old = Mapping(lb) /\ ~q.copy
  BY <1>2, <1>3, RestPlace DEF Places, Sites, Ops
<1>5. pc'[t] = q
  BY <1>1, <1>4, SafeFacts, AtWorkFacts, GoFacts
<1>6. ~Remapping(q) /\ ~Uploading(q)
  BY <1>4 DEF Remapping, Uploading
<1> HIDE DEF q
<1>7. CASE op \in {"read", "isbad"}
  <2>1. want' = want
    BY <1>7 DEF Start
  <2> QED BY <1>1, <1>4, <1>5, <1>6, <1>7, <2>1, SafeIdleStep
<1>8. CASE op \in {"write", "erase"}
  <2> DEFINE w == [st |-> "none", v |-> want[lb].v]
  <2>1. want' = [want EXCEPT ![lb] = w]
    BY <1>8 DEF Start, Promise
  <2>2. want'[lb].st = "none"
    BY <1>3, <2>1 DEF Wants
  <2>3. op = "write" => flash[Mapping(lb)] = Erased
    <3>1. op = "write" => want[lb].st = "erased"
      BY DEF Start
    <3> QED BY <1>1, <3>1, AllKept DEF Promised, Content
  <2>4. w.st = "none"
    OBVIOUS
  <2> HIDE DEF w
  <2>5. ASSUME NEW lc \in UBlocks, Promised(lc)' PROVE flash'[Mapping(lc)'] = Content(lc)'
    BY <1>1, <2>1, <2>4, <2>5, OneBlockStep
  <2> QED BY <1>1, <1>4, <1>5, <1>6, <2>2, <2>3, <2>5, SafeStep
<1> QED BY <1>7, <1>8

\* The operation of the chip succeeds: the promises stay kept.
LEMMA AccessSafe ==
  ASSUME NEW t \in Callers, SafeAtWork(t), Access(t)
  PROVE  KeptBy(pc[t])' /\ WriteReady(pc[t])'
<1> DEFINE p == pc[t]
<1>1. /\ p.at = "access" /\ Go(t, Rest) /\ ~Remapping(p)
      /\ UNCHANGED <<mode, bbt, idx, databuf, badmark, worn, env>>
  BY DEF Access, Remapping
<1>2. /\ p.old \in Blocks /\ p.lb \in UBlocks /\ p.old = Mapping(p.lb)
      /\ flash \in [Blocks -> Contents] /\ WriteReady(p) /\ want \in Wants
  BY <1>1, CallFacts, SafeFacts, AtWorkFacts
<1>3. pc'[t] = Rest /\ Rest.at = "idle" /\ Rest.op = "attach" /\ ~Remapping(Rest)
  BY <1>1, SafeFacts, AtWorkFacts, RestPlace, GoFacts DEF Remapping
<1>4. CASE p.op = "erase"
  <2> DEFINE w == [st |-> "erased", v |-> want[p.lb].v]
  <2>1. flash' = [flash EXCEPT ![p.old] = Erased] /\ want' = [want EXCEPT ![p.lb] = w]
    BY <1>4 DEF Access, Promise
  <2>2. /\ flash'[p.old] = Erased /\ \A b \in Blocks : b # p.old => flash'[b] = flash[b]
    BY <1>2, <2>1
  <2>3. w.st = "erased"
    OBVIOUS
  <2> HIDE DEF w
  <2>4. ASSUME NEW lc \in UBlocks, Promised(lc)' PROVE flash'[Mapping(lc)'] = Content(lc)'
    BY <1>1, <1>2, <2>1, <2>2, <2>3, <2>4, OneBlockStep
  <2> QED BY <1>3, <2>4, SafeStep
<1>5. CASE p.op = "write"
  <2> DEFINE w == [st |-> "data", v |-> want[p.lb].v + 1]
  <2>1. flash[p.old] = Erased
    BY <1>1, <1>2, <1>5 DEF WriteReady
  <2>2. /\ flash' = [flash EXCEPT ![p.old] = Data(p.lb, want[p.lb].v + 1)]
        /\ want' = [want EXCEPT ![p.lb] = w]
    BY <1>5, <2>1 DEF Access, Promise, Programmed
  <2>3. /\ flash'[p.old] = Data(p.lb, want[p.lb].v + 1)
        /\ \A b \in Blocks : b # p.old => flash'[b] = flash[b]
    BY <1>2, <2>2
  <2>4. w.st = "data" /\ w.v = want[p.lb].v + 1
    OBVIOUS
  <2> HIDE DEF w
  <2>5. flash'[p.old] = Data(p.lb, w.v)
    BY <2>3, <2>4
  <2>6. ASSUME NEW lc \in UBlocks, Promised(lc)' PROVE flash'[Mapping(lc)'] = Content(lc)'
    BY <1>1, <1>2, <2>2, <2>3, <2>4, <2>5, <2>6, OneBlockStep
  <2> QED BY <1>3, <2>6, SafeStep
<1>6. CASE p.op \notin {"erase", "write"}
  <2>1. flash' = flash /\ want' = want
    BY <1>6 DEF Access
  <2> QED BY <1>1, <1>3, <2>1, SafeIdleStep
<1> QED BY <1>4, <1>5, <1>6

\* The operation of the chip fails: the promises stay kept.
LEMMA AccessFailsSafe ==
  ASSUME NEW t \in Callers, SafeAtWork(t), AccessFails(t)
  PROVE  KeptBy(pc[t])' /\ WriteReady(pc[t])'
<1> DEFINE p == pc[t]
           q == [p EXCEPT !.at = "find", !.copy = p.op = "read", !.again = TRUE]
           w == [st |-> "none", v |-> want[p.lb].v]
<1>1. /\ p.at = "access" /\ Go(t, q) /\ OneFault /\ ~Remapping(p) /\ p.op # "isbad"
      /\ UNCHANGED <<mode, bbt, idx, databuf, badmark>>
  BY DEF AccessFails, Remapping
<1>2. PICK c \in {flash[p.old], Junk} : flash' = [flash EXCEPT ![p.old] = c]
  BY DEF AccessFails
<1>3. /\ p.old \in Blocks /\ p.lb \in UBlocks /\ p.old = Mapping(p.lb) /\ p \in Places
      /\ flash \in [Blocks -> Contents] /\ WriteReady(p) /\ want \in Wants
  BY <1>1, CallFacts, SafeFacts, AtWorkFacts
<1>4. /\ q \in Places /\ q.at = "find" /\ q.op = p.op /\ q.lb = p.lb /\ q.old = p.old
      /\ q.copy = (p.op = "read")
  <2> HIDE DEF p
  <2> QED BY <1>3 DEF Places, Sites
<1>5. pc'[t] = q
  BY <1>1, <1>4, SafeFacts, AtWorkFacts, GoFacts
<1>6. ~Remapping(q) /\ ~Uploading(q)
  BY <1>4 DEF Remapping, Uploading
<1>7. env'.range = env.range
  BY <1>1, SafeFacts, AtWorkFacts, EnvSame
<1>8. \A b \in Blocks : b # Mapping(p.lb) => flash'[b] = flash[b]
  BY <1>2, <1>3
<1>9. w.st = "none" /\ (p.op = "read" => want' = [want EXCEPT ![p.lb] = w])
  BY DEF AccessFails, Promise
<1> HIDE DEF q, w
<1>10. CASE p.op = "read"
  <2>1. want'[p.lb].st = "none"
    BY <1>3, <1>9, <1>10 DEF Wants
  <2>2. ASSUME NEW lc \in UBlocks, Promised(lc)' PROVE flash'[Mapping(lc)'] = Content(lc)'
    BY <1>1, <1>3, <1>7, <1>8, <1>9, <1>10, <2>2, OneBlockStep
  <2> QED BY <1>4, <1>5, <1>6, <1>10, <2>1, <2>2, SafeStep
<1>11. CASE p.op \in {"write", "erase"}
  <2>1. want' = want /\ want[p.lb].st = "none"
    BY <1>1, <1>3, <1>11 DEF AccessFails, WriteReady
  <2>2. want' = [want EXCEPT ![p.lb] = want[p.lb]]
    BY <1>3, <2>1 DEF Wants
  <2>3. ASSUME NEW lc \in UBlocks, Promised(lc)' PROVE flash'[Mapping(lc)'] = Content(lc)'
    BY <1>1, <1>3, <1>7, <1>8, <2>1, <2>2, <2>3, OneBlockStep
  <2> QED BY <1>4, <1>5, <1>6, <1>11, <2>1, <2>3, SafeStep
<1>12. p.op \in {"read", "write", "erase"}
  <2>1. p.op \in {"read", "write", "erase", "isbad", "markbad", "mark_bad"}
    BY <1>1, CallFacts, SafeFacts
  <2> QED BY <1>1, <1>3, <2>1 DEF WriteReady
<1> QED BY <1>10, <1>11, <1>12


\* The entry found is marked and mapped: the promises stay kept.
LEMMA TakeEntrySafe ==
  ASSUME NEW t \in Callers, SafeAtWork(t), TakeEntry(t)
  PROVE  KeptBy(pc[t])' /\ WriteReady(pc[t])'
<1> DEFINE p == pc[t]
           b == bbt.pool[p.n].block
           q == [p EXCEPT !.at = "new_erase", !.new = b]
<1>1. /\ p \in Places /\ LocalsRight(p) /\ pc \in [Callers -> Places]
      /\ bbt \in Bbbts /\ p.lb \in LBlocks /\ WriteReady(p) /\ UBlocks \subseteq LBlocks
      /\ KeptBy(p) /\ TypeInv
  BY SafeFacts, AtWorkFacts
<1>2. /\ p.at = "take" /\ Go(t, q) /\ bbt' = Taken(bbt, p.n, p.lb, b)
      /\ UNCHANGED <<mode, idx, databuf, flash, badmark, worn, want, env>>
  <2>1. /\ p.at = "take"
        /\ UNCHANGED <<mode, idx, databuf, flash, badmark, worn, want, env>>
    BY DEF TakeEntry
  <2>2. p.n \in PoolIdx /\ p.n < idx /\ Layout(bbt, idx)
    BY <1>1, <2>1, SafeFacts, AtWorkFacts DEF LocalsRight, TypeInv, Placed
  <2>3. b # 0
    BY <2>2, Sizes DEF Layout
  <2> QED BY <2>1, <2>3, EntryTaken
<1>3. /\ p.n \in PoolIdx /\ p.lb \in UBlocks /\ p.old = Mapping(p.lb) /\ p.op # "attach"
  <2>1. p.n \in PoolIdx
    BY <1>1, <1>2 DEF TypeInv, Placed
  <2> QED BY <1>2, <2>1, SafeFacts, CallFacts
<1>4. b \in Blocks
  BY <1>1, <1>3, PoolType
<1>5. /\ q \in Places /\ q.at = "new_erase" /\ q.op = p.op /\ q.lb = p.lb /\ q.old = p.old
      /\ q.copy = p.copy /\ q.again = p.again
  <2> HIDE DEF p, b
  <2> QED BY <1>1, <1>4 DEF Places, Sites
<1>6. pc'[t] = q
  BY <1>1, <1>2, <1>5, GoFacts
<1>7. ASSUME NEW lb \in UBlocks, lb # p.lb PROVE Mapping(lb)' = Mapping(lb)
  <2>1. bbt'.map[lb] = bbt.map[lb]
    BY <1>1, <1>2, <1>3, <1>4, <1>7, TakenTable
  <2> QED BY <1>2, <2>1 DEF Mapping
<1> HIDE DEF q, b
<1>8. /\ ~Remapping(p) /\ Remapping(q)
      /\ \A lb : Promised(lb)' = Promised(lb) /\ Content(lb)' = Content(lb)
  BY <1>2, <1>5 DEF Remapping, Promised, Content
<1>9. ASSUME NEW lb \in UBlocks, Promised(lb), lb # p.lb PROVE flash'[Mapping(lb)'] = Content(lb)
  <2>1. flash[Mapping(lb)] = Content(lb)
    BY <1>8, <1>9, AllKept
  <2> QED BY <1>2, <1>7, <1>9, <2>1
<1>10. Promised(p.lb) => flash'[p.old] = Content(p.lb) /\ p.copy
  <2>1. Promised(p.lb) => p.copy
    BY <1>1, <1>2, <1>3 DEF KeptBy
  <2>2. Promised(p.lb) => flash[Mapping(p.lb)] = Content(p.lb)
    BY <1>3, <1>8, AllKept
  <2> QED BY <1>2, <1>3, <2>1, <2>2
<1>11. KeptBy(pc[t])'
  BY <1>5, <1>6, <1>8, <1>9, <1>10 DEF KeptBy
<1>12. WriteReady(pc[t])'
  BY <1>1, <1>2, <1>5, <1>6 DEF WriteReady, Uploading
<1> QED BY <1>11, <1>12

\* The new block of a remap holds nothing else, and is one of the pool.
LEMMA NewBlock ==
  ASSUME NEW t \in Callers, SafeAtWork(t), Remapping(pc[t])
  PROVE  /\ pc[t].lb \in UBlocks /\ pc[t].new = Mapping(pc[t].lb) /\ pc[t].new \in Blocks
         /\ pc[t].new >= PoolLba /\ pc[t].old # pc[t].new /\ pc[t].old \in Blocks
         /\ \A lb \in UBlocks : lb # pc[t].lb => Mapping(lb) # pc[t].new
         /\ pc[t].op # "attach" /\ pc[t].at # "idle"
<1>1. /\ OldTableThere(pc[t]) /\ LocalsRight(pc[t]) /\ pc[t].new \in Blocks
      /\ pc[t].old \in Blocks
  BY SafeFacts, AtWorkFacts
<1>2. pc[t].lb \in UBlocks /\ pc[t].op # "attach" /\ pc[t].at # "idle"
  BY <1>1 DEF LocalsRight, Remapping, Uploading
<1>3. /\ pc[t].lb \in env.range /\ pc[t].new = bbt.map[pc[t].lb] /\ pc[t].old # pc[t].new
      /\ pc[t].new >= PoolLba
  BY <1>1 DEF OldTableThere
<1>4. pc[t].new = Mapping(pc[t].lb)
  BY <1>3 DEF Mapping
<1> QED BY <1>1, <1>2, <1>3, <1>4, SafeFacts

\* A step of a remap that changes no promise and at most the new block.
LEMMA SafeRemapStep ==
  ASSUME NEW t \in Callers, SafeAtWork(t), Remapping(pc[t]), NEW q, pc'[t] = q,
         q.op = pc[t].op, q.lb = pc[t].lb, q.old = pc[t].old, q.new = pc[t].new,
         q.copy = pc[t].copy, q.again = pc[t].again,
         want' = want, bbt' = bbt, env' = env,
         \A b \in Blocks : b # pc[t].new => flash'[b] = flash[b],
         \/ /\ q.at = "bmt_erase"
            /\ Promised(pc[t].lb) => flash'[pc[t].new] = Content(pc[t].lb)
            /\ pc[t].op = "write" => flash'[pc[t].new] = Erased
         \/ /\ q.at \in {"copy_read", "copy_write"} /\ pc[t].copy
            /\ flash'[pc[t].new] = Erased
            /\ q.at = "copy_write" /\ Promised(pc[t].lb) => databuf' = Content(pc[t].lb)
  PROVE  KeptBy(pc[t])' /\ WriteReady(pc[t])'
<1> DEFINE p == pc[t]
<1>1. /\ p.lb \in UBlocks /\ p.new = Mapping(p.lb) /\ p.old # p.new /\ p.old \in Blocks
      /\ \A lb \in UBlocks : lb # p.lb => Mapping(lb) # p.new
      /\ p.op # "attach" /\ p.at # "idle"
  BY NewBlock
<1>2. \A lb : Mapping(lb)' = Mapping(lb)
  BY SameMapping
<1>3. /\ KeptBy(p) /\ WriteReady(p) /\ \A lb \in UBlocks : Mapping(lb) \in Blocks
  BY SafeFacts
<1>4. \A lb : Promised(lb)' = Promised(lb) /\ Content(lb)' = Content(lb)
  BY DEF Promised, Content
<1>5. ASSUME NEW lb \in UBlocks, Promised(lb), lb # p.lb PROVE flash'[Mapping(lb)] = Content(lb)
  <2>1. flash[Mapping(lb)] = Content(lb)
    BY <1>3, <1>5 DEF KeptBy
  <2> QED BY <1>1, <1>3, <1>5, <2>1
<1>6. Promised(p.lb) => flash'[p.old] = Content(p.lb) /\ p.copy
  <2>1. Promised(p.lb) => flash[p.old] = Content(p.lb) /\ p.copy
    BY <1>1, <1>3 DEF KeptBy
  <2> QED BY <1>1, <2>1
<1>7. p.op \in {"write", "erase"} => want[p.lb].st = "none" /\ ~p.copy
  BY <1>1, <1>3 DEF WriteReady
<1>8. p.op \in {"markbad", "mark_bad"} => ~p.again /\ p.at # "access"
  BY <1>1, <1>3 DEF WriteReady
<1> HIDE DEF p
<1>9. CASE q.at = "bmt_erase"
  <2>1. ~Remapping(q)
    BY <1>9 DEF Remapping
  <2>2. ASSUME NEW lb \in UBlocks, Promised(lb)' PROVE flash'[Mapping(lb)'] = Content(lb)'
    <3>1. CASE lb = p.lb
      BY <1>1, <1>2, <1>4, <1>9, <2>2, <3>1 DEF p
    <3>2. CASE lb # p.lb
      BY <1>2, <1>4, <1>5, <2>2, <3>2
    <3> QED BY <3>1, <3>2
  <2>3. q.op = "write" => flash'[Mapping(q.lb)'] = Erased
    BY <1>1, <1>2, <1>9 DEF p
  <2> QED BY <1>7, <1>8, <1>9, <2>1, <2>2, <2>3, SafeStep DEF p
<1>10. CASE q.at \in {"copy_read", "copy_write"}
  <2>1. /\ p.copy /\ flash'[p.new] = Erased
        /\ q.at = "copy_write" /\ Promised(p.lb) => databuf' = Content(p.lb)
    BY <1>10 DEF p
  <2>2. Remapping(q)
    BY <1>10 DEF Remapping
  <2>3. /\ q.op = p.op /\ q.lb = p.lb /\ q.old = p.old /\ q.new = p.new /\ q.copy = p.copy
        /\ q.again = p.again
    BY DEF p
  <2>4. KeptBy(pc[t])'
    BY <1>2, <1>4, <1>5, <1>6, <1>10, <2>1, <2>2, <2>3 DEF KeptBy
  <2>5. WriteReady(pc[t])'
    BY <1>7, <1>8, <1>10, <2>3 DEF WriteReady, Uploading
  <2> QED BY <2>4, <2>5
<1> QED BY <1>9, <1>10


\* The new block is erased: the promises stay kept.
LEMMA NewEraseSafe ==
  ASSUME NEW t \in Callers, SafeAtWork(t), NewErase(t)
  PROVE  KeptBy(pc[t])' /\ WriteReady(pc[t])'
<1> DEFINE p == pc[t]
           q == AfterErase(p)
<1>1. Remapping(p) /\ AtWork(t)
  BY DEF NewErase, Remapping, SafeAtWork
<1>2. /\ q \in Places /\ q.op = p.op /\ q.lb = p.lb /\ q.old = p.old /\ q.new = p.new
      /\ q.copy = p.copy /\ q.again = p.again
      /\ q.at = "copy_read" \/ (q.at = "bmt_erase" /\ q.n = idx)
      /\ q.at = "copy_read" <=> p.copy
  BY <1>1, RemapPlaces
<1>3. /\ Go(t, q) /\ flash' = [flash EXCEPT ![p.new] = Erased]
      /\ UNCHANGED <<mode, bbt, idx, databuf, badmark, worn, want, env>>
  BY DEF NewErase
<1>4. pc'[t] = q
  BY <1>1, <1>2, <1>3, AtWorkFacts, GoFacts
<1>5. /\ p.new \in Blocks /\ p.op # "attach" /\ flash \in [Blocks -> Contents] /\ KeptBy(p)
  BY <1>1, NewBlock, SafeFacts, AtWorkFacts
<1>6. flash'[p.new] = Erased /\ \A b \in Blocks : b # p.new => flash'[b] = flash[b]
  BY <1>3, <1>5
<1>7. Promised(p.lb) => p.copy
  BY <1>1, <1>5 DEF KeptBy
<1> HIDE DEF q
<1> QED BY <1>1, <1>2, <1>3, <1>4, <1>6, <1>7, SafeRemapStep

\* bbt_nand_copy reads the old block: the promises stay kept.
LEMMA CopyReadSafe ==
  ASSUME NEW t \in Callers, SafeAtWork(t), CopyRead(t)
  PROVE  KeptBy(pc[t])' /\ WriteReady(pc[t])'
<1> DEFINE p == pc[t]
           ok == flash[p.old] # Junk
           r == [p EXCEPT !.at = "copy_write"]
           q == IF ok THEN r ELSE AfterCopy(p)
<1>1. Remapping(p) /\ p.at = "copy_read" /\ AtWork(t)
  BY DEF CopyRead, Remapping, SafeAtWork
<1>2. /\ Go(t, q) /\ databuf' = (IF ok THEN flash[p.old] ELSE databuf)
      /\ UNCHANGED <<mode, bbt, idx, flash, badmark, worn, want, env>>
  BY DEF CopyRead
<1>3. /\ r \in Places /\ r.at = "copy_write" /\ r.op = p.op /\ r.lb = p.lb /\ r.old = p.old
      /\ r.new = p.new /\ r.copy = p.copy /\ r.again = p.again
  <2>1. "copy_write" \in Sites /\ p \in Places
    BY <1>1, AtWorkFacts DEF Sites
  <2> HIDE DEF p
  <2> QED BY <2>1, PlaceAt
<1>4. /\ AfterCopy(p) \in Places /\ AfterCopy(p).op = p.op /\ AfterCopy(p).lb = p.lb
      /\ AfterCopy(p).old = p.old /\ AfterCopy(p).new = p.new
      /\ AfterCopy(p).copy = p.copy /\ AfterCopy(p).again = p.again
      /\ AfterCopy(p).at = "bmt_erase"
  BY <1>1, RemapPlaces
<1>5. /\ p.copy /\ flash[p.new] = Erased
      /\ Promised(p.lb) => flash[p.old] = Content(p.lb)
      /\ p.op = "write" => ~p.copy
  BY <1>1, SafeFacts DEF KeptBy, WriteReady
<1>6. Promised(p.lb) => ok
  <2>1. Content(p.lb) # Junk
    BY <1>1, NewBlock, SafeFacts, PromisedContent
  <2> QED BY <1>5, <2>1
<1> HIDE DEF r, ok
<1>7. q \in Places /\ pc \in [Callers -> Places]
  BY <1>1, <1>3, <1>4, AtWorkFacts
<1>8. pc'[t] = q
  <2> HIDE DEF q
  <2> QED BY <1>1, <1>2, <1>7, GoFacts
<1>9. CASE ok
  <2>1. databuf' = flash[p.old] /\ q = r
    BY <1>2, <1>9
  <2> HIDE DEF q
  <2> QED BY <1>1, <1>2, <1>3, <1>5, <1>8, <2>1, SafeRemapStep
<1>10. CASE ~ok
  <2>1. q = AfterCopy(p)
    BY <1>10
  <2> HIDE DEF q
  <2> QED BY <1>1, <1>2, <1>4, <1>5, <1>6, <1>8, <1>10, <2>1, SafeRemapStep
<1> QED BY <1>9, <1>10

\* bbt_nand_copy writes the new block: the promises stay kept.
LEMMA CopyWriteSafe ==
  ASSUME NEW t \in Callers, SafeAtWork(t), CopyWrite(t)
  PROVE  KeptBy(pc[t])' /\ WriteReady(pc[t])'
<1> DEFINE p == pc[t]
           q == AfterCopy(p)
           c == IF databuf = Erased THEN flash[p.new] ELSE Programmed(p.new, databuf)
<1>1. Remapping(p) /\ p.at = "copy_write" /\ AtWork(t)
  BY DEF CopyWrite, Remapping, SafeAtWork
<1>2. /\ q \in Places /\ q.op = p.op /\ q.lb = p.lb /\ q.old = p.old /\ q.new = p.new
      /\ q.copy = p.copy /\ q.again = p.again /\ q.at = "bmt_erase"
  BY <1>1, RemapPlaces
<1>3. /\ Go(t, q) /\ flash' = [flash EXCEPT ![p.new] = c]
      /\ UNCHANGED <<mode, bbt, idx, databuf, badmark, worn, want, env>>
  BY DEF CopyWrite
<1>4. pc'[t] = q
  BY <1>1, <1>2, <1>3, AtWorkFacts, GoFacts
<1>5. /\ p.copy /\ flash[p.new] = Erased /\ (p.op = "write" => ~p.copy)
      /\ Promised(p.lb) => databuf = Content(p.lb)
  BY <1>1, SafeFacts DEF KeptBy, WriteReady
<1>6. c = databuf
  BY <1>5 DEF Programmed
<1>7. /\ flash'[p.new] = databuf /\ \A b \in Blocks : b # p.new => flash'[b] = flash[b]
  <2>1. p.new \in Blocks /\ flash \in [Blocks -> Contents]
    BY <1>1, AtWorkFacts
  <2> HIDE DEF c
  <2> QED BY <1>3, <1>6, <2>1
<1> HIDE DEF q, c
<1> QED BY <1>1, <1>2, <1>3, <1>4, <1>5, <1>7, SafeRemapStep

\* The blocks of the pool do not fail.
LEMMA NewFailsSafe ==
  ASSUME NEW t \in Callers, SafeAtWork(t), NewFails(t)
  PROVE  FALSE
<1>1. Remapping(pc[t])
  BY DEF NewFails, Remapping
<1>2. pc[t].new >= PoolLba /\ pc[t].new \in Blocks
  BY <1>1, NewBlock
<1>3. pc[t].new < PoolLba
  BY DEF NewFails, MayFail, SafeAtWork
<1>4. PoolLba \in Nat /\ pc[t].new \in Nat
  BY <1>2, BmtV2Assumption DEF Blocks
<1> QED BY <1>2, <1>3, <1>4

\* What the caller at work does, step by step.
LEMMA SafeSteps ==
  ASSUME OrderlyUse, NEW t \in Callers, SafeAtWork(t), Driver(t) \/ Fault(t) \/ User(t)
  PROVE  KeptBy(pc[t])' /\ WriteReady(pc[t])'
<1>1. mode # "off" /\ AtWork(t)
  BY DEF SafeAtWork, AtWork, Attached
<1>2. ASSUME Driver(t) PROVE KeptBy(pc[t])' /\ WriteReady(pc[t])'
  <2>1. ~Attach(t)
    BY <1>1 DEF Attach, AttachLoad, AttachScan
  <2> QED BY <1>1, <1>2, <2>1, UploadFailsOrder, BmtEraseSafe, BmtWriteSafe, RemapRefusedSafe,
             FindEntrySafe, TakeEntrySafe, NewEraseSafe, CopyReadSafe, CopyWriteSafe,
             AccessSafe, IsBadSafe, ReturnsSafe
             DEF Driver
<1>3. ASSUME Fault(t) PROVE KeptBy(pc[t])' /\ WriteReady(pc[t])'
  <2>1. ~UploadRetries(t)
    BY <1>1 DEF AtWork, UploadRetries
  <2> QED BY <1>3, <2>1, NewFailsSafe, AccessFailsSafe, BitflipsSafe DEF Fault
<1>4. ASSUME User(t) PROVE KeptBy(pc[t])' /\ WriteReady(pc[t])'
  <2>1. env.files \subseteq {"mark_bad"}
    BY <1>1, AtWorkFacts, EnvOrderly DEF AtWork
  <2>2. \E lb \in UBlocks :
          \/ \E op \in {"read", "write", "erase", "isbad"} : Start(t, op, lb)
          \/ \E op \in {"markbad", "mark_bad"} : MarkBad(t, op, lb)
    BY <1>4, <2>1 DEF User
  <2> QED BY <2>2, StartSafe, MarkBadSafe
<1> QED BY <1>2, <1>3, <1>4


\* With the table on the flash every promise is kept, whatever a power loss tears.
LEMMA KeptOnFlash ==
  ASSUME NEW t \in Callers, SafeAtWork(t), \A u \in Callers : u # t => pc[u].at = "idle",
         ~Uploading(pc[t]), NEW lb \in UBlocks, Promised(lb)
  PROVE  LET m == MappingIn(flash[Home].bbt, lb)
         IN  m \in Blocks /\ flash[m] = Content(lb) /\ m \notin InFlight
<1> DEFINE p == pc[t]
           m == MappingIn(flash[Home].bbt, lb)
<1>1. /\ AtWork(t) /\ KeptBy(p) /\ WriteReady(p) /\ lb \in LBlocks
      /\ \A i, j \in UBlocks : i # j => Mapping(i) # Mapping(j)
      /\ \A i \in UBlocks : Mapping(i) \in Blocks
  BY SafeFacts
<1>2. /\ bbt \in Bbbts /\ TableThere(p) /\ OldTableThere(p)
  BY <1>1, AtWorkFacts
<1>3. CASE Remapping(p)
  <2>1. /\ p.lb \in UBlocks /\ p.new = Mapping(p.lb) /\ p.old # p.new /\ p.old \in Blocks
        /\ \A i \in UBlocks : i # p.lb => Mapping(i) # p.new
    BY <1>3, NewBlock
  <2>2. p.lb \in env.range /\ flash[Home].bbt.map = [bbt.map EXCEPT ![p.lb] = p.old]
    BY <1>2, <1>3 DEF OldTableThere
  <2>3. bbt.map \in [LBlocks -> Blocks] /\ p.lb \in LBlocks
    BY <1>2, <2>1, Sizes DEF Bbbts
  <2>4. m = IF lb = p.lb THEN p.old ELSE Mapping(lb)
    BY <1>1, <2>2, <2>3 DEF MappingIn, Mapping
  <2>5. flash[m] = Content(lb)
    BY <1>1, <1>3, <2>4 DEF KeptBy
  <2>6. m # p.new /\ m \in Blocks
    BY <1>1, <2>1, <2>4
  <2>7. m \notin InFlight
    <3>1. p.at # "access"
      BY <1>3 DEF Remapping
    <3> HIDE DEF m
    <3> QED BY <2>6, <3>1, InFlightOne
  <2> QED BY <2>5, <2>6, <2>7
<1>4. CASE ~Remapping(p)
  <2>1. flash[Home] = Table(bbt)
    BY <1>2, <1>4 DEF TableThere
  <2>2. flash[Home].bbt = bbt
    BY <1>2, <2>1, ContentKinds
  <2>3. m = Mapping(lb)
    BY <2>2 DEF MappingIn, Mapping
  <2>4. flash[m] = Content(lb) /\ m \in Blocks
    BY <1>1, <1>4, <2>3, AllKept
  <2>5. m \notin InFlight
    <3>1. ASSUME m \in InFlight PROVE FALSE
      <4> HIDE DEF m
      <4>1. p.at = "access" /\ p.op \in {"erase", "write"} /\ m = p.old
        BY <1>4, <3>1, InFlightOne
      <4>2. p.lb \in UBlocks /\ p.old = Mapping(p.lb)
        BY <1>1, <4>1, CallFacts
      <4>3. lb = p.lb
        BY <1>1, <2>3, <4>1, <4>2
      <4>4. want[p.lb].st = "none"
        BY <1>1, <4>1 DEF WriteReady
      <4> QED BY <4>3, <4>4 DEF Promised
    <3> QED BY <3>1
  <2> QED BY <2>4, <2>5
<1> QED BY <1>3, <1>4

\* A power loss: the promises stay kept.
LEMMA CrashSafe ==
  ASSUME NEW t \in Callers, SafeAtWork(t), \A u \in Callers : u # t => pc[u].at = "idle", Crash
  PROVE  /\ ~New'
         /\ \A b \in Blocks, i \in PoolIdx : StoredIn(b, i)' => Kept(flash[b].bbt)'
<1>1. AtWork(t)
  BY DEF SafeAtWork
<1>2. PICK h \in Blocks, k \in PoolIdx : h = Home /\ StoredIn(h, k) /\ StoredIn(h, k)'
  BY <1>1, CrashOrder
<1>3. flash'[h].kind = "table" /\ \A c \in Blocks : flash'[c].kind = "table" => c = h
  BY <1>2 DEF StoredIn
<1>4. ~New'
  <2>1. flash'[h] # Erased
    BY <1>3, ContentKinds
  <2> QED BY <2>1 DEF New
<1>5. PICK torn \in SUBSET InFlight :
        flash' = [c \in Blocks |-> IF c \in torn THEN Junk ELSE flash[c]]
  BY DEF Crash
<1>6. want' = want /\ env'.range = env.range /\ ~Uploading(pc[t])
  BY <1>1, AtWorkFacts, EnvSame DEF Crash, AtWork, Uploading
<1>7. flash'[h] = flash[h]
  BY <1>3, <1>5, ContentKinds
<1>8. ASSUME NEW lb \in UBlocks, Promised(lb)'
      PROVE  flash'[MappingIn(flash[h].bbt, lb)'] = Content(lb)'
  <2> DEFINE m == MappingIn(flash[h].bbt, lb)
  <2>1. Promised(lb) /\ Content(lb)' = Content(lb)
    BY <1>6, <1>8 DEF Promised, Content
  <2>2. MappingIn(flash[h].bbt, lb)' = m
    BY <1>6, <1>7 DEF MappingIn
  <2>3. m \in Blocks /\ flash[m] = Content(lb) /\ m \notin InFlight
    BY <1>2, <1>6, <2>1, KeptOnFlash
  <2> HIDE DEF m
  <2> QED BY <1>5, <2>1, <2>2, <2>3
<1>9. ASSUME NEW b \in Blocks, NEW i \in PoolIdx, StoredIn(b, i)' PROVE Kept(flash[b].bbt)'
  <2>1. b = h
    BY <1>3, <1>9 DEF StoredIn
  <2> QED BY <1>8, <2>1 DEF Kept
<1> QED BY <1>4, <1>9

\* mtk_bmt_init_v2: the promises stay kept.
LEMMA AttachSafe ==
  ASSUME TypeInv, NEW t \in Callers, Attach(t), pc[t].at = "idle",
         New \/ \E b \in Blocks, i \in PoolIdx : StoredIn(b, i),
         New => \A lb \in UBlocks : want[lb].st # "data",
         \A b \in Blocks, i \in PoolIdx : StoredIn(b, i) => Kept(flash[b].bbt)
  PROVE  KeptBy(pc[t])' /\ WriteReady(pc[t])'
<1>1. /\ flash \in [Blocks -> Contents] /\ pc \in [Callers -> Places] /\ want \in Wants
  BY DEF TypeInv, TypeOK, Wants
<1>2. want' = want => \A lb : Promised(lb)' = Promised(lb) /\ Content(lb)' = Content(lb)
  BY DEF Promised, Content
<1>3. CASE AttachLoad(t)
  <2>1. PICK ecc \in EccErrors : \E x \in LoadTable(ecc) : bbt' = x /\ idx' = BmtIndex(x.pool)
    BY <1>3 DEF AttachLoad
  <2>2. PICK x \in LoadTable(ecc) : bbt' = x
    BY <2>1
  <2>3. ~New
    BY <2>2, NewLoads
  <2>4. PICK b \in Blocks, i \in PoolIdx : StoredIn(b, i)
    BY <2>3
  <2>5. bbt' = flash[b].bbt
    BY <2>2, <2>4, StoredLoads
  <2>6. pc' = pc /\ flash' = flash /\ want' = want /\ env' = env
    BY <1>3 DEF AttachLoad
  <2>7. ASSUME NEW lb \in UBlocks, Promised(lb)' PROVE flash'[Mapping(lb)'] = Content(lb)'
    <3>1. Mapping(lb)' = MappingIn(flash[b].bbt, lb)
      BY <2>5, <2>6 DEF Mapping, MappingIn
    <3>2. Promised(lb) /\ Content(lb)' = Content(lb)
      BY <1>2, <2>6, <2>7
    <3> QED BY <2>4, <2>6, <3>1, <3>2 DEF Kept
  <2>8. ~Remapping(pc[t]) /\ ~Uploading(pc[t])
    BY DEF Remapping, Uploading
  <2>9. KeptBy(pc[t])'
    BY <2>6, <2>7, <2>8 DEF KeptBy, Remapping
  <2>10. WriteReady(pc[t])'
    BY <2>6, <2>8 DEF WriteReady, Uploading
  <2> QED BY <2>9, <2>10
<1>4. CASE AttachScan(t)
  <2>1. PICK ecc \in EccErrors :
          /\ LoadTable(ecc) = {}
          /\ \E s \in ScanBadBlocks(ReadsBad(ecc)) :
               bbt' = s.bbt /\ idx' = s.idx /\ Go(t, Upload(Rest, s.idx))
    BY <1>4 DEF AttachScan
  <2>2. New
    <3>1. ASSUME NEW b \in Blocks, NEW i \in PoolIdx, StoredIn(b, i) PROVE FALSE
      BY <2>1, <3>1, StoredLoads
    <3> QED BY <3>1
  <2>3. PICK s \in ScanBadBlocks(ReadsBad(ecc)) : bbt' = s.bbt /\ Go(t, Upload(Rest, s.idx))
    BY <2>1
  <2>4. bbt' \in Bbbts /\ s.idx \in PoolIdx
    BY <2>3, ScanTypes, ScanIdx
  <2>5. flash' = flash /\ want' = want
    BY <1>4 DEF AttachScan
  <2> DEFINE q == Upload(Rest, s.idx)
  <2>6. q \in Places /\ q.at = "bmt_erase" /\ q.op = "attach"
    BY <2>4, UploadPlace, RestPlace
  <2>7. pc'[t] = q
    BY <1>1, <2>3, <2>6, GoFacts
  <2> HIDE DEF q
  <2>8. ASSUME NEW lb \in UBlocks, Promised(lb)' PROVE flash'[Mapping(lb)'] = Content(lb)'
    <3>1. Mapping(lb)' \in Blocks
      <4>1. lb \in LBlocks /\ LBlocks \subseteq Blocks
        BY Sizes
      <4>2. bbt'.map \in [LBlocks -> Blocks]
        BY <2>4 DEF Bbbts
      <4> QED BY <4>1, <4>2 DEF Mapping
    <3>2. flash'[Mapping(lb)'] = Erased
      BY <2>2, <2>5, <3>1 DEF New
    <3>3. want'[lb].st = "erased"
      BY <1>1, <2>2, <2>5, <2>8 DEF Wants, Promised
    <3> QED BY <3>2, <3>3 DEF Content
  <2>9. ~Remapping(q)
    BY <2>6 DEF Remapping
  <2> QED BY <2>6, <2>7, <2>8, <2>9, SafeStep
<1> QED BY <1>3, <1>4 DEF Attach


\* On a new chip nothing has been written.
LEMMA InitData == ASSUME Init PROVE DataInv
<1>1. \A lb \in UBlocks : want[lb].st = "erased"
  BY DEF Init
<1>2. mode = "off" /\ \A b \in Blocks : flash[b].kind # "table"
  BY ContentKinds DEF Init
<1>3. \A b \in Blocks, i \in PoolIdx : ~StoredIn(b, i)
  BY <1>2 DEF StoredIn
<1> QED BY <1>1, <1>2, <1>3 DEF DataInv, Attached

\* Every step of orderly use keeps the promises.
LEMMA DataStep ==
  ASSUME OrderlyUse, PoolAlwaysLasts, TypeInv, OrderInv, DataInv, [Next]_vars
  PROVE  DataInv'
<1>1. env'.range = env.range /\ env'.torn = env.torn /\ env'.callers = env.callers
  BY EnvNext
<1> SUFFICES ASSUME ~env.torn
             PROVE  /\ ~Attached' /\ New' => \A lb \in UBlocks : want'[lb].st # "data"
                    /\ ~Attached' => \A b \in Blocks, i \in PoolIdx :
                                       StoredIn(b, i)' => Kept(flash[b].bbt)'
                    /\ Attached' => \A t \in env'.callers :
                                      KeptBy(pc[t])' /\ WriteReady(pc[t])'
  BY <1>1 DEF DataInv
<1>2. EnvOK(env)
  BY DEF TypeInv, TypeOK, EnvOK
<1>3. (\A t, u \in env.callers : t = u) /\ env.callers \subseteq Callers
  BY <1>2, EnvOrderly
<1>4. \A b \in env.fail : b < PoolLba
  BY <1>2, EnvFields DEF PoolAlwaysLasts, PoolLasts
<1>5. \A t \in Callers : t \notin env.callers => pc[t].at = "idle"
  BY DEF OrderInv
<1>6. CASE Attached
  <2>1. PICK t \in env.callers : Working(pc[t])
    BY <1>6 DEF OrderInv
  <2>2. KeptBy(pc[t]) /\ WriteReady(pc[t])
    BY <1>6, <2>1 DEF DataInv
  <2>3. t \in Callers /\ SafeAtWork(t) /\ \A u \in Callers : u # t => pc[u].at = "idle"
    BY <1>3, <1>4, <1>5, <1>6, <2>1, <2>2 DEF SafeAtWork, AtWork
  <2>4. \A u \in env'.callers : u = t
    BY <1>1, <1>3, <2>1
  <2>5. CASE UNCHANGED vars
    <3>1. UNCHANGED <<mode, bbt, databuf, pc, flash, want, env>>
      BY <2>5 DEF vars
    <3>2. \A lb : /\ Promised(lb)' = Promised(lb) /\ Content(lb)' = Content(lb)
                  /\ Mapping(lb)' = Mapping(lb)
      BY <3>1 DEF Promised, Content, Mapping
    <3>3. KeptBy(pc[t])' /\ WriteReady(pc[t])'
      BY <2>2, <3>1, <3>2 DEF KeptBy, WriteReady, Remapping, Uploading
    <3>4. Attached'
      BY <1>6, <3>1 DEF Attached
    <3> QED BY <2>4, <3>3, <3>4
  <2>6. CASE AttachFails
    BY <1>6, <2>6 DEF AttachFails, Attached
  <2>7. CASE Crash
    <3>1. /\ ~New'
          /\ \A b \in Blocks, i \in PoolIdx : StoredIn(b, i)' => Kept(flash[b].bbt)'
      BY <2>3, <2>7, CrashSafe
    <3>2. ~Attached'
      BY <2>7 DEF Crash, Attached
    <3> QED BY <3>1, <3>2
  <2>8. ASSUME NEW u \in Callers, Driver(u) \/ Fault(u) \/ User(u)
        PROVE  Attached' /\ KeptBy(pc[t])' /\ WriteReady(pc[t])'
    <3>1. u = t
      BY <1>3, <2>1, <2>3, <2>8, IdleSteps
    <3>2. Attached'
      <4>1. AtWork(t)
        BY <2>3 DEF SafeAtWork
      <4> QED BY <2>3, <2>8, <3>1, <4>1, WorkSteps
    <3>3. KeptBy(pc[t])' /\ WriteReady(pc[t])'
      BY <2>3, <2>8, <3>1, SafeSteps
    <3> QED BY <3>2, <3>3
  <2>9. ASSUME NEW u \in Callers, Driver(u) \/ Fault(u) \/ User(u)
        PROVE  /\ Attached'
               /\ \A w \in env'.callers : KeptBy(pc[w])' /\ WriteReady(pc[w])'
    BY <2>4, <2>8, <2>9
  <2> QED BY <2>5, <2>6, <2>7, <2>9 DEF Next
<1>7. CASE ~Attached
  <2>1. /\ New \/ \E b \in Blocks, i \in PoolIdx : StoredIn(b, i)
        /\ \A t \in Callers : pc[t].at = "idle"
    BY <1>7 DEF OrderInv
  <2>2. /\ New => \A lb \in UBlocks : want[lb].st # "data"
        /\ \A b \in Blocks, i \in PoolIdx : StoredIn(b, i) => Kept(flash[b].bbt)
    BY <1>7 DEF DataInv
  <2>3. ASSUME flash' = flash, worn' = worn, badmark' = badmark, want' = want
        PROVE  /\ New' => \A lb \in UBlocks : want'[lb].st # "data"
               /\ \A b \in Blocks, i \in PoolIdx : StoredIn(b, i)' => Kept(flash[b].bbt)'
    <3>1. New' => New
      BY <1>1, <2>3 DEF New, FitsChip, Apart
    <3>2. ASSUME NEW b \in Blocks, NEW i \in PoolIdx, StoredIn(b, i)' PROVE Kept(flash[b].bbt)'
      <4>1. StoredIn(b, i)
        BY <1>1, <2>3, <3>2 DEF StoredIn, Layout, Apart
      <4>2. Kept(flash[b].bbt)
        BY <2>2, <4>1
      <4> QED BY <1>1, <2>3, <4>2 DEF Kept, MappingIn, Promised, Content
    <3> QED BY <2>2, <2>3, <3>1, <3>2
  <2>4. CASE UNCHANGED vars
    <3>1. ~Attached' /\ flash' = flash /\ worn' = worn /\ badmark' = badmark /\ want' = want
      BY <1>7, <2>4 DEF vars, Attached
    <3> QED BY <2>3, <3>1
  <2>5. CASE AttachFails
    <3>1. ~Attached' /\ flash' = flash /\ worn' = worn /\ badmark' = badmark /\ want' = want
      BY <2>5 DEF AttachFails, Attached
    <3> QED BY <2>3, <3>1
  <2>6. CASE Crash
    <3>1. flash' = flash /\ worn' = worn /\ badmark' = badmark
      BY <2>1, <2>6, CrashAtRest
    <3>2. ~Attached' /\ want' = want
      BY <2>6 DEF Crash, Attached
    <3> QED BY <2>3, <3>1, <3>2
  <2>7. ASSUME NEW u \in Callers, Driver(u) \/ Fault(u) \/ User(u)
        PROVE  /\ Attached'
               /\ \A w \in env'.callers : KeptBy(pc[w])' /\ WriteReady(pc[w])'
    <3>1. Attach(u) /\ u \in env.callers
      BY <1>7, <2>1, <2>7, IdleSteps DEF Attached
    <3>2. KeptBy(pc[u])' /\ WriteReady(pc[u])'
      BY <2>1, <2>2, <3>1, AttachSafe
    <3>3. Attached'
      BY <3>1 DEF Attach, AttachLoad, AttachScan, Attached
    <3> QED BY <1>1, <1>3, <3>1, <3>2, <3>3
  <2> QED BY <2>4, <2>5, <2>6, <2>7 DEF Next
<1> QED BY <1>6, <1>7

\* In orderly use, on a chip whose pool lasts, what has been written into a logic
\* block is in the block get_mapping_block returns: through any number of failing
\* blocks, remaps with and without a copy, retries, bad marks and power losses
\* between updates of the table.
THEOREM DataKept ==
  ASSUME OrderlyUse, PoolAlwaysLasts
  PROVE  Spec => []DataSafe
<1>1. Init => TypeInv /\ OrderInv /\ DataInv
  BY InitTypes, InitOrder, InitData
<1>2. TypeInv /\ OrderInv /\ DataInv /\ [Next]_vars => (TypeInv /\ OrderInv /\ DataInv)'
  BY TypesStep, OrderStep, DataStep
<1>3. TypeInv /\ OrderInv /\ DataInv => DataSafe
  <2> SUFFICES ASSUME TypeInv, OrderInv, DataInv, Running, ~env.torn,
                      NEW lb \in UBlocks, want[lb].st = "data", ~Busy(lb)
               PROVE  Stored(lb)
    BY DEF DataSafe
  <2>1. Attached
    BY DEF Running, Attached
  <2>2. PICK t \in env.callers : Working(pc[t])
    BY <2>1 DEF OrderInv
  <2>3. t \in Callers
    <3>1. EnvOK(env)
      BY DEF TypeInv, TypeOK, EnvOK
    <3> QED BY <2>2, <3>1, EnvFields
  <2>4. KeptBy(pc[t])
    BY <2>1, <2>2 DEF DataInv
  <2>5. ~(Remapping(pc[t]) /\ lb = pc[t].lb)
    BY <2>3 DEF Busy, Remapping
  <2>6. flash[Mapping(lb)] = Content(lb)
    BY <2>4, <2>5 DEF KeptBy, Promised
  <2> QED BY <2>6 DEF Content, Stored
<1> QED BY <1>1, <1>2, <1>3, PTL DEF Spec

-----------------------------------------------------------------------------
(* In front of the blocks that have failed.  Here the table may fail or be *)
(* cut off, or there may be several callers, and all debugfs files.        *)

\* A setting in which what is in front of all blocks that have failed is safe.
\* While the table may fail only one caller is inside: a second one could take an
\* entry of the pool that the first one has just cleared, and with it block 0.  And
\* unmap_block_v2 maps a logic block to itself, which is where it belongs only if
\* the new chip has no bad block in front of it.
Steady(s) ==
  /\ s.torn => \A t, u \in s.callers : t = u
  /\ \A bad \in s.bad : \A r \in ScanBadBlocks(bad) :
       /\ Apart(r.bbt, s.range)
       /\ s.files \intersect {"mark_good", "repair"} # {} =>
            \A lb \in LBlocks : r.bbt.map[lb] = lb

SteadyUse == \A s \in Settings : Steady(s)

\* Where scan_bad_blocks puts a logic block on a new chip on which fac are bad, the
\* last block that it uses for one, and the block that the user gets.
First(fac, lb) == Nth(ValidBlocks(fac), lb)
Last(fac) == First(fac, PoolLba - 1)
Own(fac, range, lb) == IF lb \in range THEN First(fac, lb) ELSE lb

\* What scan_bad_blocks makes of the new chip.
Chip(fac, range, files) ==
  /\ \A lb \in LBlocks :
       /\ First(fac, lb) \in Blocks /\ First(fac, lb) \notin fac
       /\ Own(fac, range, lb) \in Blocks
       /\ First(fac, lb) <= Last(fac) /\ Own(fac, range, lb) <= Last(fac)
  /\ \A i, j \in LBlocks : Own(fac, range, i) = Own(fac, range, j) => i = j
  /\ files \intersect {"mark_good", "repair"} # {} => \A lb \in LBlocks : First(fac, lb) = lb

\* A block up to b is in w, the blocks that have failed.
Touched(w, b) == \E x \in w : x <= b

\* The block b is x, or both are behind a block that has failed.
Follows(w, x, b) == b = x \/ (Touched(w, x) /\ Touched(w, b))

\* Losing the block b does no harm in front of the blocks that have failed.
Harmless(fac, w, b) == b > Last(fac) \/ Touched(w, b)

\* A table that has moved only logic blocks behind a block that has failed, with its
\* pool behind all of them.
Sound(fac, w, t) ==
  /\ \A lb \in LBlocks : Follows(w, First(fac, lb), t.map[lb])
  /\ \A k \in PoolIdx : t.pool[k].block = 0 \/ t.pool[k].block > Last(fac)

\* The entries of the pool up to i have blocks.
UpTo(fac, t, i) ==
  i \in PoolIdx => \A k \in PoolIdx : k <= i => t.pool[k].block > Last(fac)

SoundContent(fac, w, c) == c.kind = "table" => Sound(fac, w, c.bbt)
SoundFlash(fac, w, f) ==
  \A b \in Blocks : SoundContent(fac, w, f[b]) /\ (f[b] = Junk => Harmless(fac, w, b))

\* The operations on a logic block, and those of them that are tried again.
Accesses == {"read", "write", "erase", "isbad"}
CallOps  == Accesses \union {"markbad", "mark_bad", "mark_good", "repair"}

\* The local variables of a caller who is not idle.
Right(fac, range, w, f, t, p) ==
  /\ p.op \in CallOps => p.lb \in UBlocks /\ Follows(w, Own(fac, range, p.lb), p.old)
  /\ p.op \notin CallOps => Uploading(p) \/ p.at = "return"
  /\ p.again \/ p.at = "access" => p.op \in Accesses
  /\ p.at \in {"find", "take"} /\ p.lb \in range => Touched(w, First(fac, p.lb))
  /\ p.at = "take" => p.lb \in range /\ t.pool[p.n].block > Last(fac)
  /\ Remapping(p) \/ p.at = "bmt_write" => Harmless(fac, w, p.new)
  /\ Uploading(p) => UpTo(fac, t, p.n)
  /\ p.op = "markbad" => p.old \in w
  /\ p.op = "write" /\ ~Touched(w, Own(fac, range, p.lb)) =>
       f[Own(fac, range, p.lb)] = Erased

AllIdle == \A t \in Callers : pc[t].at = "idle"

\* The bad blocks are those of the new chip and some that have failed.
Marks(fac) ==
  /\ 0 \notin fac /\ fac \subseteq badmark /\ badmark \subseteq fac \union worn
  /\ \A r \in ScanBadBlocks(fac) :
       /\ Apart(r.bbt, env.range)
       /\ env.files \intersect {"mark_good", "repair"} # {} =>
            \A lb \in LBlocks : r.bbt.map[lb] = lb

\* Every logic block has one call at a time.
CallsApart ==
  /\ mode = "off" => AllIdle
  /\ env.torn => \A t, u \in env.callers : t = u
  /\ \A t \in Callers : t \notin env.callers => pc[t].at = "idle"
  /\ \A t, u \in Callers :
       /\ pc[t].at # "idle" /\ pc[t].op \in CallOps
       /\ pc[u].at # "idle" /\ pc[u].op \in CallOps
       /\ pc[t].lb = pc[u].lb
       => t = u

\* Everything in front of the blocks that have failed is as on the new chip.
PrefixKept(fac) ==
  \A lb \in UBlocks :
    Promised(lb) /\ ~Touched(worn, Own(fac, env.range, lb)) =>
      flash[Own(fac, env.range, lb)] = Content(lb)

\* The table in memory is sound, and so is the entry its index names, unless a caller is
\* just writing the table, who then has an entry of his own.
InUse(fac) ==
  /\ Chip(fac, env.range, env.files)
  /\ Sound(fac, worn, bbt)
  /\ (env.torn => \A t \in Callers : ~Uploading(pc[t])) => UpTo(fac, bbt, idx)

\* Between a power loss and the next attach the tables are on the flash only, or there
\* is none as on the new chip.
Waiting(fac) ==
  /\ ~Attached /\ AllIdle
  /\ Chip(fac, env.range, env.files) \/ \A b \in Blocks : flash[b].kind # "table"

PrefixInv(fac) ==
  /\ Marks(fac) /\ CallsApart
  /\ SoundFlash(fac, worn, flash) /\ SoundContent(fac, worn, databuf) /\ PrefixKept(fac)
  /\ InUse(fac) \/ Waiting(fac)
  /\ \A t \in Callers :
       pc[t].at # "idle" => Right(fac, env.range, worn, flash, bbt, pc[t])

\* With more bad blocks there are fewer valid ones, all behind one of the new ones.
LEMMA ValidShrinks ==
  ASSUME NEW fac, NEW bad, fac \subseteq bad
  PROVE  /\ ValidBlocks(bad) \subseteq ValidBlocks(fac)
         /\ \A x \in ValidBlocks(fac) : x \notin ValidBlocks(bad) =>
              \E d \in bad : d \notin fac /\ d <= x
<1>0. NB \in Nat /\ BbMax \in Nat
  BY Sizes
<1>1. ValidBlocks(bad) \subseteq ValidBlocks(fac)
  BY <1>0 DEF ValidBlocks
<1>2. ASSUME NEW x \in ValidBlocks(fac), x \notin ValidBlocks(bad)
      PROVE  \E d \in bad : d \notin fac /\ d <= x
  <2>1. /\ x \in 1 .. NB - 1 /\ x \notin fac
        /\ \A c \in 1 .. x - 1 - BbMax : \E d \in c .. c + BbMax : d \notin fac
    BY <1>2 DEF ValidBlocks
  <2>2. x \in Int
    BY <1>0, <2>1
  <2>3. CASE x \in bad
    BY <2>1, <2>2, <2>3
  <2>4. CASE x \notin bad
    <3>1. PICK c \in 1 .. x - 1 - BbMax : \A d \in c .. c + BbMax : d \in bad
      BY <1>2, <2>1, <2>4 DEF ValidBlocks
    <3>2. PICK d \in c .. c + BbMax : d \notin fac
      BY <2>1, <3>1
    <3>3. d <= x
      BY <1>0, <2>2, <3>1, <3>2
    <3> QED BY <3>1, <3>2, <3>3
  <2> QED BY <2>3, <2>4
<1> QED BY <1>1, <1>2

\* What scan_bad_blocks returns, in terms of the valid blocks.
LEMMA ScanIs ==
  ASSUME NEW bad, NEW s \in ScanBadBlocks(bad)
  PROVE  /\ s.idx \in PoolIdx /\ Cardinality(ValidBlocks(bad)) = PoolLba + s.idx + 1
         /\ \A lb \in LBlocks : s.bbt.map[lb] = First(bad, lb)
         /\ \A i \in PoolIdx : s.bbt.pool[i].block = First(bad, PoolLba + i)
<1> DEFINE valid == ValidBlocks(bad)
           avail == Cardinality(valid) - PoolLba
           entry(i) == [block |-> Nth(valid, PoolLba + i),
                        mapped |-> IF i = avail - 1 THEN BMT_MAPPED ELSE NO_MAPPED]
<1>1. s.idx \in PoolIdx /\ s.idx = avail - 1
  BY ScanIdx
<1>2. avail + PoolLba = Cardinality(valid)
  BY ValidFacts, Sizes
<1>3. s = [bbt |-> [map |-> [i \in LBlocks |-> Nth(valid, i)],
                    pool |-> [i \in PoolIdx |-> entry(i)]],
           idx |-> avail - 1]
  BY DEF ScanBadBlocks
<1>4. /\ s.bbt.map = [i \in LBlocks |-> Nth(valid, i)]
      /\ s.bbt.pool = [i \in PoolIdx |-> entry(i)]
  <2> HIDE DEF entry, valid, avail
  <2> QED BY <1>3
<1>5. ASSUME NEW i \in PoolIdx PROVE s.bbt.pool[i].block = Nth(valid, PoolLba + i)
  <2>1. s.bbt.pool[i] = entry(i)
    <3> HIDE DEF entry, valid
    <3> QED BY <1>4
  <2> QED BY <2>1
<1>6. Cardinality(valid) = PoolLba + s.idx + 1
  <2>1. Cardinality(valid) \in Nat
    BY ValidFacts
  <2> HIDE DEF valid
  <2> QED BY <1>1, <2>1, Sizes
<1> QED BY <1>1, <1>4, <1>5, <1>6 DEF First

\* The scan of a chip with more bad blocks moves only logic blocks behind one of the
\* new ones, and its pool is behind all logic blocks of the new chip.
LEMMA ScanFollows ==
  ASSUME NEW fac, NEW bad \in SUBSET Nat, fac \subseteq bad, NEW s \in ScanBadBlocks(bad)
  PROVE  /\ Cardinality(ValidBlocks(fac)) > PoolLba
         /\ \A lb \in LBlocks : First(fac, lb) <= s.bbt.map[lb]
         /\ \A lb \in LBlocks : s.bbt.map[lb] # First(fac, lb) =>
                                  \E d \in bad : d \notin fac /\ d <= First(fac, lb)
         /\ \A k \in PoolIdx : k <= s.idx => s.bbt.pool[k].block > Last(fac)
         /\ \A k \in PoolIdx : ~(k <= s.idx) => s.bbt.pool[k].block = 0
<1> DEFINE V == ValidBlocks(fac)
           R == ValidBlocks(bad)
<1>a. V \in SUBSET Int /\ V \in SUBSET Nat /\ IsFiniteSet(V) /\ Cardinality(V) \in Nat
  BY ValidFacts
<1>b. R \in SUBSET Int /\ R \in SUBSET Nat /\ IsFiniteSet(R) /\ Cardinality(R) \in Nat
  BY ValidFacts
<1>c. R \in SUBSET V
  BY ValidShrinks
<1>2. /\ s.idx \in PoolIdx /\ Cardinality(R) = PoolLba + s.idx + 1
      /\ \A lb \in LBlocks : s.bbt.map[lb] = Nth(R, lb)
      /\ \A i \in PoolIdx : s.bbt.pool[i].block = Nth(R, PoolLba + i)
  BY ScanIs DEF First
<1>3. Cardinality(V) >= Cardinality(R)
  BY <1>a, <1>b, <1>c, FS_Subset
<1>4. \A x \in V : x \notin R => \E d \in bad : d \notin fac /\ d <= x
  BY ValidShrinks
<1>5. PoolLba \in Nat /\ PoolLba > 2 /\ s.idx \in Nat
  <2>1. s.idx \in PoolIdx
    BY <1>2
  <2>2. PoolIdx \subseteq Nat /\ PoolLba \in Nat /\ PoolLba > 2
    BY Sizes
  <2> QED BY <2>1, <2>2
<1> HIDE DEF V, R
<1>6. Cardinality(V) > PoolLba
  BY <1>a, <1>b, <1>c, <1>2, <1>3, <1>5
<1>7. ASSUME NEW lb \in LBlocks
      PROVE  /\ First(fac, lb) <= s.bbt.map[lb]
             /\ s.bbt.map[lb] = First(fac, lb)
                \/ \E d \in bad : d \notin fac /\ d <= First(fac, lb)
  <2>1. lb \in Nat /\ lb < Cardinality(R)
    BY <1>a, <1>b, <1>c, <1>2, <1>5 DEF LBlocks
  <2>2. /\ Nth(V, lb) <= Nth(R, lb)
        /\ Nth(V, lb) = Nth(R, lb) \/ \E x \in V : x \notin R /\ x <= Nth(V, lb)
        /\ lb < Cardinality(V)
    BY <1>a, <1>b, <1>c, <2>1, NthShrinks
  <2>3. Nth(V, lb) \in Nat
    BY <1>a, <1>b, <1>c, <2>1, <2>2, NthFound
  <2>4. ASSUME NEW x \in V, x \notin R, x <= Nth(V, lb)
        PROVE  \E d \in bad : d \notin fac /\ d <= Nth(V, lb)
    <3>1. PICK d \in bad : d \notin fac /\ d <= x
      BY <1>4, <2>4
    <3>2. d \in Nat /\ x \in Nat
      BY <1>a, <1>b, <1>c, <3>1
    <3>3. d <= Nth(V, lb)
      BY <2>3, <2>4, <3>1, <3>2
    <3> QED BY <3>1, <3>3
  <2> QED BY <1>2, <2>2, <2>4 DEF First, V
<1>8. ASSUME NEW k \in PoolIdx
      PROVE  IF k <= s.idx THEN s.bbt.pool[k].block > Last(fac) ELSE s.bbt.pool[k].block = 0
  <2>1. k \in Nat /\ PoolLba + k \in Nat /\ PoolLba - 1 \in Nat /\ PoolLba - 1 < PoolLba + k
    BY <1>5, Sizes
  <2>2. CASE k <= s.idx
    <3>1. PoolLba + k < Cardinality(R) /\ PoolLba - 1 < Cardinality(R)
      BY <1>a, <1>b, <1>c, <1>2, <1>5, <2>1, <2>2
    <3>2. Nth(R, PoolLba - 1) < Nth(R, PoolLba + k)
      BY <1>a, <1>b, <1>c, <2>1, <3>1, NthIncreasing
    <3>3. Nth(V, PoolLba - 1) <= Nth(R, PoolLba - 1) /\ PoolLba - 1 < Cardinality(V)
      BY <1>a, <1>b, <1>c, <2>1, <3>1, NthShrinks
    <3>4. /\ Nth(R, PoolLba - 1) \in Nat /\ Nth(R, PoolLba + k) \in Nat
          /\ Nth(V, PoolLba - 1) \in Nat
      BY <1>a, <1>b, <1>c, <2>1, <3>1, <3>3, NthFound
    <3>5. Nth(R, PoolLba + k) > Nth(V, PoolLba - 1)
      BY <3>2, <3>3, <3>4
    <3> QED BY <1>2, <2>2, <3>5 DEF First, Last, V
  <2>3. CASE ~(k <= s.idx)
    <3>1. ~(PoolLba + k < Cardinality(R))
      BY <1>a, <1>b, <1>c, <1>2, <1>5, <2>1, <2>3
    <3>2. Nth(R, PoolLba + k) = 0
      BY <3>1 DEF Nth
    <3> QED BY <1>2, <2>3, <3>2
  <2> QED BY <2>2, <2>3
<1> QED BY <1>6, <1>7, <1>8 DEF V

\* What scan_bad_blocks makes of a chip on which more blocks are bad says what it made
\* of the new one.
LEMMA ScanChip ==
  ASSUME NEW fac \in SUBSET Nat, NEW bad \in SUBSET Nat, fac \subseteq bad, 0 \notin fac,
         NEW s \in ScanBadBlocks(bad), NEW range \in SUBSET LBlocks, NEW files,
         \A r \in ScanBadBlocks(fac) :
           /\ Apart(r.bbt, range)
           /\ files \intersect {"mark_good", "repair"} # {} =>
                \A lb \in LBlocks : r.bbt.map[lb] = lb
  PROVE  Chip(fac, range, files)
<1> DEFINE V == ValidBlocks(fac)
<1>1. V \in SUBSET Int /\ V \in SUBSET Nat /\ V \in SUBSET Blocks
  BY ValidFacts
<1>2. IsFiniteSet(V) /\ Cardinality(V) \in Nat
  BY ValidFacts
<1>3. /\ Cardinality(V) > PoolLba
      /\ \A lb \in LBlocks : First(fac, lb) <= s.bbt.map[lb]
  BY ScanFollows
<1>4. PoolLba \in Nat /\ PoolLba > 2 /\ NB \in Nat /\ PoolLba - 1 \in LBlocks
  BY Sizes DEF LBlocks
<1>5. ASSUME NEW x \in V PROVE x \notin fac
  BY <1>5 DEF ValidBlocks
<1> HIDE DEF V
<1>6. ASSUME NEW lb \in LBlocks
      PROVE  /\ lb \in Nat /\ lb < Cardinality(V) /\ First(fac, lb) \in V
             /\ First(fac, lb) \in Nat /\ First(fac, lb) >= lb
             /\ First(fac, lb) <= Last(fac)
  <2>1. lb \in Nat /\ lb < Cardinality(V) /\ lb <= PoolLba - 1
    BY <1>2, <1>3, <1>4 DEF LBlocks
  <2>2. Nth(V, lb) \in V
    BY <1>1, <1>2, <2>1, NthFound
  <2>3. Nth(V, lb) >= lb
    BY <1>1, <1>2, <2>1, NthAbove
  <2>4. Nth(V, lb) <= Nth(V, PoolLba - 1)
    <3>1. CASE lb = PoolLba - 1
      <4>1. Nth(V, lb) \in Nat
        BY <1>1, <2>2
      <4> QED BY <3>1, <4>1
    <3>2. CASE lb # PoolLba - 1
      <4>1. lb < PoolLba - 1 /\ PoolLba - 1 \in Nat /\ PoolLba - 1 < Cardinality(V)
        BY <1>2, <1>3, <1>4, <2>1, <3>2
      <4>2. Nth(V, lb) < Nth(V, PoolLba - 1)
        BY <1>1, <1>2, <2>1, <4>1, NthIncreasing
      <4>3. Nth(V, lb) \in Int /\ Nth(V, PoolLba - 1) \in Int
        BY <1>1, <1>2, <2>2, <4>1, NthFound
      <4> QED BY <4>2, <4>3
    <3> QED BY <3>1, <3>2
  <2>5. First(fac, lb) = Nth(V, lb) /\ Last(fac) = Nth(V, PoolLba - 1)
    BY DEF First, Last, V
  <2> QED BY <1>1, <2>1, <2>2, <2>3, <2>4, <2>5
<1>7. ASSUME NEW i \in LBlocks, NEW j \in LBlocks, First(fac, i) = First(fac, j) PROVE i = j
  <2>1. Nth(V, i) = Nth(V, j)
    BY <1>7 DEF First, V
  <2>2. Below(V, Nth(V, i)) = i /\ Below(V, Nth(V, j)) = j
    BY <1>1, <1>2, <1>6, NthFound
  <2> QED BY <2>1, <2>2
<1>8. PICK r \in ScanBadBlocks(fac) : TRUE
  <2>1. ~(Cardinality(V) - PoolLba < 1)
    BY <1>2, <1>3, <1>4
  <2>2. ~(Nth(V, PoolLba - 1) + 1 >= NB - 2)
    <3>1. First(fac, PoolLba - 1) <= s.bbt.map[PoolLba - 1] /\ First(fac, PoolLba - 1) \in Nat
      BY <1>3, <1>4, <1>6
    <3>2. s.bbt.map[PoolLba - 1] = Nth(ValidBlocks(bad), PoolLba - 1)
      BY <1>4, ScanIs DEF First
    <3>3. ~(Nth(ValidBlocks(bad), PoolLba - 1) + 1 >= NB - 2)
      BY DEF ScanBadBlocks
    <3>4. s.bbt.map[PoolLba - 1] \in Nat
      <4>1. PoolLba - 1 \in Nat
        BY <1>4
      <4>2. Nth(ValidBlocks(bad), PoolLba - 1) \in Blocks
        BY <4>1, NthBlock
      <4>3. Blocks \subseteq Nat
        BY Sizes
      <4> QED BY <3>2, <4>2, <4>3
    <3>5. First(fac, PoolLba - 1) = Nth(V, PoolLba - 1)
      BY DEF First, V
    <3> QED BY <1>4, <3>1, <3>2, <3>3, <3>4, <3>5
  <2>3. ScanBadBlocks(fac) # {}
    BY <2>1, <2>2 DEF ScanBadBlocks, V
  <2> QED BY <2>3
<1>9. \A lb \in LBlocks : r.bbt.map[lb] = First(fac, lb)
  BY <1>8, ScanIs
<1>10. /\ \A i \in range, j \in LBlocks \ range : First(fac, i) # j
       /\ files \intersect {"mark_good", "repair"} # {} =>
            \A lb \in LBlocks : First(fac, lb) = lb
  BY <1>8, <1>9 DEF Apart
<1>11. LBlocks \subseteq Blocks /\ Blocks \subseteq Nat
  BY Sizes
<1>12. ASSUME NEW lb \in LBlocks
       PROVE  /\ First(fac, lb) \in Blocks /\ First(fac, lb) \notin fac
              /\ Own(fac, range, lb) \in Blocks
              /\ First(fac, lb) <= Last(fac) /\ Own(fac, range, lb) <= Last(fac)
  <2>1. First(fac, lb) \in Blocks /\ First(fac, lb) \notin fac /\ First(fac, lb) <= Last(fac)
    BY <1>1, <1>5, <1>6
  <2>2. lb \in Blocks
    BY <1>11
  <2>3. lb <= Last(fac)
    <3>1. Last(fac) \in Nat
      BY <1>4, <1>6 DEF Last
    <3> QED BY <1>6, <3>1
  <2> QED BY <2>1, <2>2, <2>3 DEF Own
<1>13. ASSUME NEW i \in LBlocks, NEW j \in LBlocks, Own(fac, range, i) = Own(fac, range, j)
       PROVE  i = j
  <2>1. CASE i \in range /\ j \in range
    BY <1>7, <1>13, <2>1 DEF Own
  <2>2. CASE i \in range /\ j \notin range
    BY <1>10, <1>13, <2>2 DEF Own
  <2>3. CASE i \notin range /\ j \in range
    BY <1>10, <1>13, <2>3 DEF Own
  <2>4. CASE i \notin range /\ j \notin range
    BY <1>13, <2>4 DEF Own
  <2> QED BY <2>1, <2>2, <2>3, <2>4
<1> QED BY <1>10, <1>12, <1>13 DEF Chip

\* With more blocks that have failed, all that was sound is.
LEMMA Wider ==
  ASSUME NEW fac, NEW w, NEW v, w \subseteq v
  PROVE  /\ \A b : Touched(w, b) => Touched(v, b)
         /\ \A x, b : Follows(w, x, b) => Follows(v, x, b)
         /\ \A b : Harmless(fac, w, b) => Harmless(fac, v, b)
         /\ \A t : Sound(fac, w, t) => Sound(fac, v, t)
         /\ \A c : SoundContent(fac, w, c) => SoundContent(fac, v, c)
<1>1. \A b : Touched(w, b) => Touched(v, b)
  BY DEF Touched
<1>2. \A x, b : Follows(w, x, b) => Follows(v, x, b)
  BY <1>1 DEF Follows
<1>3. \A b : Harmless(fac, w, b) => Harmless(fac, v, b)
  BY <1>1 DEF Harmless
<1>4. \A t : Sound(fac, w, t) => Sound(fac, v, t)
  BY <1>2 DEF Sound
<1>5. \A c : SoundContent(fac, w, c) => SoundContent(fac, v, c)
  BY <1>4 DEF SoundContent
<1> QED BY <1>1, <1>2, <1>3, <1>4, <1>5

\* A block of a logic block on the new chip can be lost without harm only behind a block
\* that has failed.
LEMMA OwnHarmless ==
  ASSUME NEW fac, NEW range, NEW files, Chip(fac, range, files), NEW w
  PROVE  /\ Last(fac) \in Nat
         /\ \A lb \in LBlocks : /\ Own(fac, range, lb) \in Blocks
                                /\ First(fac, lb) \in Nat /\ Own(fac, range, lb) \in Nat
                                /\ First(fac, lb) <= Last(fac)
                                /\ Own(fac, range, lb) <= Last(fac)
         /\ \A lb \in LBlocks : Harmless(fac, w, Own(fac, range, lb)) =>
                                  Touched(w, Own(fac, range, lb))
<1>1. Blocks \subseteq Nat /\ PoolLba - 1 \in LBlocks
  BY Sizes DEF LBlocks
<1>2. \A lb \in LBlocks : /\ First(fac, lb) \in Blocks /\ Own(fac, range, lb) \in Blocks
                          /\ First(fac, lb) <= Last(fac) /\ Own(fac, range, lb) <= Last(fac)
  BY DEF Chip
<1>3. Last(fac) \in Nat
  BY <1>1, <1>2 DEF Last
<1>4. \A lb \in LBlocks : First(fac, lb) \in Nat /\ Own(fac, range, lb) \in Nat
  BY <1>1, <1>2
<1>5. ASSUME NEW lb \in LBlocks, Harmless(fac, w, Own(fac, range, lb))
      PROVE  Touched(w, Own(fac, range, lb))
  <2> DEFINE o == Own(fac, range, lb)
  <2>1. o <= Last(fac) /\ o \in Nat
    BY <1>2, <1>4
  <2> HIDE DEF o
  <2>2. ~(o > Last(fac))
    BY <1>3, <2>1
  <2> QED BY <1>5, <2>2 DEF Harmless, o
<1> QED BY <1>2, <1>3, <1>4, <1>5

\* What is right of a caller stays so when more blocks fail, the pool keeps its blocks and
\* the block he writes is left alone.
LEMMA RightStays ==
  ASSUME NEW fac, NEW range, NEW w, NEW v, w \subseteq v, NEW f, NEW g, NEW t, NEW s, NEW p,
         Right(fac, range, w, f, t, p),
         p.at = "take" => p.n \in PoolIdx,
         \A k \in PoolIdx : s.pool[k].block = t.pool[k].block,
         p.op = "write" /\ ~Touched(v, Own(fac, range, p.lb)) =>
           g[Own(fac, range, p.lb)] = f[Own(fac, range, p.lb)]
  PROVE  Right(fac, range, v, g, s, p)
<1>1. /\ \A b : Touched(w, b) => Touched(v, b)
      /\ \A x, b : Follows(w, x, b) => Follows(v, x, b)
      /\ \A b : Harmless(fac, w, b) => Harmless(fac, v, b)
  BY Wider
<1>2. UpTo(fac, t, p.n) => UpTo(fac, s, p.n)
  BY DEF UpTo
<1>3. /\ p.op \in CallOps => p.lb \in UBlocks /\ Follows(v, Own(fac, range, p.lb), p.old)
      /\ p.op \notin CallOps => Uploading(p) \/ p.at = "return"
      /\ p.again \/ p.at = "access" => p.op \in Accesses
      /\ p.at \in {"find", "take"} /\ p.lb \in range => Touched(v, First(fac, p.lb))
      /\ p.at = "take" => p.lb \in range /\ t.pool[p.n].block > Last(fac)
      /\ Remapping(p) \/ p.at = "bmt_write" => Harmless(fac, v, p.new)
      /\ Uploading(p) => UpTo(fac, t, p.n)
      /\ p.op = "markbad" => p.old \in v
      /\ p.op = "write" /\ ~Touched(w, Own(fac, range, p.lb)) =>
           f[Own(fac, range, p.lb)] = Erased
  BY <1>1 DEF Right
<1>4. p.at = "take" => s.pool[p.n].block > Last(fac)
  BY <1>3
<1>5. p.op = "write" /\ ~Touched(v, Own(fac, range, p.lb)) =>
        g[Own(fac, range, p.lb)] = Erased
  BY <1>1, <1>3
<1> QED BY <1>2, <1>3, <1>4, <1>5 DEF Right

\* The facts about a caller who is in a call.
LEMMA InCall ==
  ASSUME NEW fac, PrefixInv(fac), NEW t \in Callers, pc[t].at # "idle"
  PROVE  /\ InUse(fac) /\ t \in env.callers /\ mode # "off"
         /\ Right(fac, env.range, worn, flash, bbt, pc[t])
         /\ env.torn => \A u \in Callers : u # t => pc[u].at = "idle"
         /\ \A u \in Callers : u # t /\ pc[u].at # "idle" /\ pc[u].op \in CallOps /\
                               pc[t].op \in CallOps => pc[u].lb # pc[t].lb
<1>1. InUse(fac)
  BY DEF PrefixInv, Waiting, AllIdle
<1>2. CallsApart
  BY DEF PrefixInv
<1>3. t \in env.callers /\ mode # "off"
  BY <1>2 DEF CallsApart, AllIdle
<1>4. Right(fac, env.range, worn, flash, bbt, pc[t])
  BY DEF PrefixInv
<1>5. ASSUME env.torn, NEW u \in Callers, u # t PROVE pc[u].at = "idle"
  BY <1>2, <1>3, <1>5 DEF CallsApart
<1>6. ASSUME NEW u \in Callers, u # t, pc[u].at # "idle", pc[u].op \in CallOps,
             pc[t].op \in CallOps
      PROVE  pc[u].lb # pc[t].lb
  BY <1>2, <1>6 DEF CallsApart
<1> QED BY <1>1, <1>3, <1>4, <1>5, <1>6

\* A step of one caller.
LEMMA PrefixStep ==
  ASSUME TypeInv, [Next]_vars, NEW fac, PrefixInv(fac), InUse(fac),
         NEW t \in Callers, t \in env.callers, mode' # "off", NEW q \in Places, Go(t, q),
         worn \subseteq worn', badmark \subseteq badmark', badmark' \subseteq badmark \union worn',
         SoundFlash(fac, worn', flash'), SoundContent(fac, worn', databuf'), PrefixKept(fac)',
         Sound(fac, worn', bbt'),
         env.torn \/ \A k \in PoolIdx : bbt'.pool[k].block = bbt.pool[k].block,
         (env.torn => ~Uploading(q)) => UpTo(fac, bbt', idx'),
         q.at # "idle" => Right(fac, env.range, worn', flash', bbt', q),
         \A u \in Callers : u # t /\ pc[u].at # "idle" /\ pc[u].op \in CallOps =>
           /\ q.at # "idle" /\ q.op \in CallOps => pc[u].lb # q.lb
           /\ pc[u].op = "write" /\ ~Touched(worn', Own(fac, env.range, pc[u].lb)) =>
                flash'[Own(fac, env.range, pc[u].lb)] = flash[Own(fac, env.range, pc[u].lb)]
  PROVE  PrefixInv(fac)'
<1>1. /\ env'.range = env.range /\ env'.torn = env.torn /\ env'.callers = env.callers
      /\ env'.files = env.files
  BY EnvNext
<1>2. pc \in [Callers -> Places] /\ Placed
  BY DEF TypeInv, TypeOK
<1>3. pc'[t] = q /\ \A u \in Callers : u # t => pc'[u] = pc[u]
  BY <1>2, GoFacts
<1>4. CallsApart
  BY DEF PrefixInv
<1>5. Marks(fac)'
  <2>1. Marks(fac)
    BY DEF PrefixInv
  <2>2. \A r \in ScanBadBlocks(fac) :
           /\ Apart(r.bbt, env'.range)
           /\ env'.files \intersect {"mark_good", "repair"} # {} =>
                \A lb \in LBlocks : r.bbt.map[lb] = lb
    BY <1>1, <2>1 DEF Marks
  <2>3. 0 \notin fac /\ fac \subseteq badmark' /\ badmark' \subseteq fac \union worn'
    BY <2>1 DEF Marks
  <2> QED BY <2>2, <2>3 DEF Marks
<1>6. CallsApart'
  <2>1. env'.torn => \A x, y \in env'.callers : x = y
    BY <1>1, <1>4 DEF CallsApart
  <2>2. \A u \in Callers : u \notin env'.callers => pc'[u].at = "idle"
    BY <1>1, <1>3, <1>4 DEF CallsApart
  <2>3. ASSUME NEW x \in Callers, NEW y \in Callers,
               pc'[x].at # "idle", pc'[x].op \in CallOps,
               pc'[y].at # "idle", pc'[y].op \in CallOps, pc'[x].lb = pc'[y].lb
        PROVE  x = y
    <3>1. CASE x = t \/ y = t
      BY <1>3, <2>3, <3>1
    <3>2. CASE x # t /\ y # t
      BY <1>3, <1>4, <2>3, <3>2 DEF CallsApart
    <3> QED BY <3>1, <3>2
  <2> QED BY <2>1, <2>2, <2>3 DEF CallsApart
<1>7. InUse(fac)'
  <2>1. Chip(fac, env'.range, env'.files)
    BY <1>1 DEF InUse
  <2>2. (env'.torn => \A u \in Callers : ~Uploading(pc'[u])) => UpTo(fac, bbt', idx')
    BY <1>1, <1>3
  <2> QED BY <2>1, <2>2 DEF InUse, Uploading
<1>8. ASSUME NEW u \in Callers, pc'[u].at # "idle"
      PROVE  Right(fac, env'.range, worn', flash', bbt', pc'[u])
  <2>1. CASE u = t
    BY <1>1, <1>3, <1>8, <2>1
  <2>2. CASE u # t
    <3>1. pc'[u] = pc[u] /\ pc[u].at # "idle"
      BY <1>3, <1>8, <2>2
    <3>2. /\ u \in env.callers /\ Right(fac, env.range, worn, flash, bbt, pc[u])
      BY <3>1, InCall
    <3>3. ~env.torn
      BY <1>4, <2>2, <3>2 DEF CallsApart
    <3>4. pc[u].at = "take" => pc[u].n \in PoolIdx
      BY <1>2 DEF Placed
    <3>5. pc[u].op = "write" /\ ~Touched(worn', Own(fac, env.range, pc[u].lb)) =>
            flash'[Own(fac, env.range, pc[u].lb)] = flash[Own(fac, env.range, pc[u].lb)]
      BY <2>2, <3>1 DEF CallOps, Accesses
    <3>6. \A k \in PoolIdx : bbt'.pool[k].block = bbt.pool[k].block
      BY <3>3
    <3>7. Right(fac, env.range, worn', flash', bbt', pc[u])
      BY <3>2, <3>4, <3>5, <3>6, RightStays
    <3> QED BY <1>1, <3>1, <3>7
  <2> QED BY <2>1, <2>2
<1> QED BY <1>5, <1>6, <1>7, <1>8 DEF PrefixInv

\* A step of one caller that changes harmless blocks only, and promises nothing new.
LEMMA HarmlessStep ==
  ASSUME TypeInv, [Next]_vars, NEW fac, PrefixInv(fac), InUse(fac),
         NEW t \in Callers, t \in env.callers, mode' # "off", NEW q \in Places, Go(t, q),
         worn \subseteq worn', badmark \subseteq badmark', badmark' \subseteq badmark \union worn',
         \A b \in Blocks : flash'[b] = flash[b] \/
                           (Harmless(fac, worn', b) /\ SoundContent(fac, worn', flash'[b])),
         \A lb \in UBlocks : want'[lb] = want[lb] \/ want'[lb].st = "none",
         SoundContent(fac, worn', databuf'),
         Sound(fac, worn', bbt'),
         env.torn \/ \A k \in PoolIdx : bbt'.pool[k].block = bbt.pool[k].block,
         (env.torn => ~Uploading(q)) => UpTo(fac, bbt', idx'),
         q.at # "idle" => Right(fac, env.range, worn', flash', bbt', q),
         q.at # "idle" /\ q.op \in CallOps =>
           \A u \in Callers : u # t /\ pc[u].at # "idle" /\ pc[u].op \in CallOps =>
             pc[u].lb # q.lb
  PROVE  PrefixInv(fac)'
<1>1. env'.range = env.range
  BY EnvNext
<1>2. Chip(fac, env.range, env.files)
  BY DEF InUse
<1>3. SoundFlash(fac, worn, flash) /\ PrefixKept(fac)
  BY DEF PrefixInv
<1>4. UBlocks \subseteq LBlocks
  BY Sizes
<1>5. SoundFlash(fac, worn', flash')
  <2>1. ASSUME NEW b \in Blocks
        PROVE  SoundContent(fac, worn', flash'[b]) /\ (flash'[b] = Junk => Harmless(fac, worn', b))
    <3>1. CASE flash'[b] = flash[b]
      <4>1. SoundContent(fac, worn, flash[b]) /\ (flash[b] = Junk => Harmless(fac, worn, b))
        BY <1>3 DEF SoundFlash
      <4> QED BY <3>1, <4>1, Wider
    <3> QED BY <3>1
  <2> QED BY <2>1 DEF SoundFlash
<1>6. ASSUME NEW lb \in UBlocks, ~Touched(worn', Own(fac, env.range, lb))
      PROVE  flash'[Own(fac, env.range, lb)] = flash[Own(fac, env.range, lb)]
  <2>1. Own(fac, env.range, lb) \in Blocks /\ ~Harmless(fac, worn', Own(fac, env.range, lb))
    BY <1>2, <1>4, <1>6, OwnHarmless
  <2> QED BY <2>1
<1>7. PrefixKept(fac)'
  <2>1. ASSUME NEW lb \in UBlocks, Promised(lb)', ~Touched(worn', Own(fac, env'.range, lb))
        PROVE  flash'[Own(fac, env'.range, lb)] = Content(lb)'
    <3>1. want'[lb] = want[lb]
      BY <2>1 DEF Promised
    <3>2. Promised(lb) /\ Content(lb)' = Content(lb)
      BY <2>1, <3>1 DEF Promised, Content
    <3>3. ~Touched(worn, Own(fac, env.range, lb))
      BY <1>1, <2>1, Wider
    <3> QED BY <1>1, <1>3, <1>6, <2>1, <3>2, <3>3 DEF PrefixKept
  <2> QED BY <2>1 DEF PrefixKept, Touched
<1>8. ASSUME NEW u \in Callers, u # t, pc[u].at # "idle", pc[u].op \in CallOps
      PROVE  /\ q.at # "idle" /\ q.op \in CallOps => pc[u].lb # q.lb
             /\ pc[u].op = "write" /\ ~Touched(worn', Own(fac, env.range, pc[u].lb)) =>
                  flash'[Own(fac, env.range, pc[u].lb)] = flash[Own(fac, env.range, pc[u].lb)]
  <2>1. pc[u].lb \in UBlocks
    <3>1. Right(fac, env.range, worn, flash, bbt, pc[u])
      BY <1>8, InCall
    <3> QED BY <1>8, <3>1 DEF Right
  <2> QED BY <1>6, <1>8, <2>1
<1> QED BY <1>5, <1>7, <1>8, PrefixStep

\* The entry that the index names has a block, for a caller who is not writing the table.
LEMMA IndexUpTo ==
  ASSUME NEW fac, PrefixInv(fac), NEW t \in Callers, pc[t].at # "idle", ~Uploading(pc[t])
  PROVE  UpTo(fac, bbt, idx)
<1>1. InUse(fac) /\ (env.torn => \A u \in Callers : u # t => pc[u].at = "idle")
  BY InCall
<1>2. env.torn => \A u \in Callers : ~Uploading(pc[u])
  BY <1>1 DEF Uploading
<1> QED BY <1>1, <1>2 DEF InUse

\* What is right of a caller at p is right of him at q, further on in the call.
LEMMA RightMoves ==
  ASSUME NEW fac, NEW range, NEW w, NEW v, w \subseteq v, NEW f, NEW g, NEW t, NEW s,
         NEW p, NEW q, Right(fac, range, w, f, t, p),
         q.op = p.op, q.lb = p.lb, q.old = p.old,
         p.op \notin CallOps => Uploading(q) \/ q.at = "return",
         q.again \/ q.at = "access" => p.op \in Accesses,
         q.at \in {"find", "take"} /\ q.lb \in range => Touched(v, First(fac, q.lb)),
         q.at = "take" => q.lb \in range /\ s.pool[q.n].block > Last(fac),
         Remapping(q) \/ q.at = "bmt_write" => Harmless(fac, v, q.new),
         Uploading(q) => UpTo(fac, s, q.n),
         p.op = "write" /\ ~Touched(v, Own(fac, range, p.lb)) =>
           g[Own(fac, range, p.lb)] = f[Own(fac, range, p.lb)]
  PROVE  Right(fac, range, v, g, s, q)
<1>1. /\ \A b : Touched(w, b) => Touched(v, b)
      /\ \A x, b : Follows(w, x, b) => Follows(v, x, b)
  BY Wider
<1>2. /\ p.op \in CallOps => p.lb \in UBlocks /\ Follows(v, Own(fac, range, p.lb), p.old)
      /\ p.op = "markbad" => p.old \in v
      /\ p.op = "write" /\ ~Touched(w, Own(fac, range, p.lb)) =>
           f[Own(fac, range, p.lb)] = Erased
  BY <1>1 DEF Right
<1>3. p.op = "write" /\ ~Touched(v, Own(fac, range, p.lb)) =>
        g[Own(fac, range, p.lb)] = Erased
  BY <1>1, <1>2
<1> QED BY <1>2, <1>3 DEF Right

\* A step within a call that changes harmless blocks only.
LEMMA CallStep ==
  ASSUME TypeInv, [Next]_vars, NEW fac, PrefixInv(fac), NEW t \in Callers, pc[t].at # "idle",
         mode' = mode, badmark' = badmark, worn \subseteq worn',
         \A b \in Blocks : flash'[b] = flash[b] \/
                           (Harmless(fac, worn', b) /\ SoundContent(fac, worn', flash'[b])),
         \A lb \in UBlocks : want'[lb] = want[lb] \/ want'[lb].st = "none",
         SoundContent(fac, worn', databuf'),
         Sound(fac, worn', bbt'),
         env.torn \/ \A k \in PoolIdx : bbt'.pool[k].block = bbt.pool[k].block,
         NEW q \in Places, Go(t, q),
         (env.torn => ~Uploading(q)) => UpTo(fac, bbt', idx'),
         q.at # "idle" =>
           /\ q.op = pc[t].op /\ q.lb = pc[t].lb /\ q.old = pc[t].old
           /\ pc[t].op \notin CallOps => Uploading(q) \/ q.at = "return"
           /\ q.again \/ q.at = "access" => pc[t].op \in Accesses
           /\ q.at \in {"find", "take"} /\ q.lb \in env.range => Touched(worn', First(fac, q.lb))
           /\ q.at = "take" => q.lb \in env.range /\ bbt'.pool[q.n].block > Last(fac)
           /\ Remapping(q) \/ q.at = "bmt_write" => Harmless(fac, worn', q.new)
           /\ Uploading(q) => UpTo(fac, bbt', q.n)
  PROVE  PrefixInv(fac)'
<1> DEFINE p == pc[t]
           o == Own(fac, env.range, p.lb)
<1>1. /\ InUse(fac) /\ t \in env.callers /\ mode # "off"
      /\ Right(fac, env.range, worn, flash, bbt, p)
      /\ \A u \in Callers : u # t /\ pc[u].at # "idle" /\ pc[u].op \in CallOps /\
                            p.op \in CallOps => pc[u].lb # p.lb
  BY InCall
<1>2. p.op = "write" /\ ~Touched(worn', o) => flash'[o] = flash[o]
  <2>1. SUFFICES ASSUME p.op = "write", ~Touched(worn', o) PROVE flash'[o] = flash[o]
    OBVIOUS
  <2>2. p.lb \in LBlocks
    <3>1. p.lb \in UBlocks
      BY <1>1, <2>1 DEF Right, CallOps, Accesses
    <3>2. UBlocks \subseteq LBlocks
      BY Sizes
    <3> QED BY <3>1, <3>2
  <2>3. o \in Blocks /\ ~Harmless(fac, worn', o)
    BY <1>1, <2>1, <2>2, OwnHarmless DEF InUse
  <2> HIDE DEF o
  <2> QED BY <2>3
<1> HIDE DEF p, o
<1>3. ASSUME q.at # "idle" PROVE Right(fac, env.range, worn', flash', bbt', q)
  BY <1>1, <1>2, <1>3, RightMoves DEF p, o
<1>4. q.at # "idle" /\ q.op \in CallOps =>
        \A u \in Callers : u # t /\ pc[u].at # "idle" /\ pc[u].op \in CallOps => pc[u].lb # q.lb
  BY <1>1 DEF p
<1> QED BY <1>1, <1>3, <1>4, HarmlessStep

\* upload_bmt runs out of blocks.
LEMMA UploadFailsPrefix ==
  ASSUME TypeInv, [Next]_vars, NEW fac, PrefixInv(fac), NEW t \in Callers, UploadFails(t)
  PROVE  PrefixInv(fac)'
<1> DEFINE p == pc[t]
           q == [p EXCEPT !.at = "return"]
<1>1. p \in Places /\ p.at = "bmt_erase" /\ Go(t, q) /\ idx' = NoIdx
  BY DEF TypeInv, TypeOK, UploadFails
<1>2. UNCHANGED <<mode, bbt, databuf, flash, badmark, worn, want, env>>
  BY DEF UploadFails
<1>3. /\ q \in Places /\ q.at = "return" /\ q.op = p.op /\ q.lb = p.lb /\ q.old = p.old
      /\ q.again = p.again
  BY <1>1, PlaceAt DEF Sites
<1>4. /\ InUse(fac) /\ Right(fac, env.range, worn, flash, bbt, p)
  BY <1>1, InCall
<1>5. UpTo(fac, bbt', idx')
  BY <1>1, Sizes DEF UpTo
<1>6. SoundContent(fac, worn', databuf') /\ Sound(fac, worn', bbt')
  BY <1>2, <1>4 DEF PrefixInv, InUse
<1>7. p.again => p.op \in Accesses
  BY <1>4 DEF Right
<1> HIDE DEF q
<1> QED BY <1>1, <1>2, <1>3, <1>5, <1>6, <1>7, CallStep DEF Uploading, Remapping

\* upload_bmt erases the block of the table.
LEMMA BmtErasePrefix ==
  ASSUME TypeInv, [Next]_vars, NEW fac, PrefixInv(fac), NEW t \in Callers, BmtErase(t)
  PROVE  PrefixInv(fac)'
<1> DEFINE p == pc[t]
           b == bbt.pool[p.n].block
           q == [p EXCEPT !.at = "bmt_write", !.new = b]
<1>1. p \in Places /\ p.at = "bmt_erase" /\ Go(t, q) /\ p.n \in PoolIdx
  BY DEF TypeInv, TypeOK, BmtErase, NoSpace
<1>2. UNCHANGED <<mode, bbt, idx, databuf, badmark, worn, want, env>>
  BY DEF BmtErase
<1>3. flash \in [Blocks -> Contents] /\ bbt \in Bbbts /\ flash' = [flash EXCEPT ![b] = Erased]
  BY DEF TypeInv, TypeOK, BmtErase
<1>4. b \in Blocks
  BY <1>1, <1>3, PoolType
<1> HIDE DEF b
<1>5. /\ q \in Places /\ q.at = "bmt_write" /\ q.op = p.op /\ q.lb = p.lb /\ q.old = p.old
      /\ q.again = p.again /\ q.new = b /\ q.n = p.n
  BY <1>1, <1>4 DEF Places, Sites
<1> HIDE DEF q
<1>6. InUse(fac) /\ Right(fac, env.range, worn, flash, bbt, p)
  BY <1>1, InCall
<1>7. UpTo(fac, bbt, p.n) /\ (p.again => p.op \in Accesses)
  BY <1>1, <1>6 DEF Right, Uploading
<1>8. b > Last(fac)
  <2>1. \A i \in PoolIdx : i <= i
    BY Sizes DEF PoolIdx
  <2> QED BY <1>1, <1>7, <2>1 DEF UpTo, b
<1>9. Harmless(fac, worn', b)
  BY <1>8 DEF Harmless
<1>10. \A c \in Blocks : flash'[c] = flash[c] \/
                         (Harmless(fac, worn', c) /\ SoundContent(fac, worn', flash'[c]))
  BY <1>3, <1>4, <1>9, ContentKinds DEF SoundContent
<1>11. SoundContent(fac, worn', databuf') /\ Sound(fac, worn', bbt')
  BY <1>2, <1>6 DEF PrefixInv, InUse
<1>12. (env.torn => ~Uploading(q)) => UpTo(fac, bbt', idx')
  BY <1>2, <1>5, <1>6 DEF InUse, Uploading
<1>13. Uploading(q) /\ UpTo(fac, bbt', q.n)
  BY <1>2, <1>5, <1>7 DEF Uploading
<1> QED BY <1>1, <1>2, <1>5, <1>7, <1>9, <1>10, <1>11, <1>12, <1>13, CallStep

\* upload_bmt writes the table.
LEMMA BmtWritePrefix ==
  ASSUME TypeInv, [Next]_vars, NEW fac, PrefixInv(fac), NEW t \in Callers, BmtWrite(t)
  PROVE  PrefixInv(fac)'
<1> DEFINE p == pc[t]
           q == [p EXCEPT !.at = "return"]
<1>1. p \in Places /\ p.at = "bmt_write" /\ Go(t, q) /\ idx' = p.n
  BY DEF TypeInv, TypeOK, BmtWrite
<1>2. UNCHANGED <<mode, bbt, databuf, badmark, worn, want, env>>
  BY DEF BmtWrite
<1>3. /\ flash \in [Blocks -> Contents] /\ bbt \in Bbbts
      /\ flash' = [flash EXCEPT ![p.new] = Programmed(p.new, Table(bbt))]
  BY DEF TypeInv, TypeOK, BmtWrite
<1>4. p.new \in Blocks
  BY <1>1, PlaceFields
<1>5. /\ q \in Places /\ q.at = "return" /\ q.op = p.op /\ q.lb = p.lb /\ q.old = p.old
      /\ q.again = p.again
  BY <1>1, PlaceAt DEF Sites
<1> HIDE DEF q
<1>6. InUse(fac) /\ Right(fac, env.range, worn, flash, bbt, p)
  BY <1>1, InCall
<1>7. UpTo(fac, bbt, p.n) /\ (p.again => p.op \in Accesses) /\ Harmless(fac, worn, p.new)
  BY <1>1, <1>6 DEF Right, Uploading
<1>8. SoundContent(fac, worn', databuf') /\ Sound(fac, worn', bbt') /\ Sound(fac, worn, bbt)
  BY <1>2, <1>6 DEF PrefixInv, InUse
<1>9. SoundContent(fac, worn', flash'[p.new])
  <2>1. flash'[p.new] = Table(bbt) \/ flash'[p.new] = Junk
    BY <1>3, <1>4 DEF Programmed
  <2>2. Table(bbt).bbt = bbt /\ Junk.kind = "junk"
    BY <1>3, ContentKinds
  <2> QED BY <1>2, <1>8, <2>1, <2>2 DEF SoundContent
<1>10. \A c \in Blocks : flash'[c] = flash[c] \/
                         (Harmless(fac, worn', c) /\ SoundContent(fac, worn', flash'[c]))
  BY <1>2, <1>3, <1>4, <1>7, <1>9
<1>11. UpTo(fac, bbt', idx')
  BY <1>1, <1>2, <1>7
<1> QED BY <1>1, <1>2, <1>5, <1>7, <1>8, <1>10, <1>11, CallStep DEF Uploading, Remapping

\* upload_bmt tries the entry in front.
LEMMA UploadRetriesPrefix ==
  ASSUME TypeInv, [Next]_vars, NEW fac, PrefixInv(fac), NEW t \in Callers, UploadRetries(t)
  PROVE  PrefixInv(fac)'
<1> DEFINE p == pc[t]
           b == IF p.at = "bmt_erase" THEN bbt.pool[p.n].block ELSE p.new
           q == Upload(p, p.n - 1)
<1>1. p \in Places /\ p.at \in {"bmt_erase", "bmt_write"} /\ Go(t, q) /\ p.n \in PoolIdx
  BY DEF TypeInv, TypeOK, UploadRetries, NoSpace
<1>2. UNCHANGED <<mode, idx, databuf, badmark, want>> /\ env.torn
  BY DEF UploadRetries
<1>3. flash \in [Blocks -> Contents] /\ bbt \in Bbbts
  BY DEF TypeInv, TypeOK
<1>4. /\ \E c \in {flash[b], Junk} : flash' = [flash EXCEPT ![b] = c]
      /\ bbt' = [bbt EXCEPT !.pool[p.n].block = 0] /\ worn' = worn \union {b}
  BY DEF UploadRetries
<1>5. b \in Blocks
  BY <1>1, <1>3, PoolType, PlaceFields
<1> HIDE DEF b
<1>6. /\ q \in Places /\ q.at = "bmt_erase" /\ q.op = p.op /\ q.lb = p.lb /\ q.old = p.old
      /\ q.again = p.again /\ q.n = p.n - 1
  <2>1. p.n - 1 \in PoolIdx \union {-1, NoIdx}
    BY <1>1, Sizes DEF PoolIdx
  <2> QED BY <1>1, <2>1, UploadPlace
<1> HIDE DEF q
<1>7. p.at # "idle" /\ Uploading(p)
  BY <1>1 DEF Uploading
<1>8. InUse(fac) /\ Right(fac, env.range, worn, flash, bbt, p)
  BY <1>7, InCall
<1>9. UpTo(fac, bbt, p.n) /\ (p.again => p.op \in Accesses)
  BY <1>7, <1>8 DEF Right
<1>10. Harmless(fac, worn', b)
  <2>1. b <= b
    BY <1>5, Sizes DEF Blocks
  <2> QED BY <1>4, <2>1 DEF Harmless, Touched
<1>11. \A c \in Blocks : flash'[c] = flash[c] \/
                         (Harmless(fac, worn', c) /\ SoundContent(fac, worn', flash'[c]))
  <2>1. flash'[b] = flash[b] \/ flash'[b] = Junk
    BY <1>3, <1>4, <1>5
  <2>2. \A c \in Blocks : c # b => flash'[c] = flash[c]
    BY <1>3, <1>4, <1>5
  <2>3. SoundContent(fac, worn', Junk)
    BY ContentKinds DEF SoundContent
  <2> QED BY <1>10, <2>1, <2>2, <2>3
<1>12. bbt'.map = bbt.map /\ bbt'.pool = [bbt.pool EXCEPT ![p.n].block = 0]
  BY <1>3, <1>4 DEF Bbbts
<1>13. \A k \in PoolIdx : bbt'.pool[k].block = IF k = p.n THEN 0 ELSE bbt.pool[k].block
  <2>1. bbt.pool \in [PoolIdx -> Entries]
    BY <1>3 DEF Bbbts
  <2> QED BY <1>12, <2>1 DEF Entries
<1>14. Sound(fac, worn', bbt')
  <2>1. worn \subseteq worn'
    BY <1>4
  <2>2. Sound(fac, worn', bbt)
    BY <1>8, <2>1, Wider DEF InUse
  <2> QED BY <1>12, <1>13, <2>2 DEF Sound
<1>15. UpTo(fac, bbt', q.n)
  <2>1. ASSUME q.n \in PoolIdx, NEW k \in PoolIdx, k <= q.n PROVE bbt'.pool[k].block > Last(fac)
    <3>1. k <= p.n /\ k # p.n
      BY <1>1, <1>6, <2>1, Sizes DEF PoolIdx
    <3>2. bbt.pool[k].block > Last(fac)
      BY <1>1, <1>9, <3>1 DEF UpTo
    <3> QED BY <1>13, <3>1, <3>2
  <2> QED BY <2>1 DEF UpTo
<1>16. worn \subseteq worn' /\ SoundContent(fac, worn', databuf')
  <2>1. worn \subseteq worn'
    BY <1>4
  <2> QED BY <1>2, <2>1, Wider DEF PrefixInv
<1>17. Uploading(q) /\ ~Remapping(q)
  BY <1>6 DEF Uploading, Remapping
<1> QED BY <1>1, <1>2, <1>6, <1>7, <1>9, <1>11, <1>14, <1>15, <1>16, <1>17, CallStep

\* mtk_bmt_remap_block refuses.
LEMMA RemapRefusedPrefix ==
  ASSUME TypeInv, [Next]_vars, NEW fac, PrefixInv(fac), NEW t \in Callers, RemapRefused(t)
  PROVE  PrefixInv(fac)'
<1> DEFINE p == pc[t]
           q == [p EXCEPT !.at = "return", !.again = FALSE]
<1>1. p \in Places /\ p.at = "find" /\ Go(t, q)
  BY DEF TypeInv, TypeOK, RemapRefused
<1>2. UNCHANGED <<mode, bbt, idx, databuf, flash, badmark, worn, want, env>>
  BY DEF RemapRefused
<1>3. /\ q \in Places /\ q.at = "return" /\ q.op = p.op /\ q.lb = p.lb /\ q.old = p.old
      /\ ~q.again
  BY <1>1 DEF Places, Sites
<1> HIDE DEF q
<1>4. InUse(fac) /\ UpTo(fac, bbt, idx)
  BY <1>1, InCall, IndexUpTo DEF Uploading
<1>5. SoundContent(fac, worn', databuf') /\ Sound(fac, worn', bbt') /\ UpTo(fac, bbt', idx')
  BY <1>2, <1>4 DEF PrefixInv, InUse
<1> QED BY <1>1, <1>2, <1>3, <1>5, CallStep DEF Uploading, Remapping

\* find_valid_block_in_pool finds an entry.
LEMMA FindEntryPrefix ==
  ASSUME TypeInv, [Next]_vars, NEW fac, PrefixInv(fac), NEW t \in Callers, FindEntry(t)
  PROVE  PrefixInv(fac)'
<1> DEFINE p == pc[t]
           n == Min(FreeEntries)
           q == [p EXCEPT !.at = "take", !.n = n]
<1>1. p \in Places /\ p.at = "find" /\ p.lb \in env.range /\ FreeEntries # {} /\ Go(t, q)
  BY DEF TypeInv, TypeOK, FindEntry
<1>2. UNCHANGED <<mode, bbt, idx, databuf, flash, badmark, worn, want, env>>
  BY DEF FindEntry
<1>3. n \in FreeEntries /\ n \in PoolIdx
  BY <1>1, FoundFree
<1> HIDE DEF n
<1>4. /\ q \in Places /\ q.at = "take" /\ q.op = p.op /\ q.lb = p.lb /\ q.old = p.old
      /\ q.again = p.again /\ q.n = n
  BY <1>1, <1>3 DEF Places, Sites
<1> HIDE DEF q
<1>5. /\ InUse(fac) /\ UpTo(fac, bbt, idx) /\ Right(fac, env.range, worn, flash, bbt, p)
  BY <1>1, InCall, IndexUpTo DEF Uploading
<1>6. SoundContent(fac, worn', databuf') /\ Sound(fac, worn', bbt') /\ UpTo(fac, bbt', idx')
  BY <1>2, <1>5 DEF PrefixInv, InUse
<1>7. /\ p.again => p.op \in Accesses
      /\ Touched(worn, First(fac, p.lb))
      /\ p.op \in CallOps
  BY <1>1, <1>5 DEF Right, Uploading
<1>8. bbt'.pool[q.n].block > Last(fac)
  BY <1>2, <1>3, <1>4, <1>5 DEF InUse, Sound, FreeEntries
<1> QED BY <1>1, <1>2, <1>4, <1>6, <1>7, <1>8, CallStep DEF Uploading, Remapping

\* remap_block_v2 takes the entry.
LEMMA TakeEntryPrefix ==
  ASSUME TypeInv, [Next]_vars, NEW fac, PrefixInv(fac), NEW t \in Callers, TakeEntry(t)
  PROVE  PrefixInv(fac)'
<1> DEFINE p == pc[t]
           b == bbt.pool[p.n].block
           q == [p EXCEPT !.at = "new_erase", !.new = b]
<1>1. p \in Places /\ p.at = "take" /\ p.n \in PoolIdx /\ bbt \in Bbbts
  BY DEF TypeInv, TypeOK, Placed, TakeEntry
<1>2. UNCHANGED <<mode, idx, databuf, flash, badmark, worn, want, env>>
  BY DEF TakeEntry
<1>3. b \in Blocks /\ p.lb \in LBlocks
  BY <1>1, PoolType, PlaceFields
<1>4. /\ InUse(fac) /\ UpTo(fac, bbt, idx) /\ Right(fac, env.range, worn, flash, bbt, p)
  BY <1>1, InCall, IndexUpTo DEF Uploading
<1>5. /\ p.again => p.op \in Accesses
      /\ p.lb \in env.range /\ b > Last(fac)
      /\ Touched(worn, First(fac, p.lb))
      /\ p.op \in CallOps
  BY <1>1, <1>4 DEF Right, Uploading
<1>6. Go(t, q) /\ bbt' = Taken(bbt, p.n, p.lb, b)
  <2>1. Last(fac) \in Nat
    BY <1>4, OwnHarmless DEF InUse
  <2>2. b # 0
    BY <1>5, <2>1
  <2> QED BY <2>2, EntryTaken
<1> HIDE DEF b
<1>7. /\ q \in Places /\ q.at = "new_erase" /\ q.op = p.op /\ q.lb = p.lb /\ q.old = p.old
      /\ q.again = p.again /\ q.new = b
  BY <1>1, <1>3 DEF Places, Sites
<1> HIDE DEF q
<1>8. /\ bbt'.map[p.lb] = b /\ \A lc \in LBlocks : lc # p.lb => bbt'.map[lc] = bbt.map[lc]
      /\ \A k \in PoolIdx : bbt'.pool[k].block = bbt.pool[k].block
  BY <1>1, <1>6, <1>3, TakenTable
<1>9. Touched(worn, b)
  <2>1. PICK x \in worn : x <= First(fac, p.lb)
    BY <1>5 DEF Touched
  <2>2. x \in Nat
    <3>1. worn \subseteq Blocks /\ Blocks \subseteq Nat
      BY Sizes DEF TypeInv, TypeOK
    <3> QED BY <2>1, <3>1
  <2>3. b \in Nat
    <3>1. Blocks \subseteq Nat
      BY Sizes
    <3> QED BY <1>3, <3>1
  <2>4. /\ First(fac, p.lb) \in Nat /\ Last(fac) \in Nat
        /\ First(fac, p.lb) <= Last(fac)
    BY <1>3, <1>4, OwnHarmless DEF InUse
  <2>5. x <= b
    BY <1>5, <2>1, <2>2, <2>3, <2>4
  <2> QED BY <2>1, <2>5 DEF Touched
<1>10. Sound(fac, worn', bbt')
  <2>1. Sound(fac, worn, bbt)
    BY <1>4 DEF InUse
  <2>2. \A lb \in LBlocks : Follows(worn, First(fac, lb), bbt'.map[lb])
    BY <1>5, <1>8, <1>9, <2>1 DEF Sound, Follows
  <2> QED BY <1>2, <1>8, <2>1, <2>2 DEF Sound
<1>11. UpTo(fac, bbt', idx')
  BY <1>2, <1>4, <1>8 DEF UpTo
<1>12. Harmless(fac, worn', q.new)
  BY <1>5, <1>7 DEF Harmless
<1>13. SoundContent(fac, worn', databuf')
  BY <1>2 DEF PrefixInv
<1> QED BY <1>1, <1>2, <1>5, <1>6, <1>7, <1>8, <1>10, <1>11, <1>12, <1>13, CallStep DEF Uploading

\* A step of a remap that changes the new block only.
LEMMA RemapPrefix ==
  ASSUME TypeInv, [Next]_vars, NEW fac, PrefixInv(fac), NEW t \in Callers, Remapping(pc[t]),
         UNCHANGED <<mode, bbt, idx, badmark, want>>,
         worn \subseteq worn', SoundContent(fac, worn', databuf'),
         \A b \in Blocks : b # pc[t].new => flash'[b] = flash[b],
         flash'[pc[t].new] = flash[pc[t].new] \/ SoundContent(fac, worn', flash'[pc[t].new]),
         NEW q, q \in {AfterErase(pc[t]), AfterCopy(pc[t]), [pc[t] EXCEPT !.at = "copy_write"]},
         Go(t, q)
  PROVE  PrefixInv(fac)'
<1> DEFINE p == pc[t]
<1>1. p \in Places /\ idx \in PoolIdx \union {NoIdx}
  BY DEF TypeInv, TypeOK
<1>2. p.at # "idle" /\ ~Uploading(p)
  BY DEF Remapping, Uploading
<1>3. /\ InUse(fac) /\ UpTo(fac, bbt, idx) /\ Right(fac, env.range, worn, flash, bbt, p)
  BY <1>2, InCall, IndexUpTo
<1>4. /\ p.again => p.op \in Accesses
      /\ Harmless(fac, worn, p.new)
      /\ p.op \in CallOps
  BY <1>2, <1>3 DEF Right, Uploading, Remapping
<1>5. Harmless(fac, worn', p.new)
  BY <1>4, Wider
<1>6. q \in Places
  <2>1. q = Rest \/ q = Upload(p, idx) \/ q = [p EXCEPT !.at = "copy_read"]
          \/ q = [p EXCEPT !.at = "copy_write"]
    BY DEF AfterErase, AfterCopy
  <2>2. "copy_read" \in Sites /\ "copy_write" \in Sites /\ idx \in PoolIdx \union {-1, NoIdx}
    BY <1>1 DEF Sites
  <2> QED BY <1>1, <2>1, <2>2, RestPlace, UploadPlace, PlaceAt
<1>7. q.at # "idle" =>
        /\ q.op = p.op /\ q.lb = p.lb /\ q.old = p.old /\ q.again = p.again /\ q.new = p.new
        /\ \/ q.at = "bmt_erase" /\ q.n = idx
           \/ q.at \in {"copy_read", "copy_write"}
  <2>1. q = Rest \/ q = Upload(p, idx) \/ q = [p EXCEPT !.at = "copy_read"]
          \/ q = [p EXCEPT !.at = "copy_write"]
    BY DEF AfterErase, AfterCopy
  <2>2. "copy_read" \in Sites /\ "copy_write" \in Sites /\ idx \in PoolIdx \union {-1, NoIdx}
    BY <1>1 DEF Sites
  <2>3. Rest.at = "idle"
    BY RestPlace
  <2>4. LET r == Upload(p, idx)
        IN  /\ r.at = "bmt_erase" /\ r.op = p.op /\ r.lb = p.lb /\ r.old = p.old
            /\ r.again = p.again /\ r.new = p.new /\ r.n = idx
    BY <1>1, <2>2, UploadPlace
  <2>5. \A a \in {"copy_read", "copy_write"} :
          LET r == [p EXCEPT !.at = a]
          IN  /\ r.at = a /\ r.op = p.op /\ r.lb = p.lb /\ r.old = p.old
              /\ r.again = p.again /\ r.new = p.new
    BY <1>1, <2>2, PlaceAt
  <2> QED BY <2>1, <2>3, <2>4, <2>5
<1>8. Sound(fac, worn', bbt')
  BY <1>3, Wider DEF InUse
<1>9. UpTo(fac, bbt', idx')
  BY <1>3
<1>10. \A b \in Blocks : flash'[b] = flash[b] \/
                         (Harmless(fac, worn', b) /\ SoundContent(fac, worn', flash'[b]))
  BY <1>5
<1>11. q.at # "idle" =>
         /\ q.op = p.op /\ q.lb = p.lb /\ q.old = p.old
         /\ q.again \/ q.at = "access" => p.op \in Accesses
         /\ q.at \notin {"find", "take"}
         /\ Remapping(q) \/ q.at = "bmt_write" => Harmless(fac, worn', q.new)
         /\ Uploading(q) => UpTo(fac, bbt', q.n)
  BY <1>3, <1>4, <1>5, <1>7 DEF Remapping, Uploading
<1> QED BY <1>2, <1>4, <1>6, <1>8, <1>9, <1>10, <1>11, CallStep

\* bbt_nand_erase of the new block.
LEMMA NewErasePrefix ==
  ASSUME TypeInv, [Next]_vars, NEW fac, PrefixInv(fac), NEW t \in Callers, NewErase(t)
  PROVE  PrefixInv(fac)'
<1>1. flash \in [Blocks -> Contents] /\ flash' = [flash EXCEPT ![pc[t].new] = Erased]
  BY DEF TypeInv, TypeOK, NewErase
<1>2. SoundContent(fac, worn', databuf') /\ SoundContent(fac, worn', Erased)
  BY ContentKinds DEF NewErase, PrefixInv, SoundContent
<1>3. pc[t].new \in Blocks
  BY PlaceFields DEF TypeInv, TypeOK
<1>4. Remapping(pc[t]) /\ Go(t, AfterErase(pc[t]))
  BY DEF NewErase, Remapping
<1> QED BY <1>1, <1>2, <1>3, <1>4, RemapPrefix DEF NewErase

\* The first half of bbt_nand_copy.
LEMMA CopyReadPrefix ==
  ASSUME TypeInv, [Next]_vars, NEW fac, PrefixInv(fac), NEW t \in Callers, CopyRead(t)
  PROVE  PrefixInv(fac)'
<1>1. SoundContent(fac, worn', databuf')
  <2>1. pc[t].old \in Blocks
    BY PlaceFields DEF TypeInv, TypeOK
  <2>2. SoundContent(fac, worn, flash[pc[t].old]) /\ SoundContent(fac, worn, databuf)
    BY <2>1 DEF PrefixInv, SoundFlash
  <2>3. worn' = worn /\ (databuf' = flash[pc[t].old] \/ databuf' = databuf)
    BY DEF CopyRead
  <2> QED BY <2>2, <2>3
<1>2. Remapping(pc[t])
  BY DEF CopyRead, Remapping
<1>3. \E q \in {AfterCopy(pc[t]), [pc[t] EXCEPT !.at = "copy_write"]} : Go(t, q)
  BY DEF CopyRead
<1> QED BY <1>1, <1>2, <1>3, RemapPrefix DEF CopyRead

\* The second half.
LEMMA CopyWritePrefix ==
  ASSUME TypeInv, [Next]_vars, NEW fac, PrefixInv(fac), NEW t \in Callers, CopyWrite(t)
  PROVE  PrefixInv(fac)'
<1>1. pc[t].new \in Blocks /\ flash \in [Blocks -> Contents]
  BY PlaceFields DEF TypeInv, TypeOK
<1>2. /\ \A b \in Blocks : b # pc[t].new => flash'[b] = flash[b]
      /\ flash'[pc[t].new] \in {flash[pc[t].new], databuf, Junk}
  BY <1>1 DEF CopyWrite, Programmed
<1>3. SoundContent(fac, worn', databuf') /\ SoundContent(fac, worn', Junk) /\ databuf' = databuf
  BY ContentKinds DEF CopyWrite, PrefixInv, SoundContent
<1>4. Remapping(pc[t]) /\ Go(t, AfterCopy(pc[t]))
  BY DEF CopyWrite, Remapping
<1> QED BY <1>2, <1>3, <1>4, RemapPrefix DEF CopyWrite

\* The new block fails.
LEMMA NewFailsPrefix ==
  ASSUME TypeInv, [Next]_vars, NEW fac, PrefixInv(fac), NEW t \in Callers, NewFails(t)
  PROVE  PrefixInv(fac)'
<1>1. pc[t].new \in Blocks /\ flash \in [Blocks -> Contents]
  BY PlaceFields DEF TypeInv, TypeOK
<1>2. /\ \A b \in Blocks : b # pc[t].new => flash'[b] = flash[b]
      /\ flash'[pc[t].new] = Junk
  BY <1>1 DEF NewFails
<1>3. worn \subseteq worn'
  BY DEF NewFails
<1>4. SoundContent(fac, worn', databuf') /\ SoundContent(fac, worn', Junk)
  <2>1. SoundContent(fac, worn, databuf) /\ databuf' = databuf
    BY DEF NewFails, PrefixInv
  <2> QED BY <1>3, <2>1, Wider, ContentKinds DEF SoundContent
<1>5. Remapping(pc[t]) /\ \E q \in {AfterErase(pc[t]), AfterCopy(pc[t])} : Go(t, q)
  BY DEF NewFails, Remapping
<1> QED BY <1>2, <1>3, <1>4, <1>5, RemapPrefix DEF NewFails

\* The block of a logic block is its own, or it is lost and moved.
LEMMA MappingFollows ==
  ASSUME NEW fac, InUse(fac), NEW lb \in LBlocks
  PROVE  Follows(worn, Own(fac, env.range, lb), Mapping(lb))
BY DEF InUse, Sound, Own, Mapping, Follows

\* The facts about a caller who may start a call.
LEMMA AtStart ==
  ASSUME NEW fac, PrefixInv(fac), NEW t \in Callers, Ready(t)
  PROVE  /\ InUse(fac) /\ t \in env.callers /\ mode # "off" /\ UpTo(fac, bbt, idx)
<1>1. mode = "run" /\ t \in env.callers /\ pc[t].at = "idle"
  BY DEF Ready
<1>2. InUse(fac)
  BY <1>1 DEF PrefixInv, Waiting, Attached
<1>3. CallsApart
  BY DEF PrefixInv
<1>4. env.torn => \A u \in Callers : pc[u].at = "idle"
  BY <1>1, <1>3 DEF CallsApart
<1>5. env.torn => \A u \in Callers : ~Uploading(pc[u])
  BY <1>4 DEF Uploading
<1> QED BY <1>1, <1>2, <1>5 DEF InUse

\* The first step of an access.
LEMMA StartPrefix ==
  ASSUME TypeInv, [Next]_vars, NEW fac, PrefixInv(fac), NEW t \in Callers,
         NEW op \in Accesses, NEW lb \in UBlocks, Start(t, op, lb)
  PROVE  PrefixInv(fac)'
<1> DEFINE q == [Rest EXCEPT !.at = "access", !.op = op, !.lb = lb, !.old = Mapping(lb)]
           o == Own(fac, env.range, lb)
<1>1. /\ Ready(t) /\ ~Busy(lb) /\ Go(t, q) /\ bbt \in Bbbts /\ lb \in LBlocks
      /\ want \in [UBlocks -> [st: {"none", "erased", "data"}, v: 0 .. MaxVersion]]
  BY Sizes DEF Start, Calls, TypeInv, TypeOK
<1>2. UNCHANGED <<mode, bbt, idx, databuf, flash, badmark, worn, env>>
  BY DEF Start
<1>3. Mapping(lb) \in Blocks
  BY <1>1, MappingType
<1>4. /\ q \in Places /\ q.at = "access" /\ q.op = op /\ q.lb = lb /\ q.old = Mapping(lb)
      /\ ~q.again
  BY <1>1, <1>3, RestPlace DEF Places, Sites, Ops, Accesses
<1> HIDE DEF q
<1>5. InUse(fac) /\ t \in env.callers /\ mode # "off" /\ UpTo(fac, bbt, idx)
  BY <1>1, AtStart
<1>6. Follows(worn, o, Mapping(lb))
  BY <1>1, <1>5, MappingFollows
<1>7. op = "write" /\ ~Touched(worn, o) => flash[o] = Erased
  <2>1. op = "write" => Promised(lb) /\ Content(lb) = Erased
    BY DEF Start, Promised, Content
  <2> QED BY <2>1 DEF PrefixInv, PrefixKept
<1>8. \A lc \in UBlocks : want'[lc] = want[lc] \/ want'[lc].st = "none"
  BY <1>1 DEF Start, Promise
<1>9. Right(fac, env.range, worn', flash', bbt', q)
  <2>1. q.op \in CallOps /\ q.op \in Accesses
    BY <1>4 DEF CallOps
  <2>2. q.op # "markbad"
    BY <2>1 DEF Accesses
  <2>3. ~Remapping(q) /\ ~Uploading(q)
    BY <1>4 DEF Remapping, Uploading
  <2> HIDE DEF o
  <2>4. Follows(worn', Own(fac, env.range, q.lb), q.old)
    BY <1>2, <1>4, <1>6 DEF o
  <2>5. q.op = "write" /\ ~Touched(worn', Own(fac, env.range, q.lb)) =>
          flash'[Own(fac, env.range, q.lb)] = Erased
    BY <1>2, <1>4, <1>7 DEF o
  <2> QED BY <1>4, <2>1, <2>2, <2>3, <2>4, <2>5 DEF Right
<1>10. \A u \in Callers : u # t /\ pc[u].at # "idle" /\ pc[u].op \in CallOps => pc[u].lb # q.lb
  BY <1>1, <1>4 DEF Busy
<1>11. SoundContent(fac, worn', databuf') /\ Sound(fac, worn', bbt') /\ UpTo(fac, bbt', idx')
  BY <1>2, <1>5 DEF PrefixInv, InUse
<1> QED BY <1>1, <1>2, <1>4, <1>5, <1>8, <1>9, <1>10, <1>11, HarmlessStep

\* The operation of the chip succeeds.
LEMMA AccessPrefix ==
  ASSUME TypeInv, [Next]_vars, NEW fac, PrefixInv(fac), NEW t \in Callers, Access(t)
  PROVE  PrefixInv(fac)'
<1> DEFINE p == pc[t]
           o == Own(fac, env.range, p.lb)
<1>1. /\ p \in Places /\ p.at = "access" /\ Go(t, Rest) /\ flash \in [Blocks -> Contents]
      /\ want \in [UBlocks -> [st: {"none", "erased", "data"}, v: 0 .. MaxVersion]]
  BY DEF Access, TypeInv, TypeOK
<1>2. UNCHANGED <<mode, bbt, idx, databuf, badmark, worn, env>>
  BY DEF Access
<1>3. Rest \in Places /\ Rest.at = "idle"
  BY RestPlace
<1>4. /\ InUse(fac) /\ t \in env.callers /\ mode # "off" /\ UpTo(fac, bbt, idx)
      /\ Right(fac, env.range, worn, flash, bbt, p)
      /\ \A u \in Callers : u # t /\ pc[u].at # "idle" /\ pc[u].op \in CallOps /\
                            p.op \in CallOps => pc[u].lb # p.lb
  BY <1>1, InCall, IndexUpTo DEF Uploading
<1>5. SoundContent(fac, worn', databuf') /\ Sound(fac, worn', bbt') /\ UpTo(fac, bbt', idx')
  BY <1>2, <1>4 DEF PrefixInv, InUse
<1>6. /\ p.op \in Accesses /\ p.op \in CallOps /\ p.lb \in UBlocks /\ Follows(worn, o, p.old)
      /\ p.op = "write" /\ ~Touched(worn, o) => flash[o] = Erased
  BY <1>1, <1>4 DEF Right, CallOps
<1>7. p.old \in Blocks
  BY <1>1, PlaceFields
<1>8. CASE p.op \notin {"erase", "write"}
  <2>1. flash' = flash /\ want' = want
    BY <1>8 DEF Access
  <2> QED BY <1>1, <1>2, <1>3, <1>4, <1>5, <2>1, HarmlessStep
<1>9. CASE p.op \in {"erase", "write"}
  <2> DEFINE c == IF p.op = "erase" THEN Erased
                  ELSE Programmed(p.old, Data(p.lb, want[p.lb].v + 1))
             r == IF p.op = "erase" THEN [st |-> "erased", v |-> want[p.lb].v]
                  ELSE [st |-> "data", v |-> want[p.lb].v + 1]
  <2>1. flash' = [flash EXCEPT ![p.old] = c] /\ want' = [want EXCEPT ![p.lb] = r]
    BY <1>9 DEF Access, Promise
  <2>2. c.kind # "table" /\ (c = Junk => p.op = "write" /\ flash[p.old] # Erased)
    BY <1>9 DEF Programmed, Erased, Junk, Data
  <2>3. flash'[p.old] = c /\ \A b \in Blocks : b # p.old => flash'[b] = flash[b]
    BY <1>1, <1>7, <2>1
  <2>4. want'[p.lb] = r /\ \A lb \in UBlocks : lb # p.lb => want'[lb] = want[lb]
    BY <1>1, <1>6, <2>1
  <2>5. SoundFlash(fac, worn', flash')
    <3>1. SoundFlash(fac, worn, flash)
      BY DEF PrefixInv
    <3>2. ASSUME c = Junk PROVE Touched(worn, p.old)
      <4>1. o # p.old \/ Touched(worn, o)
        BY <1>6, <2>2, <3>2
      <4> QED BY <1>6, <4>1 DEF Follows
    <3> HIDE DEF c
    <3>3. ASSUME NEW b \in Blocks
          PROVE  SoundContent(fac, worn', flash'[b]) /\ (flash'[b] = Junk => Harmless(fac, worn', b))
      <4>1. CASE b = p.old
        BY <1>2, <2>2, <2>3, <3>2, <4>1 DEF SoundContent, Harmless
      <4>2. CASE b # p.old
        BY <1>2, <2>3, <3>1, <4>2 DEF SoundFlash
      <4> QED BY <4>1, <4>2
    <3> QED BY <3>3 DEF SoundFlash
  <2>6. ASSUME NEW lb \in UBlocks, lb # p.lb, ~Touched(worn, Own(fac, env.range, lb))
        PROVE  flash'[Own(fac, env.range, lb)] = flash[Own(fac, env.range, lb)]
    <3>1. lb \in LBlocks /\ p.lb \in LBlocks
      <4>1. UBlocks \subseteq LBlocks
        BY Sizes
      <4> QED BY <1>6, <4>1
    <3>2. Own(fac, env.range, lb) # o /\ Own(fac, env.range, lb) \in Blocks
      BY <1>4, <2>6, <3>1 DEF InUse, Chip
    <3>3. Own(fac, env.range, lb) # p.old
      BY <1>6, <2>6, <3>2 DEF Follows
    <3> QED BY <2>3, <3>2, <3>3
  <2>7. PrefixKept(fac)'
    <3>1. ASSUME NEW lb \in UBlocks, Promised(lb)', ~Touched(worn, Own(fac, env.range, lb))
          PROVE  flash'[Own(fac, env.range, lb)] = Content(lb)'
      <4>1. CASE lb = p.lb
        <5>1. p.old = o /\ (p.op = "write" => flash[p.old] = Erased)
          BY <1>6, <3>1, <4>1 DEF Follows
        <5>2. c = IF p.op = "erase" THEN Erased ELSE Data(p.lb, want[p.lb].v + 1)
          BY <1>9, <5>1 DEF Programmed
        <5>3. Content(lb)' = IF p.op = "erase" THEN Erased ELSE Data(p.lb, want[p.lb].v + 1)
          BY <2>4, <4>1 DEF Content
        <5> QED BY <2>3, <4>1, <5>1, <5>2, <5>3
      <4>2. CASE lb # p.lb
        <5>1. Promised(lb) /\ Content(lb)' = Content(lb)
          BY <2>4, <3>1, <4>2 DEF Promised, Content
        <5> QED BY <2>6, <3>1, <4>2, <5>1 DEF PrefixInv, PrefixKept
      <4> QED BY <4>1, <4>2
    <3> QED BY <1>2, <3>1 DEF PrefixKept
  <2>8. ASSUME NEW u \in Callers, u # t, pc[u].at # "idle", pc[u].op \in CallOps,
               ~Touched(worn', Own(fac, env.range, pc[u].lb))
        PROVE  flash'[Own(fac, env.range, pc[u].lb)] = flash[Own(fac, env.range, pc[u].lb)]
    <3>1. pc[u].lb # p.lb
      BY <1>4, <1>6, <2>8
    <3>2. pc[u].lb \in UBlocks
      <4>1. Right(fac, env.range, worn, flash, bbt, pc[u])
        BY <2>8, InCall
      <4> QED BY <2>8, <4>1 DEF Right
    <3> QED BY <1>2, <2>6, <2>8, <3>1, <3>2
  <2> QED BY <1>1, <1>2, <1>3, <1>4, <1>5, <2>5, <2>7, <2>8, PrefixStep
<1> QED BY <1>8, <1>9

\* A logic block whose block has failed is behind one that has.
LEMMA LostIsTouched ==
  ASSUME NEW fac, InUse(fac), NEW v, worn \subseteq v, NEW lb \in LBlocks, NEW b,
         Follows(worn, Own(fac, env.range, lb), b), b \in v, lb \in env.range
  PROVE  Touched(v, First(fac, lb))
<1>1. First(fac, lb) \in Nat /\ Own(fac, env.range, lb) = First(fac, lb)
  BY OwnHarmless DEF InUse, Own
<1>2. CASE b = First(fac, lb)
  <2>1. b <= First(fac, lb)
    BY <1>1, <1>2
  <2> QED BY <2>1 DEF Touched
<1>3. CASE b # First(fac, lb)
  <2>1. Touched(worn, First(fac, lb))
    BY <1>1, <1>3 DEF Follows
  <2> QED BY <2>1, Wider
<1> QED BY <1>2, <1>3

\* mtk_bmt_block_isbad finds a mark.
LEMMA IsBadPrefix ==
  ASSUME TypeInv, [Next]_vars, NEW fac, PrefixInv(fac), NEW t \in Callers, IsBad(t)
  PROVE  PrefixInv(fac)'
<1> DEFINE p == pc[t]
           q == [p EXCEPT !.at = "find", !.copy = TRUE, !.again = TRUE]
<1>1. p \in Places /\ p.at = "access" /\ Go(t, q) /\ p.op = "isbad" /\ p.old \in badmark
  BY DEF TypeInv, TypeOK, IsBad
<1>2. UNCHANGED <<mode, bbt, idx, databuf, flash, badmark, worn, want, env>>
  BY DEF IsBad
<1>3. /\ q \in Places /\ q.at = "find" /\ q.op = p.op /\ q.lb = p.lb /\ q.old = p.old
  BY <1>1 DEF Places, Sites
<1> HIDE DEF q
<1>4. /\ InUse(fac) /\ UpTo(fac, bbt, idx) /\ Right(fac, env.range, worn, flash, bbt, p)
  BY <1>1, InCall, IndexUpTo DEF Uploading
<1>5. SoundContent(fac, worn', databuf') /\ Sound(fac, worn', bbt') /\ UpTo(fac, bbt', idx')
  BY <1>2, <1>4 DEF PrefixInv, InUse
<1>6. p.op \in Accesses /\ p.op \in CallOps /\ Follows(worn, Own(fac, env.range, p.lb), p.old)
  BY <1>1, <1>4 DEF Right, CallOps, Accesses
<1>7. p.lb \in LBlocks
  BY <1>1, PlaceFields
<1>8. ASSUME p.lb \in env.range PROVE Touched(worn, First(fac, p.lb))
  <2>1. CASE p.old \in worn
    BY <1>4, <1>6, <1>7, <1>8, <2>1, LostIsTouched
  <2>2. CASE p.old \notin worn
    <3>1. p.old \in fac
      BY <1>1, <2>2 DEF PrefixInv, Marks
    <3>2. First(fac, p.lb) \notin fac
      BY <1>4, <1>7 DEF InUse, Chip
    <3> QED BY <1>6, <1>8, <3>1, <3>2 DEF Follows, Own
  <2> QED BY <2>1, <2>2
<1> QED BY <1>1, <1>2, <1>3, <1>5, <1>6, <1>8, CallStep DEF Uploading, Remapping

\* The operation of the chip fails.
LEMMA AccessFailsPrefix ==
  ASSUME TypeInv, [Next]_vars, NEW fac, PrefixInv(fac), NEW t \in Callers,
         AccessFails(t) \/ Bitflips(t)
  PROVE  PrefixInv(fac)'
<1> DEFINE p == pc[t]
<1>1. /\ p \in Places /\ p.at = "access" /\ flash \in [Blocks -> Contents]
      /\ want \in [UBlocks -> [st: {"none", "erased", "data"}, v: 0 .. MaxVersion]]
  BY DEF TypeInv, TypeOK, AccessFails, Bitflips
<1>2. UNCHANGED <<mode, bbt, idx, databuf, badmark>> /\ worn' = worn \union {p.old}
  BY DEF AccessFails, Bitflips
<1>3. PICK q : q \in {[p EXCEPT !.at = "find", !.copy = p.op = "read", !.again = TRUE],
                      [p EXCEPT !.at = "find", !.copy = TRUE]} /\ Go(t, q)
  BY DEF AccessFails, Bitflips
<1>4. /\ q \in Places /\ q.at = "find" /\ q.op = p.op /\ q.lb = p.lb /\ q.old = p.old
  BY <1>1, <1>3 DEF Places, Sites
<1>5. /\ InUse(fac) /\ UpTo(fac, bbt, idx) /\ Right(fac, env.range, worn, flash, bbt, p)
  BY <1>1, InCall, IndexUpTo DEF Uploading
<1>6. /\ p.op \in Accesses /\ p.op \in CallOps /\ p.lb \in UBlocks
      /\ Follows(worn, Own(fac, env.range, p.lb), p.old)
  BY <1>1, <1>5 DEF Right, CallOps
<1>7. p.lb \in LBlocks /\ p.old \in Blocks /\ worn \subseteq worn' /\ p.old \in worn'
  BY <1>1, <1>2, PlaceFields
<1>8. ASSUME p.lb \in env.range PROVE Touched(worn', First(fac, p.lb))
  BY <1>5, <1>6, <1>7, <1>8, LostIsTouched
<1>9. SoundContent(fac, worn', databuf') /\ Sound(fac, worn', bbt') /\ UpTo(fac, bbt', idx')
  BY <1>2, <1>5, <1>7, Wider DEF PrefixInv, InUse
<1>10. Harmless(fac, worn', p.old)
  <2>1. p.old <= p.old
    BY <1>7, Sizes DEF Blocks
  <2> QED BY <1>7, <2>1 DEF Harmless, Touched
<1>11. /\ \A b \in Blocks : b # p.old => flash'[b] = flash[b]
       /\ flash'[p.old] = flash[p.old] \/ flash'[p.old] = Junk
  BY <1>1, <1>7 DEF AccessFails, Bitflips
<1>12. \A b \in Blocks : flash'[b] = flash[b] \/
                         (Harmless(fac, worn', b) /\ SoundContent(fac, worn', flash'[b]))
  BY <1>10, <1>11, ContentKinds DEF SoundContent
<1>13. \A lb \in UBlocks : want'[lb] = want[lb] \/ want'[lb].st = "none"
  BY <1>1 DEF AccessFails, Bitflips, Promise
<1> QED BY <1>1, <1>2, <1>3, <1>4, <1>6, <1>7, <1>8, <1>9, <1>12, <1>13, CallStep
        DEF Uploading, Remapping

\* mtk_bmt_block_markbad, and the debugfs file mark_bad.
LEMMA MarkBadPrefix ==
  ASSUME TypeInv, [Next]_vars, NEW fac, PrefixInv(fac), NEW t \in Callers,
         NEW op \in {"markbad", "mark_bad"}, NEW lb \in UBlocks, MarkBad(t, op, lb)
  PROVE  PrefixInv(fac)'
<1> DEFINE q == [Rest EXCEPT !.at = "find", !.op = op, !.lb = lb, !.old = Mapping(lb),
                             !.copy = TRUE]
<1>1. Ready(t) /\ ~Busy(lb) /\ Go(t, q) /\ bbt \in Bbbts /\ lb \in LBlocks
  BY Sizes DEF MarkBad, Calls, TypeInv, TypeOK
<1>2. UNCHANGED <<mode, bbt, idx, databuf, flash, badmark, want>> /\
      worn' = worn \union {Mapping(lb)}
  BY DEF MarkBad
<1>3. Mapping(lb) \in Blocks
  BY <1>1, MappingType
<1>4. /\ q \in Places /\ q.at = "find" /\ q.op = op /\ q.lb = lb /\ q.old = Mapping(lb)
      /\ ~q.again
  BY <1>1, <1>3, RestPlace DEF Places, Sites, Ops
<1> HIDE DEF q
<1>5. InUse(fac) /\ t \in env.callers /\ mode # "off" /\ UpTo(fac, bbt, idx)
  BY <1>1, AtStart
<1>6. Follows(worn, Own(fac, env.range, lb), Mapping(lb))
  BY <1>1, <1>5, MappingFollows
<1>7. worn \subseteq worn' /\ Mapping(lb) \in worn'
  BY <1>2
<1>8. ASSUME lb \in env.range PROVE Touched(worn', First(fac, lb))
  BY <1>1, <1>5, <1>6, <1>7, <1>8, LostIsTouched
<1>9. Follows(worn', Own(fac, env.range, lb), Mapping(lb))
  BY <1>6, <1>7, Wider
<1>10. Right(fac, env.range, worn', flash', bbt', q)
  BY <1>4, <1>7, <1>8, <1>9 DEF Right, CallOps, Remapping, Uploading
<1>11. \A u \in Callers : u # t /\ pc[u].at # "idle" /\ pc[u].op \in CallOps => pc[u].lb # q.lb
  BY <1>1, <1>4 DEF Busy
<1>12. SoundContent(fac, worn', databuf') /\ Sound(fac, worn', bbt') /\ UpTo(fac, bbt', idx')
  BY <1>2, <1>5, <1>7, Wider DEF PrefixInv, InUse
<1> QED BY <1>1, <1>2, <1>4, <1>5, <1>7, <1>10, <1>11, <1>12, HarmlessStep

\* unmap_block_v2, for the debugfs files mark_good and repair.
LEMMA UnmapPrefix ==
  ASSUME TypeInv, [Next]_vars, NEW fac, PrefixInv(fac), NEW t \in Callers,
         NEW op \in env.files \intersect {"mark_good", "repair"}, NEW lb \in UBlocks,
         Unmap(t, op, lb)
  PROVE  PrefixInv(fac)'
<1> DEFINE r == [Rest EXCEPT !.op = op, !.lb = lb, !.old = Mapping(lb), !.copy = op = "repair"]
           q == Upload(r, idx)
<1>1. /\ Ready(t) /\ ~Busy(lb) /\ Go(t, q) /\ bbt \in Bbbts /\ lb \in LBlocks
      /\ idx \in PoolIdx \union {-1, NoIdx}
      /\ want \in [UBlocks -> [st: {"none", "erased", "data"}, v: 0 .. MaxVersion]]
  BY Sizes DEF Unmap, Calls, TypeInv, TypeOK
<1>2. UNCHANGED <<mode, idx, databuf, flash, badmark, worn, env>> /\
      bbt' = [bbt EXCEPT !.map[lb] = lb]
  BY DEF Unmap
<1>3. Mapping(lb) \in Blocks
  BY <1>1, MappingType
<1>4. r \in Places /\ r.op = op /\ r.lb = lb /\ r.old = Mapping(lb) /\ ~r.again
  BY <1>1, <1>3, RestPlace DEF Places, Sites, Ops
<1> HIDE DEF r
<1>5. /\ q \in Places /\ q.at = "bmt_erase" /\ q.op = op /\ q.lb = lb /\ q.old = Mapping(lb)
      /\ ~q.again /\ q.n = idx
  BY <1>1, <1>4, UploadPlace
<1> HIDE DEF q
<1>6. InUse(fac) /\ t \in env.callers /\ mode # "off" /\ UpTo(fac, bbt, idx)
  BY <1>1, AtStart
<1>7. Follows(worn, Own(fac, env.range, lb), Mapping(lb))
  BY <1>1, <1>6, MappingFollows
<1>8. /\ bbt'.map[lb] = lb /\ \A lc \in LBlocks : lc # lb => bbt'.map[lc] = bbt.map[lc]
      /\ bbt'.pool = bbt.pool
  BY <1>1, <1>2 DEF Bbbts
<1>9. First(fac, lb) = lb
  BY <1>1, <1>6 DEF InUse, Chip
<1>10. Sound(fac, worn', bbt')
  BY <1>2, <1>6, <1>8, <1>9 DEF InUse, Sound, Follows
<1>11. UpTo(fac, bbt', idx') /\ UpTo(fac, bbt', q.n)
  BY <1>2, <1>5, <1>6, <1>8 DEF UpTo
<1>12. Right(fac, env.range, worn', flash', bbt', q)
  <2>1. q.op \in CallOps /\ q.op \notin {"markbad", "write"}
    BY <1>5 DEF CallOps
  <2>2. Uploading(q) /\ ~Remapping(q)
    BY <1>5 DEF Uploading, Remapping
  <2> QED BY <1>2, <1>5, <1>7, <1>11, <2>1, <2>2 DEF Right
<1>13. \A u \in Callers : u # t /\ pc[u].at # "idle" /\ pc[u].op \in CallOps => pc[u].lb # q.lb
  BY <1>1, <1>5 DEF Busy
<1>14. SoundContent(fac, worn', databuf')
  BY <1>2 DEF PrefixInv
<1>15. \A lc \in UBlocks : want'[lc] = want[lc] \/ want'[lc].st = "none"
  BY <1>1 DEF Unmap, Promise
<1> QED BY <1>1, <1>2, <1>5, <1>6, <1>8, <1>10, <1>11, <1>12, <1>13, <1>14, <1>15, HarmlessStep

\* mtk_bmt_debug_v2 frees blocks of the pool.
LEMMA FreePrefix ==
  ASSUME TypeInv, [Next]_vars, NEW fac, PrefixInv(fac), NEW t \in Callers, Free(t)
  PROVE  PrefixInv(fac)'
<1> DEFINE r == [Rest EXCEPT !.op = "free"]
           q == Upload(r, idx)
<1>1. /\ Ready(t) /\ Go(t, q) /\ bbt \in Bbbts /\ idx \in PoolIdx \union {-1, NoIdx}
  BY DEF Free, TypeInv, TypeOK
<1>2. UNCHANGED <<mode, idx, databuf, flash, badmark, worn, want, env>>
  BY DEF Free
<1>3. PICK freed : bbt' = [bbt EXCEPT !.pool =
                   [i \in PoolIdx |-> IF i \in freed
                                      THEN [block |-> @[i].block, mapped |-> NO_MAPPED]
                                      ELSE @[i]]]
  BY DEF Free
<1>4. r \in Places /\ r.op = "free" /\ ~r.again
  BY RestPlace DEF Places, Ops
<1> HIDE DEF r
<1>5. q \in Places /\ q.at = "bmt_erase" /\ q.op = "free" /\ ~q.again /\ q.n = idx
  BY <1>1, <1>4, UploadPlace
<1> HIDE DEF q
<1>6. InUse(fac) /\ t \in env.callers /\ mode # "off" /\ UpTo(fac, bbt, idx)
  BY <1>1, AtStart
<1>7. bbt'.map = bbt.map /\ \A k \in PoolIdx : bbt'.pool[k].block = bbt.pool[k].block
  <2>1. bbt'.map = bbt.map
    BY <1>1, <1>3 DEF Bbbts
  <2>2. bbt'.pool = [i \in PoolIdx |-> IF i \in freed
                                       THEN [block |-> bbt.pool[i].block, mapped |-> NO_MAPPED]
                                       ELSE bbt.pool[i]]
    BY <1>1, <1>3 DEF Bbbts
  <2> QED BY <2>1, <2>2
<1>8. Sound(fac, worn', bbt')
  BY <1>2, <1>6, <1>7 DEF InUse, Sound
<1>9. UpTo(fac, bbt', idx') /\ UpTo(fac, bbt', q.n)
  BY <1>2, <1>5, <1>6, <1>7 DEF UpTo
<1>10. q.op \notin CallOps
  BY <1>5 DEF CallOps, Accesses
<1>11. Right(fac, env.range, worn', flash', bbt', q)
  <2>1. Uploading(q) /\ ~Remapping(q)
    BY <1>5 DEF Uploading, Remapping
  <2> QED BY <1>5, <1>9, <1>10, <2>1 DEF Right
<1>12. SoundContent(fac, worn', databuf')
  BY <1>2 DEF PrefixInv
<1> QED BY <1>1, <1>2, <1>5, <1>6, <1>7, <1>8, <1>9, <1>10, <1>11, <1>12, HarmlessStep

\* Back in the caller of remap_block, unmap_block or upload_bmt.
LEMMA ReturnsPrefix ==
  ASSUME TypeInv, [Next]_vars, NEW fac, PrefixInv(fac), NEW t \in Callers, Returns(t)
  PROVE  PrefixInv(fac)'
<1> DEFINE p == pc[t]
           r == [p EXCEPT !.at = "new_erase", !.new = Mapping(p.lb)]
<1>1. p \in Places /\ p.at = "return" /\ bbt \in Bbbts
  BY DEF TypeInv, TypeOK, Returns
<1>2. UNCHANGED <<bbt, idx, databuf, flash, worn, want, env>>
  BY DEF Returns
<1>3. /\ InUse(fac) /\ t \in env.callers /\ mode # "off" /\ UpTo(fac, bbt, idx)
      /\ Right(fac, env.range, worn, flash, bbt, p)
      /\ \A u \in Callers : u # t /\ pc[u].at # "idle" /\ pc[u].op \in CallOps /\
                            p.op \in CallOps => pc[u].lb # p.lb
  BY <1>1, InCall, IndexUpTo DEF Uploading
<1>4. p.lb \in LBlocks /\ Mapping(p.lb) \in Blocks
  BY <1>1, PlaceFields, MappingType
<1>5. Follows(worn, Own(fac, env.range, p.lb), Mapping(p.lb))
  BY <1>3, <1>4, MappingFollows
<1>6. mode' # "off"
  BY <1>3 DEF Returns
<1>7. badmark \subseteq badmark' /\ badmark' \subseteq badmark \union worn'
  <2>1. p.op = "markbad" => p.old \in worn
    BY <1>3 DEF Right
  <2> QED BY <1>2, <2>1 DEF Returns
<1>8. SoundContent(fac, worn', databuf') /\ Sound(fac, worn', bbt') /\ UpTo(fac, bbt', idx')
  BY <1>2, <1>3 DEF PrefixInv, InUse
<1>9. CASE MayRetry(p)
  <2> DEFINE q == Retry(p)
  <2>1. Go(t, q) /\ p.again /\ p.retry < MaxRetry
    BY <1>9 DEF Returns, MayRetry
  <2>2. /\ q \in Places /\ q.at = "access" /\ q.op = p.op /\ q.lb = p.lb
        /\ q.old = Mapping(p.lb) /\ ~q.again
    <3>1. p.retry + 1 \in 0 .. MaxRetry
      BY <1>1, <2>1, PlaceFields, Sizes
    <3> QED BY <1>1, <1>4, <3>1 DEF Retry, Places, Sites
  <2> HIDE DEF q
  <2>3. p.op \in Accesses /\ p.op \in CallOps /\ p.op # "markbad"
    BY <1>3, <2>1 DEF Right, CallOps, Accesses
  <2>4. /\ p.lb \in UBlocks
        /\ p.op = "write" /\ ~Touched(worn, Own(fac, env.range, p.lb)) =>
             flash[Own(fac, env.range, p.lb)] = Erased
    BY <1>3, <2>3 DEF Right
  <2>5. ~Remapping(q) /\ ~Uploading(q)
    BY <2>2 DEF Remapping, Uploading
  <2>6. Right(fac, env.range, worn', flash', bbt', q)
    <3> HIDE DEF p
    <3> QED BY <1>2, <1>5, <2>2, <2>3, <2>4, <2>5 DEF Right
  <2>7. \A u \in Callers : u # t /\ pc[u].at # "idle" /\ pc[u].op \in CallOps => pc[u].lb # q.lb
    BY <1>3, <2>2, <2>3
  <2> QED BY <1>2, <1>3, <1>6, <1>7, <1>8, <2>1, <2>2, <2>6, <2>7, HarmlessStep
<1>10. CASE ~MayRetry(p) /\ p.op = "repair" /\ Mapping(p.lb) # p.old
  <2>1. Go(t, r)
    BY <1>10 DEF Returns
  <2>2. /\ r \in Places /\ r.at = "new_erase" /\ r.op = p.op /\ r.lb = p.lb /\ r.old = p.old
        /\ r.again = p.again /\ r.new = Mapping(p.lb)
    BY <1>1, <1>4 DEF Places, Sites
  <2> HIDE DEF r
  <2>3. p.op \in CallOps /\ (p.again => p.op \in Accesses) /\ p.op \notin {"markbad", "write"}
    BY <1>3, <1>10 DEF Right, CallOps
  <2>4. p.lb \in UBlocks /\ Follows(worn, Own(fac, env.range, p.lb), p.old)
    BY <1>3, <2>3 DEF Right
  <2>5. Harmless(fac, worn, Mapping(p.lb))
    BY <1>5, <1>10, <2>4 DEF Follows, Harmless
  <2>6. Remapping(r) /\ ~Uploading(r)
    BY <2>2 DEF Remapping, Uploading
  <2>7. Right(fac, env.range, worn', flash', bbt', r)
    <3> HIDE DEF p
    <3> QED BY <1>2, <2>2, <2>3, <2>4, <2>5, <2>6 DEF Right
  <2>8. \A u \in Callers : u # t /\ pc[u].at # "idle" /\ pc[u].op \in CallOps => pc[u].lb # r.lb
    BY <1>3, <2>2, <2>3
  <2> QED BY <1>2, <1>3, <1>6, <1>7, <1>8, <2>1, <2>2, <2>7, <2>8, HarmlessStep
<1>11. CASE ~MayRetry(p) /\ ~(p.op = "repair" /\ Mapping(p.lb) # p.old)
  <2>1. Go(t, Rest)
    BY <1>11 DEF Returns
  <2>2. Rest \in Places /\ Rest.at = "idle"
    BY RestPlace
  <2> QED BY <1>2, <1>3, <1>6, <1>7, <1>8, <2>1, <2>2, HarmlessStep
<1> QED BY <1>9, <1>10, <1>11

\* The entries of a table up to the one of its index have blocks.
LEMMA IndexFound ==
  ASSUME NEW fac, NEW w, NEW x \in Bbbts, Sound(fac, w, x), BmtIndex(x.pool) # 0
  PROVE  UpTo(fac, x, BmtIndex(x.pool))
<1> DEFINE is(i) == x.pool[i].mapped = BMT_MAPPED /\ \A k \in 0 .. i : x.pool[k].block # 0
           found == {i \in PoolIdx : is(i)}
<1>1. found # {} /\ BmtIndex(x.pool) = Min(found)
  BY DEF BmtIndex
<1>2. found \in SUBSET Nat
  <2>1. found \subseteq PoolIdx
    OBVIOUS
  <2>2. PoolIdx \subseteq Nat
    BY Sizes
  <2> HIDE DEF found
  <2> QED BY <2>1, <2>2, Zenon
<1>3. Min(found) \in found
  <2> HIDE DEF found
  <2> QED BY <1>1, <1>2, MinFound
<1> DEFINE m == Min(found)
<1>4. m \in PoolIdx /\ \A k \in 0 .. m : x.pool[k].block # 0
  BY <1>3
<1> HIDE DEF m
<1>5. ASSUME NEW k \in PoolIdx, k <= m PROVE x.pool[k].block > Last(fac)
  <2>1. k \in 0 .. m
    BY <1>4, <1>5, Sizes DEF PoolIdx
  <2> QED BY <1>4, <2>1 DEF Sound
<1> QED BY <1>1, <1>5 DEF UpTo, m

\* mtk_bmt_init_v2 loads a table.
LEMMA AttachLoadPrefix ==
  ASSUME TypeInv, [Next]_vars, NEW fac, PrefixInv(fac), NEW t \in Callers, AttachLoad(t)
  PROVE  PrefixInv(fac)'
<1>1. /\ env'.range = env.range /\ env'.torn = env.torn /\ env'.callers = env.callers
      /\ env'.files = env.files
  BY EnvNext
<1>2. /\ UNCHANGED <<databuf, pc, flash, badmark, worn, want, env>>
      /\ mode = "off" /\ mode' = "run"
  BY DEF AttachLoad
<1>3. PICK ecc \in EccErrors : \E x \in LoadTable(ecc) : bbt' = x /\ idx' = BmtIndex(x.pool)
  BY DEF AttachLoad
<1>4. PICK b \in Blocks : /\ flash[b].kind = "table" /\ bbt' = flash[b].bbt
                          /\ idx' = BmtIndex(bbt'.pool) /\ idx' # 0
  <2> DEFINE valid == {b \in PoolLba .. NB - 1 : flash[b].kind = "table" /\ b \notin ecc}
             m == Max(valid)
  <2>1. /\ valid # {} /\ BmtIndex(flash[m].bbt.pool) # 0
        /\ bbt' = flash[m].bbt /\ idx' = BmtIndex(flash[m].bbt.pool)
    BY <1>3 DEF LoadTable
  <2>2. valid \in SUBSET Blocks
    BY Sizes DEF Blocks
  <2>3. m \in valid
    <3>1. valid \in SUBSET (0 .. NB - 1) /\ NB - 1 \in Nat
      BY Sizes
    <3> QED BY <2>1, <3>1, MaxFound
  <2>4. m \in Blocks /\ flash[m].kind = "table"
    BY <2>2, <2>3
  <2> HIDE DEF m
  <2> QED BY <2>1, <2>4
<1>5. AllIdle
  BY <1>2 DEF PrefixInv, CallsApart
<1>6. Chip(fac, env.range, env.files)
  BY <1>4 DEF PrefixInv, InUse, Waiting
<1>7. bbt' \in Bbbts /\ Sound(fac, worn, bbt')
  <2>1. flash[b] \in Contents
    BY DEF TypeInv, TypeOK
  <2> QED BY <1>4, <2>1, ContentKinds DEF PrefixInv, SoundFlash, SoundContent
<1>8. UpTo(fac, bbt', idx')
  BY <1>4, <1>7, IndexFound
<1>9. InUse(fac)'
  BY <1>2, <1>6, <1>7, <1>8 DEF InUse
<1>10. CallsApart' /\ Marks(fac)' /\ PrefixKept(fac)'
  BY <1>2 DEF PrefixInv, CallsApart, Marks, PrefixKept, AllIdle, Promised, Content
<1>11. \A u \in Callers : pc'[u].at = "idle"
  BY <1>2, <1>5 DEF AllIdle
<1>12. SoundFlash(fac, worn', flash') /\ SoundContent(fac, worn', databuf')
  BY <1>2 DEF PrefixInv
<1> QED BY <1>9, <1>10, <1>11, <1>12 DEF PrefixInv

\* mtk_bmt_init_v2 builds a table from the bad blocks.
LEMMA AttachScanPrefix ==
  ASSUME TypeInv, [Next]_vars, NEW fac, PrefixInv(fac), NEW t \in Callers, AttachScan(t)
  PROVE  PrefixInv(fac)'
<1>1. UNCHANGED <<databuf, flash, badmark, worn, want, env>> /\ mode = "off" /\ mode' = "boot"
  BY DEF AttachScan
<1>2. t \in env.callers
  BY DEF AttachScan
<1>3. PICK ecc \in EccErrors : \E s \in ScanBadBlocks(ReadsBad(ecc)) :
        bbt' = s.bbt /\ idx' = s.idx /\ Go(t, Upload(Rest, s.idx))
  BY DEF AttachScan
<1>4. PICK s \in ScanBadBlocks(ReadsBad(ecc)) :
        bbt' = s.bbt /\ idx' = s.idx /\ Go(t, Upload(Rest, s.idx))
  BY <1>3
<1> DEFINE bad == ReadsBad(ecc)
           q == Upload(Rest, s.idx)
<1>5. badmark \subseteq Blocks /\ worn \subseteq Blocks /\ pc \in [Callers -> Places]
  BY DEF TypeInv, TypeOK
<1>6. ecc \subseteq Blocks
  BY <1>5 DEF EccErrors
<1>7. Blocks \subseteq Nat
  BY Sizes
<1>8. bad \in SUBSET Nat /\ badmark \in SUBSET Nat
  BY <1>5, <1>6, <1>7 DEF ReadsBad
<1>9. Marks(fac) /\ CallsApart /\ SoundFlash(fac, worn, flash)
  BY DEF PrefixInv
<1>10. fac \subseteq badmark /\ 0 \notin fac /\ badmark \subseteq fac \union worn
  BY <1>9 DEF Marks
<1>11. fac \in SUBSET Nat /\ fac \subseteq bad
  BY <1>8, <1>10 DEF ReadsBad
<1>12. env.range \in SUBSET LBlocks
  <2>1. EnvOK(env)
    BY DEF TypeInv, TypeOK, EnvOK
  <2> QED BY <2>1, EnvFields
<1>13. \A r \in ScanBadBlocks(fac) :
         /\ Apart(r.bbt, env.range)
         /\ env.files \intersect {"mark_good", "repair"} # {} =>
              \A lb \in LBlocks : r.bbt.map[lb] = lb
  BY <1>9 DEF Marks
<1>14. s.idx \in PoolIdx
  BY ScanIdx
<1>a. s \in ScanBadBlocks(bad)
  BY <1>4
<1> HIDE DEF bad
<1>15. Chip(fac, env.range, env.files)
  BY <1>8, <1>10, <1>11, <1>12, <1>13, <1>a, ScanChip
<1>16. /\ \A lb \in LBlocks :
            /\ First(fac, lb) <= s.bbt.map[lb]
            /\ s.bbt.map[lb] = First(fac, lb)
               \/ \E d \in bad : d \notin fac /\ d <= First(fac, lb)
       /\ \A k \in PoolIdx :
            IF k <= s.idx THEN s.bbt.pool[k].block > Last(fac) ELSE s.bbt.pool[k].block = 0
  <2>1. PICK c : c = bad
    OBVIOUS
  <2>2. c \in SUBSET Nat /\ fac \subseteq c /\ s \in ScanBadBlocks(c)
    BY <1>8, <1>11, <1>a, <2>1
  <2>3. /\ \A k \in PoolIdx : k <= s.idx => s.bbt.pool[k].block > Last(fac)
        /\ \A k \in PoolIdx : ~(k <= s.idx) => s.bbt.pool[k].block = 0
    BY <2>2, ScanFollows
  <2>4. /\ \A lb \in LBlocks : First(fac, lb) <= s.bbt.map[lb]
        /\ \A lb \in LBlocks : s.bbt.map[lb] # First(fac, lb) =>
                                 \E d \in c : d \notin fac /\ d <= First(fac, lb)
    BY <2>2, ScanFollows
  <2> QED BY <2>1, <2>3, <2>4
<1>17. ASSUME NEW lb \in LBlocks PROVE Follows(worn, First(fac, lb), s.bbt.map[lb])
  <2> DEFINE f == First(fac, lb)
             m == s.bbt.map[lb]
  <2>1. f \in Nat /\ Last(fac) \in Nat /\ f <= Last(fac)
    BY <1>15, OwnHarmless
  <2>2. m \in Nat
    <3>1. s.bbt \in Bbbts
      BY ScanTypes
    <3>2. s.bbt.map \in [LBlocks -> Blocks]
      BY <3>1 DEF Bbbts
    <3> QED BY <1>7, <3>2
  <2>3. f <= m /\ (m = f \/ \E d \in bad : d \notin fac /\ d <= f)
    BY <1>16
  <2> HIDE DEF f, m
  <2>4. ASSUME NEW d \in bad, d \notin fac, d <= f
        PROVE  \E x \in worn : x <= f
    <3>1. d \in Nat
      BY <1>8, <2>4
    <3>2. CASE d \in worn
      BY <2>4, <3>2
    <3>3. CASE d \notin worn
      <4>1. d \in ecc
        BY <1>10, <2>4, <3>3 DEF bad, ReadsBad
      <4>2. d \in Blocks /\ flash[d] = Junk
        BY <3>3, <4>1 DEF EccErrors
      <4>3. Harmless(fac, worn, d)
        BY <1>9, <4>2 DEF SoundFlash
      <4>4. ~(d > Last(fac))
        BY <2>1, <2>4, <3>1
      <4>5. PICK x \in worn : x <= d
        BY <4>3, <4>4 DEF Harmless, Touched
      <4>6. x \in Nat
        BY <1>5, <1>7, <4>5
      <4>7. x <= f
        BY <2>1, <2>4, <3>1, <4>5, <4>6
      <4> QED BY <4>5, <4>7
    <3> QED BY <3>2, <3>3
  <2>5. ASSUME NEW x \in worn, x <= f PROVE x <= m
    <3>1. x \in Nat
      BY <1>5, <1>7, <2>5
    <3> QED BY <2>1, <2>2, <2>3, <2>5, <3>1
  <2> QED BY <2>3, <2>4, <2>5 DEF Follows, Touched, f, m
<1>18. Sound(fac, worn', bbt') /\ UpTo(fac, bbt', idx')
  BY <1>1, <1>4, <1>16, <1>17 DEF Sound, UpTo
<1>19. AllIdle
  BY <1>1, <1>9 DEF CallsApart
<1>20. /\ q \in Places /\ q.at = "bmt_erase" /\ q.op = "attach" /\ ~q.again /\ q.n = idx'
  BY <1>4, <1>14, RestPlace, UploadPlace
<1>21. Go(t, q)
  BY <1>4
<1> HIDE DEF q
<1>22. pc'[t] = q /\ \A u \in Callers : u # t => pc'[u] = pc[u]
  BY <1>5, <1>20, <1>21, GoFacts
<1>23. \A u \in Callers : u # t => pc'[u].at = "idle"
  BY <1>19, <1>22 DEF AllIdle
<1>24. Right(fac, env'.range, worn', flash', bbt', q)
  <2>1. Uploading(q) /\ ~Remapping(q) /\ q.op \notin CallOps
    BY <1>20 DEF Uploading, Remapping, CallOps, Accesses
  <2> QED BY <1>18, <1>20, <2>1 DEF Right
<1>25. InUse(fac)'
  BY <1>1, <1>15, <1>18 DEF InUse
<1>26. Marks(fac)' /\ PrefixKept(fac)'
  BY <1>1 DEF PrefixInv, Marks, PrefixKept, Promised, Content
<1>27. CallsApart'
  <2>1. \A u \in Callers : u \notin env'.callers => pc'[u].at = "idle"
    BY <1>1, <1>2, <1>23
  <2>2. env'.torn => \A u, v \in env'.callers : u = v
    BY <1>1, <1>9 DEF CallsApart
  <2>3. mode' # "off"
    BY <1>1
  <2>4. \A u, v \in Callers : pc'[u].at # "idle" /\ pc'[v].at # "idle" => u = v
    BY <1>23
  <2> QED BY <2>1, <2>2, <2>3, <2>4 DEF CallsApart
<1>28. SoundFlash(fac, worn', flash') /\ SoundContent(fac, worn', databuf')
  BY <1>1 DEF PrefixInv
<1>29. \A u \in Callers : pc'[u].at # "idle" =>
         Right(fac, env'.range, worn', flash', bbt', pc'[u])
  BY <1>22, <1>23, <1>24
<1> QED BY <1>25, <1>26, <1>27, <1>28, <1>29 DEF PrefixInv

\* mtk_bmt_init_v2 fails.
LEMMA AttachFailsPrefix ==
  ASSUME NEW fac, PrefixInv(fac), AttachFails
  PROVE  PrefixInv(fac)'
<1>1. /\ UNCHANGED <<bbt, idx, databuf, pc, flash, badmark, worn, want, env>>
      /\ mode = "off" /\ mode' = "dead"
  BY DEF AttachFails
<1>2. CallsApart
  BY DEF PrefixInv
<1>3. AllIdle
  BY <1>1, <1>2 DEF CallsApart
<1>4. AllIdle' /\ CallsApart'
  BY <1>1, <1>2, <1>3 DEF AllIdle, CallsApart
<1>5. Marks(fac)' /\ PrefixKept(fac)'
  BY <1>1 DEF PrefixInv, Marks, PrefixKept, Promised, Content
<1>6. SoundFlash(fac, worn', flash') /\ SoundContent(fac, worn', databuf')
  BY <1>1 DEF PrefixInv
<1>7. (InUse(fac) \/ Waiting(fac))'
  <2>1. ~Attached'
    BY <1>1 DEF Attached
  <2> QED BY <1>1, <1>4, <2>1 DEF PrefixInv, InUse, Waiting, Uploading
<1>8. \A t \in Callers : pc'[t].at = "idle"
  BY <1>4 DEF AllIdle
<1> QED BY <1>4, <1>5, <1>6, <1>7, <1>8 DEF PrefixInv

\* The power goes away.
LEMMA CrashPrefix ==
  ASSUME TypeInv, [Next]_vars, NEW fac, PrefixInv(fac), Crash
  PROVE  PrefixInv(fac)'
<1>1. /\ env'.range = env.range /\ env'.torn = env.torn /\ env'.callers = env.callers
      /\ env'.files = env.files
  BY EnvNext
<1>2. /\ badmark' = badmark /\ want' = want /\ mode' = "off" /\ databuf' = Erased
      /\ pc' = [t \in Callers |-> Rest]
  BY DEF Crash
<1>3. PICK torn \in SUBSET InFlight :
        /\ flash' = [b \in Blocks |-> IF b \in torn THEN Junk ELSE flash[b]]
        /\ worn' = worn \union torn
  BY DEF Crash
<1>4. worn \subseteq worn' /\ torn \subseteq worn' /\ torn \subseteq Blocks
  BY <1>3, InFlightType
<1>5. ASSUME NEW b \in torn PROVE Touched(worn', b)
  <2>1. b \in Blocks /\ b \in worn'
    BY <1>4, <1>5
  <2>2. b <= b
    BY <2>1, Sizes DEF Blocks
  <2> QED BY <2>1, <2>2 DEF Touched
<1>6. \A b \in Blocks : flash'[b] = IF b \in torn THEN Junk ELSE flash[b]
  BY <1>3
<1>7. AllIdle' /\ CallsApart'
  <2>1. \A t \in Callers : pc'[t].at = "idle"
    BY <1>2, RestPlace
  <2>2. env'.torn => \A t, u \in env'.callers : t = u
    BY <1>1 DEF PrefixInv, CallsApart
  <2> QED BY <2>1, <2>2 DEF AllIdle, CallsApart
<1>8. Marks(fac)'
  <2>1. Marks(fac)
    BY DEF PrefixInv
  <2>2. \A r \in ScanBadBlocks(fac) :
           /\ Apart(r.bbt, env'.range)
           /\ env'.files \intersect {"mark_good", "repair"} # {} =>
                \A lb \in LBlocks : r.bbt.map[lb] = lb
    BY <1>1, <2>1 DEF Marks
  <2>3. 0 \notin fac /\ fac \subseteq badmark' /\ badmark' \subseteq fac \union worn'
    BY <1>2, <1>4, <2>1 DEF Marks
  <2> QED BY <2>2, <2>3 DEF Marks
<1>9. SoundFlash(fac, worn', flash')
  <2>1. ASSUME NEW b \in Blocks
        PROVE  SoundContent(fac, worn', flash'[b]) /\ (flash'[b] = Junk => Harmless(fac, worn', b))
    <3>1. CASE b \in torn
      BY <1>5, <1>6, <3>1, ContentKinds DEF SoundContent, Harmless
    <3>2. CASE b \notin torn
      <4>1. flash'[b] = flash[b]
        BY <1>6, <3>2
      <4>2. SoundContent(fac, worn, flash[b]) /\ (flash[b] = Junk => Harmless(fac, worn, b))
        BY DEF PrefixInv, SoundFlash
      <4> QED BY <1>4, <4>1, <4>2, Wider
    <3> QED BY <3>1, <3>2
  <2> QED BY <2>1 DEF SoundFlash
<1>10. PrefixKept(fac)'
  <2>1. ASSUME NEW lb \in UBlocks, Promised(lb)', ~Touched(worn', Own(fac, env.range, lb))
        PROVE  flash'[Own(fac, env.range, lb)] = Content(lb)'
    <3> DEFINE o == Own(fac, env.range, lb)
    <3>1. o \in Blocks
      <4>1. lb \in LBlocks /\ LBlocks \subseteq Blocks
        BY Sizes
      <4>2. lb \in Nat
        BY <4>1, Sizes DEF LBlocks
      <4> QED BY <4>1, <4>2, NthBlock DEF Own, First
    <3>2. o \notin torn /\ ~Touched(worn, o)
      BY <1>4, <1>5, <2>1, Wider
    <3>3. Promised(lb) /\ Content(lb)' = Content(lb)
      BY <1>2, <2>1 DEF Promised, Content
    <3>4. flash[o] = Content(lb)
      BY <3>2, <3>3 DEF PrefixInv, PrefixKept
    <3> HIDE DEF o
    <3>5. flash'[o] = Content(lb)'
      BY <1>6, <3>1, <3>2, <3>3, <3>4
    <3> QED BY <3>5 DEF o
  <2> QED BY <1>1, <2>1 DEF PrefixKept
<1>11. SoundContent(fac, worn', databuf')
  BY <1>2, ContentKinds DEF SoundContent
<1>12. Waiting(fac)'
  <2>1. ~Attached'
    BY <1>2 DEF Attached
  <2>2. CASE Chip(fac, env.range, env.files)
    BY <1>1, <1>7, <2>1, <2>2 DEF Waiting
  <2>3. CASE \A b \in Blocks : flash[b].kind # "table"
    <3>1. \A b \in Blocks : flash'[b].kind # "table"
      BY <1>6, <2>3, ContentKinds
    <3> QED BY <1>7, <2>1, <3>1 DEF Waiting
  <2> QED BY <2>2, <2>3 DEF PrefixInv, InUse, Waiting
<1>13. \A t \in Callers : pc'[t].at = "idle"
  BY <1>7 DEF AllIdle
<1> QED BY <1>7, <1>8, <1>9, <1>10, <1>11, <1>12, <1>13 DEF PrefixInv

\* A new chip.
LEMMA InitPrefix ==
  ASSUME SteadyUse, Init
  PROVE  \E fac \in SUBSET Blocks : PrefixInv(fac)
<1>1. PICK s \in Settings : badmark \in s.bad /\ env = [s EXCEPT !.bad = {}]
  BY DEF Init
<1>2. s \in SettingRecords
  BY BmtV2Assumption
<1>3. env.range = s.range /\ env.torn = s.torn /\ env.callers = s.callers /\ env.files = s.files
  BY <1>1, <1>2 DEF SettingRecords
<1>4. badmark \in SUBSET (1 .. NB - 1)
  BY <1>1, <1>2 DEF SettingRecords
<1>5. badmark \in SUBSET Blocks /\ 0 \notin badmark
  BY <1>4, Sizes DEF Blocks
<1>6. Steady(s)
  BY DEF SteadyUse
<1>7. PICK fac : fac = badmark
  OBVIOUS
<1>8. Marks(fac)
  BY <1>1, <1>3, <1>5, <1>6, <1>7 DEF Marks, Steady
<1>9. \A t \in Callers : pc[t].at = "idle"
  BY RestPlace DEF Init
<1>10. AllIdle /\ CallsApart
  BY <1>3, <1>6, <1>9 DEF AllIdle, CallsApart, Steady
<1>11. \A b \in Blocks : flash[b] = Erased
  BY DEF Init
<1>12. SoundFlash(fac, worn, flash) /\ SoundContent(fac, worn, databuf)
  BY <1>11, ContentKinds DEF Init, SoundFlash, SoundContent
<1>13. PrefixKept(fac)
  <2>1. ASSUME NEW lb \in UBlocks
        PROVE  flash[Own(fac, env.range, lb)] = Content(lb)
    <3>1. lb \in LBlocks /\ LBlocks \subseteq Blocks
      BY Sizes
    <3>2. lb \in Nat
      BY <3>1, Sizes DEF LBlocks
    <3>3. Own(fac, env.range, lb) \in Blocks
      BY <3>1, <3>2, NthBlock DEF Own, First
    <3>4. Content(lb) = Erased
      BY DEF Init, Content
    <3> QED BY <1>11, <3>3, <3>4
  <2> QED BY <2>1 DEF PrefixKept
<1>14. Waiting(fac)
  <2>1. ~Attached
    BY DEF Init, Attached
  <2>2. \A b \in Blocks : flash[b].kind # "table"
    BY <1>11, ContentKinds
  <2> QED BY <1>10, <2>1, <2>2 DEF Waiting
<1>15. PrefixInv(fac)
  BY <1>8, <1>9, <1>10, <1>12, <1>13, <1>14 DEF PrefixInv
<1> QED BY <1>5, <1>7, <1>15

\* Every step keeps what is in front of the blocks that have failed.
LEMMA PrefixNext ==
  ASSUME TypeInv, [Next]_vars, NEW fac, PrefixInv(fac)
  PROVE  PrefixInv(fac)'
<1>1. CASE UNCHANGED vars
  <2>1. UNCHANGED <<mode, bbt, idx, databuf, pc, flash, badmark, worn, want, env>>
    BY <1>1 DEF vars
  <2>2. Marks(fac)' /\ CallsApart' /\ PrefixKept(fac)'
    BY <2>1 DEF PrefixInv, Marks, CallsApart, AllIdle, PrefixKept, Promised, Content
  <2>3. (InUse(fac) \/ Waiting(fac))'
    BY <2>1 DEF PrefixInv, InUse, Waiting, AllIdle, Attached, Uploading
  <2> QED BY <2>1, <2>2, <2>3 DEF PrefixInv
<1>2. CASE AttachFails
  BY <1>2, AttachFailsPrefix
<1>3. CASE Crash
  BY <1>3, CrashPrefix
<1>4. ASSUME NEW t \in Callers, Driver(t) PROVE PrefixInv(fac)'
  BY <1>4, AttachLoadPrefix, AttachScanPrefix, UploadFailsPrefix, BmtErasePrefix,
     BmtWritePrefix, RemapRefusedPrefix, FindEntryPrefix, TakeEntryPrefix, NewErasePrefix,
     CopyReadPrefix, CopyWritePrefix, AccessPrefix, IsBadPrefix, ReturnsPrefix
     DEF Driver, Attach
<1>5. ASSUME NEW t \in Callers, Fault(t) PROVE PrefixInv(fac)'
  BY <1>5, UploadRetriesPrefix, NewFailsPrefix, AccessFailsPrefix DEF Fault
<1>6. ASSUME NEW t \in Callers, User(t) PROVE PrefixInv(fac)'
  <2>1. CASE Free(t)
    BY <2>1, FreePrefix
  <2>2. ASSUME NEW lb \in UBlocks, NEW op \in {"read", "write", "erase", "isbad"},
               Start(t, op, lb)
        PROVE  PrefixInv(fac)'
    BY <2>2, StartPrefix DEF Accesses
  <2>3. ASSUME NEW lb \in UBlocks, NEW op \in {"markbad", "mark_bad"}, MarkBad(t, op, lb)
        PROVE  PrefixInv(fac)'
    BY <2>3, MarkBadPrefix
  <2>4. ASSUME NEW lb \in UBlocks, NEW op \in env.files \intersect {"mark_good", "repair"},
               Unmap(t, op, lb)
        PROVE  PrefixInv(fac)'
    BY <2>4, UnmapPrefix
  <2> QED BY <1>6, <2>1, <2>2, <2>3, <2>4 DEF User
<1> QED BY <1>1, <1>2, <1>3, <1>4, <1>5, <1>6 DEF Next

\* In steady use, what has been written into a logic block whose block is in front of all
\* blocks that have ever failed is in that block: even when tables fail or are cut off
\* and attach loads an old one or scans the chip again, or when several callers are
\* inside and the table does not fail.
THEOREM PrefixPreserved ==
  ASSUME SteadyUse
  PROVE  Spec => []PrefixSafe
<1> DEFINE Inv == TypeInv /\ \E fac \in SUBSET Blocks : PrefixInv(fac)
<1>1. Init => Inv
  BY InitTypes, InitPrefix
<1>2. Inv /\ [Next]_vars => Inv'
  <2> SUFFICES ASSUME Inv, [Next]_vars PROVE Inv'
    OBVIOUS
  <2>1. PICK fac \in SUBSET Blocks : PrefixInv(fac)
    OBVIOUS
  <2>2. PrefixInv(fac)' /\ TypeInv'
    BY <2>1, PrefixNext, TypesStep
  <2> QED BY <2>2
<1>3. Inv => PrefixSafe
  <2> SUFFICES ASSUME Inv, Running, NEW lb \in UBlocks, want[lb].st = "data",
                      \A b \in worn : Mapping(lb) < b
               PROVE  Stored(lb)
    BY DEF PrefixSafe
  <2>1. PICK fac \in SUBSET Blocks : PrefixInv(fac)
    OBVIOUS
  <2>2. InUse(fac)
    BY <2>1 DEF PrefixInv, Waiting, Running, Attached
  <2>3. lb \in LBlocks
    BY Sizes
  <2> DEFINE m == Mapping(lb)
  <2>4. m \in Blocks
    BY <2>3, MappingType DEF TypeInv, TypeOK
  <2>5. ~Touched(worn, m)
    <3>1. Blocks \subseteq Nat /\ worn \subseteq Blocks
      BY Sizes DEF TypeInv, TypeOK
    <3>2. ASSUME NEW x \in worn, x <= m PROVE FALSE
      <4>1. m < x /\ x \in Nat /\ m \in Nat
        BY <2>4, <3>1
      <4> HIDE DEF m
      <4> QED BY <3>2, <4>1
    <3> QED BY <3>2 DEF Touched
  <2>6. m = Own(fac, env.range, lb)
    BY <2>2, <2>3, <2>5, MappingFollows DEF Follows
  <2>7. flash[m] = Content(lb)
    BY <2>1, <2>5, <2>6 DEF PrefixInv, PrefixKept, Promised
  <2> QED BY <2>7 DEF Content, Stored
<1> QED BY <1>1, <1>2, <1>3, PTL DEF Spec

=============================================================================
