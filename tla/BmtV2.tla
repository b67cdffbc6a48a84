------------------------------- MODULE BmtV2 -------------------------------
(***************************************************************************)
(* The v2 flavour of the MediaTek bad block manager (mtk_bmt_v2.c) under   *)
(* the MTD operations and debugfs files of mtk_bmt.c.  One table holds the *)
(* mapping bb_tbl and the pool bmt_tbl; it is erased and written in place. *)
(*                                                                         *)
(* mtk_bmt.c takes no lock, so several callers may be inside at a time.    *)
(* They share bmtd: the table, its index and the page buffer data_buf.     *)
(* One step of a caller is one flash operation with the computation around *)
(* it; taking a block from the pool has two steps, since nothing keeps     *)
(* another caller out between looking at an entry and marking it.          *)
(*                                                                         *)
(* Pages are not modelled: a block is written by one call, from offset 0.  *)
(***************************************************************************)
EXTENDS Integers, FiniteSets, FiniteSetsExt, Ranks

CONSTANTS
  NB,            \* total_blks
  PoolLba,       \* pool_lba; the last two logic blocks are the PMT
  BbMax,         \* bb_max
  MaxRetry,      \* the limit of retry_count, 10 in the code
  Callers,       \* threads that may be inside mtk_bmt.c
  MaxVersion,    \* bound on the versions of the data in a logic block
  Settings       \* settings to consider

Blocks  == 0 .. NB - 1
LBlocks == 0 .. PoolLba - 1
UBlocks == 0 .. PoolLba - 3        \* mtd->size ends before the PMT
PoolIdx == 0 .. NB - PoolLba - 1
NoIdx   == 65535                   \* (u16)-1

\* range: the logic blocks inside mediatek,bmt-remap-range; bad: the sets of
\* blocks that may be marked bad on a new chip, on which block 0 is guaranteed
\* good; fail: the blocks that may fail later; torn: whether writing the table may
\* fail or be cut off; faults and crashes: the failures and power losses that may
\* come; callers: the threads; files: the debugfs files in use.
SettingRecords ==
  [range: SUBSET LBlocks, bad: SUBSET SUBSET (1 .. NB - 1), fail: SUBSET Blocks,
   torn: BOOLEAN, faults: Nat, crashes: Nat, callers: SUBSET Callers,
   files: SUBSET {"mark_bad", "mark_good", "repair", "free"}]

ASSUME BmtV2Assumption ==
  /\ PoolLba \in Nat /\ PoolLba > 2
  /\ NB \in Nat /\ NB > PoolLba /\ NB < 65535
  /\ BbMax \in Nat /\ MaxRetry \in Nat /\ MaxVersion \in Nat
  /\ Settings \subseteq SettingRecords

VARIABLES
  mode,       \* "off", "boot", "run" or "dead" (attach has failed)
  bbt,        \* struct bbbt in memory
  idx,        \* bmt_blk_idx
  databuf,    \* data_buf, as the content last copied
  pc,         \* where each caller is, with its local variables
  flash,      \* content of each block
  badmark,    \* blocks marked bad in their spare area
  worn,       \* history: blocks that have failed, been torn or remapped
  want,       \* what each logic block has to return
  env         \* the setting, with the failures and power losses still to come

vars == <<mode, bbt, idx, databuf, pc, flash, badmark, worn, want, env>>

NO_MAPPED     == 0
NORMAL_MAPPED == 1
BMT_MAPPED    == 2

Entries == [block: Blocks, mapped: {NO_MAPPED, NORMAL_MAPPED, BMT_MAPPED}]
Bbbts   == [map: [LBlocks -> Blocks], pool: [PoolIdx -> Entries]]

\* Content of a block.
Erased == [kind |-> "erased"]
Junk   == [kind |-> "junk"]        \* a torn or failed erase or write
Table(t) == [kind |-> "table", bbt |-> t]
Data(lb, v) == [kind |-> "data", lb |-> lb, v |-> v]
Contents == {Erased, Junk} \union [kind: {"table"}, bbt: Bbbts]
              \union [kind: {"data"}, lb: LBlocks, v: 0 .. MaxVersion]

Ops == {"read", "write", "erase", "isbad", "markbad", "attach",
        "mark_bad", "mark_good", "repair", "free"}
Sites == {"idle", "access", "find", "take", "new_erase", "copy_read", "copy_write",
          "bmt_erase", "bmt_write", "return"}
Places == [at: Sites, op: Ops, lb: LBlocks, old: Blocks, new: Blocks,
           n: PoolIdx \union {-1, NoIdx}, copy: BOOLEAN, again: BOOLEAN, retry: 0 .. MaxRetry]
Rest == [at |-> "idle", op |-> "attach", lb |-> 0, old |-> 0, new |-> 0, n |-> 0,
         copy |-> FALSE, again |-> FALSE, retry |-> 0]

\* A setting with f failures and c power losses still to come.
Left(s, f, c) == [s EXCEPT !.bad = {}, !.faults = f, !.crashes = c]

TypeOK ==
  /\ mode \in {"off", "boot", "run", "dead"}
  /\ bbt \in Bbbts
  /\ idx \in PoolIdx \union {NoIdx}
  /\ databuf \in Contents
  /\ pc \in [Callers -> Places]
  /\ flash \in [Blocks -> Contents]
  /\ badmark \subseteq Blocks /\ worn \subseteq Blocks
  /\ want \in [UBlocks -> [st: {"none", "erased", "data"}, v: 0 .. MaxVersion]]
  /\ \E s \in Settings :
       \E f \in 0 .. s.faults, c \in 0 .. s.crashes : env = Left(s, f, c)

Fresh == [map |-> [lb \in LBlocks |-> 0],
          pool |-> [i \in PoolIdx |-> [block |-> 0, mapped |-> NO_MAPPED]]]

\* One of the failures that may come.
MayFail(b) == b \in env.fail /\ env.faults > 0
OneFault == env' = [env EXCEPT !.faults = @ - 1]

Go(t, p) == pc' = [pc EXCEPT ![t] = p]

\* A program operation needs an erased block.
Programmed(b, c) == IF flash[b] = Erased THEN c ELSE Junk

\* get_mapping_block_index_v2 and mapping_block_in_range
Mapping(lb) == IF lb \in env.range THEN bbt.map[lb] ELSE lb

-----------------------------------------------------------------------------
(* Attach: mtk_bmt_init_v2. *)

\* What find_valid_block returns when it is called again and again, each time for
\* the block behind the last one, with bad the blocks that read as bad: it gives
\* up when there are more than BbMax of them in a row.  The first one is block 0.
ValidBlocks(bad) ==
  {0} \union {b \in 1 .. NB - 1 :
               /\ b \notin bad
               /\ \A c \in 1 .. b - 1 - BbMax : \E d \in c .. c + BbMax : d \notin bad}

\* scan_bad_blocks: the table and the index, or nothing if it fails.  The two
\* loops go through the valid blocks in order.
ScanBadBlocks(bad) ==
  LET valid == ValidBlocks(bad)
      avail == Cardinality(valid) - PoolLba
      entry(i) == [block |-> Nth(valid, PoolLba + i),
                   mapped |-> IF i = avail - 1 THEN BMT_MAPPED ELSE NO_MAPPED]
  IN  IF avail < 1 \/ Nth(valid, PoolLba - 1) + 1 >= NB - 2 THEN {}
      ELSE {[bbt |-> [map |-> [i \in LBlocks |-> Nth(valid, i)],
                      pool |-> [i \in PoolIdx |-> entry(i)]],
             idx |-> avail - 1]}

\* get_bmt_index
BmtIndex(pool) ==
  LET is(i) == pool[i].mapped = BMT_MAPPED /\ \A k \in 0 .. i : pool[k].block # 0
      found == {i \in PoolIdx : is(i)}
  IN  IF found = {} THEN 0 ELSE Min(found)

\* The table nearest the end of the flash that reads without an error and
\* whose index is not 0: what the search of mtk_bmt_init_v2 loads.  A table is whole
\* or not there; is_valid_bmt looks at its first page only, so that one which was
\* cut off behind that page would be taken for a table, which is not modelled.
LoadTable(ecc) ==
  LET valid == {b \in PoolLba .. NB - 1 : flash[b].kind = "table" /\ b \notin ecc}
  IN  IF valid = {} \/ BmtIndex(flash[Max(valid)].bbt.pool) = 0 THEN {}
      ELSE {flash[Max(valid)].bbt}

\* Blocks that may read with an uncorrectable error.
EccErrors == SUBSET (worn \union {b \in Blocks : flash[b] = Junk})

\* Mutant: a block with content is taken for a bad one.
ReadsBadFilled(ecc) == badmark \union ecc \union {b \in Blocks : flash[b] # Erased}

\* The blocks that find_valid_block skips: marked ones, and those whose spare area
\* cannot be read.
ReadsBad(ecc) == badmark \union ecc

AttachLoad(t) ==
  /\ mode = "off" /\ t \in env.callers
  /\ \E ecc \in EccErrors : \E b \in LoadTable(ecc) :
       bbt' = b /\ idx' = BmtIndex(b.pool)
  /\ mode' = "run"
  /\ UNCHANGED <<databuf, pc, flash, badmark, worn, want, env>>

\* upload_bmt(bbt, n) by the caller at p, entered in front of the retry label.
Upload(p, n) == [p EXCEPT !.at = "bmt_erase", !.n = n]

AttachScan(t) ==
  /\ mode = "off" /\ t \in env.callers
  /\ \E ecc \in EccErrors :
       /\ LoadTable(ecc) = {}
       /\ \E s \in ScanBadBlocks(ReadsBad(ecc)) :
            /\ bbt' = s.bbt /\ idx' = s.idx
            /\ Go(t, Upload(Rest, s.idx))
  /\ mode' = "boot"
  /\ UNCHANGED <<databuf, flash, badmark, worn, want, env>>

AttachFails ==
  /\ mode = "off"
  /\ \E ecc \in EccErrors :
       LoadTable(ecc) = {} /\ ScanBadBlocks(ReadsBad(ecc)) = {}
  /\ mode' = "dead"
  /\ UNCHANGED <<bbt, idx, databuf, pc, flash, badmark, worn, want, env>>

-----------------------------------------------------------------------------
(* upload_bmt *)

NoSpace(p) == p.n \in PoolIdx => bbt.pool[p.n].mapped = NORMAL_MAPPED

UploadFails(t) ==
  /\ pc[t].at = "bmt_erase" /\ NoSpace(pc[t])
  /\ idx' = NoIdx
  /\ Go(t, [pc[t] EXCEPT !.at = "return"])
  /\ UNCHANGED <<mode, bbt, databuf, flash, badmark, worn, want, env>>

BmtErase(t) ==
  LET p == pc[t] IN
  /\ p.at = "bmt_erase" /\ ~NoSpace(p)
  /\ flash' = [flash EXCEPT ![bbt.pool[p.n].block] = Erased]
  /\ Go(t, [p EXCEPT !.at = "bmt_write", !.new = bbt.pool[p.n].block])
  /\ UNCHANGED <<mode, bbt, idx, databuf, badmark, worn, want, env>>

\* Mutant: the table is written before the change it is to record.
BmtWriteOld(t) ==
  LET p == pc[t] IN
  /\ p.at = "bmt_write"
  /\ flash' = [flash EXCEPT ![p.new] =
                 Programmed(p.new, Table([bbt EXCEPT !.map[p.lb] = p.old]))]
  /\ idx' = p.n
  /\ Go(t, [p EXCEPT !.at = "return"])
  /\ UNCHANGED <<mode, bbt, databuf, badmark, worn, want, env>>

BmtWrite(t) ==
  LET p == pc[t] IN
  /\ p.at = "bmt_write"
  /\ flash' = [flash EXCEPT ![p.new] = Programmed(p.new, Table(bbt))]
  /\ idx' = p.n
  /\ Go(t, [p EXCEPT !.at = "return"])
  /\ UNCHANGED <<mode, bbt, databuf, badmark, worn, want, env>>

\* Erasing or writing the table fails: the entry is cleared, and the block
\* before it is tried.
UploadRetries(t) ==
  LET p == pc[t]
      b == IF p.at = "bmt_erase" THEN bbt.pool[p.n].block ELSE p.new
  IN  /\ p.at \in {"bmt_erase", "bmt_write"} /\ ~NoSpace(p)
      /\ env.torn /\ MayFail(b)
      /\ \E c \in {flash[b], Junk} : flash' = [flash EXCEPT ![b] = c]
      /\ bbt' = [bbt EXCEPT !.pool[p.n].block = 0]
      /\ Go(t, Upload(p, p.n - 1))
      /\ worn' = worn \union {b}
      /\ OneFault
      /\ UNCHANGED <<mode, idx, databuf, badmark, want>>

-----------------------------------------------------------------------------
(* remap_block_v2 and bbt_nand_copy *)

\* find_valid_block_in_pool: the entries that may be taken.  What a search
\* with the index NoIdx reads behind the table is not modelled.
FreeEntries == {i \in PoolIdx : /\ i < idx
                                /\ bbt.pool[i].block # 0
                                /\ bbt.pool[i].mapped = NO_MAPPED}

\* mtk_bmt_remap_block refuses, or the pool is run out.
RemapRefused(t) ==
  LET p == pc[t] IN
  /\ p.at = "find" /\ (p.lb \notin env.range \/ FreeEntries = {}) /\ idx # NoIdx
  /\ Go(t, [p EXCEPT !.at = "return", !.again = FALSE])
  /\ UNCHANGED <<mode, bbt, idx, databuf, flash, badmark, worn, want, env>>

FindEntry(t) ==
  LET p == pc[t] IN
  /\ p.at = "find" /\ p.lb \in env.range /\ FreeEntries # {} /\ idx # NoIdx
  /\ Go(t, [p EXCEPT !.at = "take", !.n = Min(FreeEntries)])
  /\ UNCHANGED <<mode, bbt, idx, databuf, flash, badmark, worn, want, env>>

\* Mutant: the entry taken is not marked.
TakeEntryUnmarked(t) ==
  LET p == pc[t] IN
  /\ p.at = "take"
  /\ bbt' = [bbt EXCEPT !.map[p.lb] = bbt.pool[p.n].block]
  /\ Go(t, [p EXCEPT !.at = "new_erase", !.new = bbt.pool[p.n].block])
  /\ UNCHANGED <<mode, idx, databuf, flash, badmark, worn, want, env>>

\* remap_block_v2 goes on with the block of the entry, unless another caller's
\* upload_bmt has cleared it meanwhile.
TakeEntry(t) ==
  LET p == pc[t]
      b == bbt.pool[p.n].block
  IN  /\ p.at = "take"
      /\ bbt' = [bbt EXCEPT !.pool[p.n].mapped = NORMAL_MAPPED,
                            !.map[p.lb] = IF b = 0 THEN @ ELSE b]
      /\ Go(t, IF b = 0 THEN [p EXCEPT !.at = "return", !.again = FALSE]
               ELSE [p EXCEPT !.at = "new_erase", !.new = b])
      /\ UNCHANGED <<mode, idx, databuf, flash, badmark, worn, want, env>>

\* After erasing the new block.
AfterErase(p) == IF p.copy THEN [p EXCEPT !.at = "copy_read"] ELSE Upload(p, idx)

\* After copying to it: remap_block_v2 writes the table, repair is done.
AfterCopy(p) == IF p.op = "repair" THEN Rest ELSE Upload(p, idx)

\* bbt_nand_erase of the new block; its result is ignored.
NewErase(t) ==
  /\ pc[t].at = "new_erase"
  /\ flash' = [flash EXCEPT ![pc[t].new] = Erased]
  /\ Go(t, AfterErase(pc[t]))
  /\ UNCHANGED <<mode, bbt, idx, databuf, badmark, worn, want, env>>

\* The first half of bbt_nand_copy; an unreadable page ends it.
CopyRead(t) ==
  LET p == pc[t]
      ok == flash[p.old] # Junk
  IN  /\ p.at = "copy_read"
      /\ databuf' = IF ok THEN flash[p.old] ELSE databuf
      /\ Go(t, IF ok THEN [p EXCEPT !.at = "copy_write"] ELSE AfterCopy(p))
      /\ UNCHANGED <<mode, bbt, idx, flash, badmark, worn, want, env>>

CopyWrite(t) ==
  LET p == pc[t] IN
  /\ p.at = "copy_write"
  /\ flash' = [flash EXCEPT ![p.new] =
                 IF databuf = Erased THEN @ ELSE Programmed(p.new, databuf)]
  /\ Go(t, AfterCopy(p))
  /\ UNCHANGED <<mode, bbt, idx, databuf, badmark, worn, want, env>>

\* The new block fails; nobody looks at the result.
NewFails(t) ==
  LET p == pc[t] IN
  /\ p.at \in {"new_erase", "copy_write"}
  /\ MayFail(p.new)
  /\ flash' = [flash EXCEPT ![p.new] = Junk]
  /\ Go(t, IF p.at = "new_erase" THEN AfterErase(p) ELSE AfterCopy(p))
  /\ worn' = worn \union {p.new}
  /\ OneFault
  /\ UNCHANGED <<mode, bbt, idx, databuf, badmark, want>>

-----------------------------------------------------------------------------
(* The MTD operations of mtk_bmt.c.  A user does not start an operation on *)
(* a logic block while another one is under way, and erases before he      *)
(* writes.                                                                 *)

Busy(lb) == \E t \in Callers : pc[t].at # "idle" /\ pc[t].lb = lb

Ready(t) == mode = "run" /\ t \in env.callers /\ pc[t].at = "idle"
Calls(t, lb) == Ready(t) /\ ~Busy(lb)

Promise(lb, st, v) == want' = [want EXCEPT ![lb] = [st |-> st, v |-> v]]

\* mtk_bmt_read, mtk_bmt_write, mtk_bmt_mtd_erase and mtk_bmt_block_isbad up
\* to the operation of the chip.
Start(t, op, lb) ==
  /\ Calls(t, lb)
  /\ op = "write" => want[lb].st = "erased" /\ want[lb].v < MaxVersion
  /\ Go(t, [Rest EXCEPT !.at = "access", !.op = op, !.lb = lb, !.old = Mapping(lb)])
  /\ IF op \in {"read", "isbad"} THEN UNCHANGED want ELSE Promise(lb, "none", want[lb].v)
  /\ UNCHANGED <<mode, bbt, idx, databuf, flash, badmark, worn, env>>

\* The operation of the chip succeeds and the call returns.
Access(t) ==
  LET p == pc[t] IN
  /\ p.at = "access"
  /\ p.op = "isbad" => p.old \notin badmark
  /\ flash' = CASE p.op = "erase" -> [flash EXCEPT ![p.old] = Erased]
                [] p.op = "write" ->
                     [flash EXCEPT ![p.old] =
                        Programmed(p.old, Data(p.lb, want[p.lb].v + 1))]
                [] OTHER -> flash
  /\ CASE p.op = "erase" -> Promise(p.lb, "erased", want[p.lb].v)
       [] p.op = "write" -> Promise(p.lb, "data", want[p.lb].v + 1)
       [] OTHER -> UNCHANGED want
  /\ Go(t, Rest)
  /\ UNCHANGED <<mode, bbt, idx, databuf, badmark, worn, env>>

\* mtk_bmt_block_isbad finds a mark: remap and look again.
IsBad(t) ==
  LET p == pc[t] IN
  /\ p.at = "access" /\ p.op = "isbad" /\ p.old \in badmark
  /\ Go(t, [p EXCEPT !.at = "find", !.copy = TRUE, !.again = TRUE])
  /\ UNCHANGED <<mode, bbt, idx, databuf, flash, badmark, worn, want, env>>

\* The operation of the chip fails and the block is remapped.  A page that
\* cannot be read is lost; what a failed erase or write leaves is unknown.
AccessFails(t) ==
  LET p == pc[t] IN
  /\ p.at = "access" /\ p.op # "isbad"
  /\ MayFail(p.old)
  /\ \E c \in {flash[p.old], Junk} :
       /\ p.op = "read" => c = Junk
       /\ flash' = [flash EXCEPT ![p.old] = c]
  /\ IF p.op = "read" THEN Promise(p.lb, "none", want[p.lb].v) ELSE UNCHANGED want
  /\ Go(t, [p EXCEPT !.at = "find", !.copy = p.op = "read", !.again = TRUE])
  /\ worn' = worn \union {p.old}
  /\ OneFault
  /\ UNCHANGED <<mode, bbt, idx, databuf, badmark>>

\* A read returns data with bitflip_threshold or more bitflips: the block is
\* remapped and the read is complete.
Bitflips(t) ==
  LET p == pc[t] IN
  /\ p.at = "access" /\ p.op = "read"
  /\ MayFail(p.old)
  /\ Go(t, [p EXCEPT !.at = "find", !.copy = TRUE])
  /\ worn' = worn \union {p.old}
  /\ OneFault
  /\ UNCHANGED <<mode, bbt, idx, databuf, flash, badmark, want>>

\* mtk_bmt_block_markbad, and the debugfs file mark_bad.
MarkBad(t, op, lb) ==
  /\ op = "markbad" => MayFail(Mapping(lb))
  /\ Calls(t, lb)
  /\ Go(t, [Rest EXCEPT !.at = "find", !.op = op, !.lb = lb, !.old = Mapping(lb),
                        !.copy = TRUE])
  /\ worn' = worn \union {Mapping(lb)}
  /\ IF op = "markbad" THEN OneFault ELSE UNCHANGED env
  /\ UNCHANGED <<mode, bbt, idx, databuf, flash, badmark, want>>

\* unmap_block_v2, for the debugfs files mark_good and repair.  mark_good
\* gives up what the logic block holds.
Unmap(t, op, lb) ==
  /\ Calls(t, lb) /\ idx # NoIdx
  /\ bbt' = [bbt EXCEPT !.map[lb] = lb]
  /\ Go(t, Upload([Rest EXCEPT !.op = op, !.lb = lb, !.old = Mapping(lb),
                               !.copy = op = "repair"], idx))
  /\ IF op = "mark_good" THEN Promise(lb, "none", want[lb].v) ELSE UNCHANGED want
  /\ UNCHANGED <<mode, idx, databuf, flash, badmark, worn, env>>

\* mtk_bmt_get_mapping_mask
MappingMask ==
  {k \in PoolIdx : /\ k < idx
                   /\ \E i \in 1 .. PoolLba - 3 :
                        bbt.map[i] # i /\ bbt.map[i] = bbt.pool[k].block}

\* mtk_bmt_debug_v2, value 100: free the blocks of the pool not in use.
Free(t) ==
  LET freed == {i \in PoolIdx : /\ i <= idx /\ i \notin MappingMask
                                /\ bbt.pool[i].mapped = NORMAL_MAPPED}
  IN  /\ Ready(t) /\ idx # NoIdx /\ freed # {}
      /\ bbt' = [bbt EXCEPT !.pool =
                   [i \in PoolIdx |-> IF i \in freed
                                      THEN [block |-> @[i].block, mapped |-> NO_MAPPED]
                                      ELSE @[i]]]
      /\ Go(t, Upload([Rest EXCEPT !.op = "free"], idx))
      /\ UNCHANGED <<mode, idx, databuf, flash, badmark, worn, want, env>>

\* Mutant: the retries are not counted.
MayRetryForever(p) == p.again

\* remap_block() && retry_count++ < 10
MayRetry(p) == p.again /\ p.retry < MaxRetry

\* Mutant: the retry works on the block looked up before.
RetryStale(p) == [p EXCEPT !.at = "access", !.retry = @ + 1, !.again = FALSE]

\* The retry of an operation, on the block the logic block has now.
Retry(p) == [p EXCEPT !.at = "access", !.retry = @ + 1, !.again = FALSE,
                      !.old = Mapping(p.lb)]

\* Back in the caller of remap_block, unmap_block or upload_bmt.
Returns(t) ==
  LET p == pc[t] IN
  /\ p.at = "return"
  /\ Go(t, IF MayRetry(p) THEN Retry(p)
           ELSE IF p.op = "repair" /\ Mapping(p.lb) # p.old
                THEN [p EXCEPT !.at = "new_erase", !.new = Mapping(p.lb)]
           ELSE Rest)
  /\ mode' = IF p.op # "attach" THEN mode ELSE IF idx = NoIdx THEN "dead" ELSE "run"
  /\ badmark' = IF p.op = "markbad" THEN badmark \union {p.old} ELSE badmark
  /\ UNCHANGED <<bbt, idx, databuf, flash, worn, want, env>>

-----------------------------------------------------------------------------

\* The power goes away.  The block a caller is erasing or writing may be torn.
InFlight ==
  UNION {CASE pc[t].at = "bmt_erase" /\ ~NoSpace(pc[t]) -> {bbt.pool[pc[t].n].block}
           [] pc[t].at \in {"bmt_write", "new_erase", "copy_write"} -> {pc[t].new}
           [] pc[t].at = "access" /\ pc[t].op \in {"erase", "write"} -> {pc[t].old}
           [] OTHER -> {} : t \in Callers}

Crash ==
  /\ mode # "off" /\ env.crashes > 0
  /\ env.torn \/ \A t \in Callers : pc[t].at \notin {"bmt_erase", "bmt_write"}
  /\ \E torn \in SUBSET InFlight :
       /\ flash' = [b \in Blocks |-> IF b \in torn THEN Junk ELSE flash[b]]
       /\ worn' = worn \union torn
  /\ mode' = "off"
  /\ bbt' = Fresh /\ idx' = 0 /\ databuf' = Erased
  /\ pc' = [t \in Callers |-> Rest]
  /\ env' = [env EXCEPT !.crashes = @ - 1]
  /\ UNCHANGED <<badmark, want>>

Init ==
  /\ mode = "off"
  /\ bbt = Fresh /\ idx = 0 /\ databuf = Erased
  /\ pc = [t \in Callers |-> Rest]
  /\ flash = [b \in Blocks |-> Erased]
  /\ \E s \in Settings : badmark \in s.bad /\ env = [s EXCEPT !.bad = {}]
  /\ worn = {}
  /\ want = [lb \in UBlocks |-> [st |-> "erased", v |-> 0]]

Attach(t) == AttachLoad(t) \/ AttachScan(t)

Driver(t) ==
  \/ Attach(t)
  \/ UploadFails(t) \/ BmtErase(t) \/ BmtWrite(t)
  \/ RemapRefused(t) \/ FindEntry(t) \/ TakeEntry(t)
  \/ NewErase(t) \/ CopyRead(t) \/ CopyWrite(t)
  \/ Access(t) \/ IsBad(t) \/ Returns(t)

Fault(t) == UploadRetries(t) \/ NewFails(t) \/ AccessFails(t) \/ Bitflips(t)

User(t) ==
  \/ \E lb \in UBlocks :
       \/ \E op \in {"read", "write", "erase", "isbad"} : Start(t, op, lb)
       \/ \E op \in {"markbad"} \union (env.files \intersect {"mark_bad"}) :
            MarkBad(t, op, lb)
       \/ \E op \in env.files \intersect {"mark_good", "repair"} : Unmap(t, op, lb)
  \/ "free" \in env.files /\ Free(t)

Next == \/ \E t \in Callers : Driver(t) \/ Fault(t) \/ User(t)
        \/ AttachFails
        \/ Crash

Spec == Init /\ [][Next]_vars

-----------------------------------------------------------------------------
(* Properties. *)

Running == mode = "run"

Stored(lb) == flash[Mapping(lb)] = Data(lb, want[lb].v)

\* What has been written into a logic block is in the block get_mapping_block
\* returns, through remaps, retries, bad marks, a second caller and power losses,
\* as long as no update of the table fails or is cut off.
DataSafe ==
  Running /\ ~env.torn => \A lb \in UBlocks : want[lb].st = "data" /\ ~Busy(lb) => Stored(lb)

\* The damage of a lost or stale table is bounded: below the first block that
\* has ever failed, scan_bad_blocks maps as it did on the new chip.
PrefixSafe ==
  Running => \A lb \in UBlocks :
    want[lb].st = "data" /\ ~Busy(lb) /\ (\A b \in worn : Mapping(lb) < b) => Stored(lb)

Quiet == Running /\ \A t \in Callers : pc[t].at = "idle"

\* Between operations the flash holds the table in use: init would load it.
Persisted == Quiet /\ ~env.torn => LoadTable({}) = {bbt}

\* No two logic blocks share a block, none has the block of the table, and
\* what find_valid_block_in_pool gives out next belongs to nobody.
NoSharing ==
  Quiet /\ ~env.torn =>
    \A i \in UBlocks :
      /\ \A j \in UBlocks \ {i} : Mapping(i) # Mapping(j)
      /\ idx # NoIdx => Mapping(i) # bbt.pool[idx].block
      /\ \A k \in FreeEntries : Mapping(i) # bbt.pool[k].block
=============================================================================
