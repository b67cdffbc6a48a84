-------------------------------- MODULE Nmbm --------------------------------
(***************************************************************************)
(* The NMBM flavour of the MediaTek bad block manager (mtk_bmt_nmbm.c)     *)
(* under the block operations of mtk_bmt.c, on a NAND chip whose blocks    *)
(* fail and whose power goes away at any flash operation.                  *)
(*                                                                         *)
(* The management area MgmtStart .. NB-1 holds, upwards, the main info     *)
(* table, spare blocks, the backup table, the pool of unmapped blocks up   *)
(* to mapping_blocks_top_ba, the blocks already mapped, and the signature. *)
(* An info table fits one block (size2blk = 1), so that "the block after   *)
(* the table" is its address plus one.                                     *)
(*                                                                         *)
(* The driver is sequential.  Its state in memory is the record ni; pc     *)
(* says where it is.  One step is one flash operation (erase or program a  *)
(* block) together with the computation up to the next one, so that a      *)
(* power loss can come between any two.  The functions that write tables   *)
(* are split at their calls of nmbm_write_info_table: F(n, p) runs to the  *)
(* first call, FNext(n, p, ok, ts) goes on with the result of one.         *)
(***************************************************************************)
EXTENDS Integers, FiniteSets, FiniteSetsExt, Ranks

CONSTANTS
  NB,            \* block_count
  MgmtStart,     \* mgmt_start_ba
  SpareBlocks,   \* info_table_spare_blocks
  MaxVersion,    \* bound on the versions of the data in a logic block
  Settings       \* settings to consider

Blocks    == 0 .. NB - 1
LBlocks   == 0 .. MgmtStart - 1

\* force: the settings of mediatek,bmt-force-create in the firmwares booted; bad: the
\* sets of blocks that may be marked bad on a new chip; fail: the blocks that may
\* fail later; faults, crashes: the failures and power losses that may come; data:
\* whether there is data on the chip.
SettingRecords ==
  [force: SUBSET BOOLEAN, bad: SUBSET SUBSET Blocks, fail: SUBSET Blocks,
   faults: Nat, crashes: Nat, data: BOOLEAN]

ASSUME NmbmAssumption ==
  /\ MgmtStart \in Nat \ {0}
  /\ NB \in Nat /\ NB > MgmtStart
  /\ SpareBlocks \in Nat /\ MaxVersion \in Nat
  /\ Settings \subseteq SettingRecords

VARIABLES
  ni,        \* struct nmbm_instance
  pc,        \* where the driver is, with its local variables
  flash,     \* content of each block
  badmark,   \* blocks marked bad in their spare area
  want,      \* version of the data each logic block has to return, 0: none
  env        \* the setting, with the failures and power losses still to come

vars == <<ni, pc, flash, badmark, want, env>>

\* One of the failures that may come.
MayFail(b) == b \in env.fail /\ env.faults > 0
OneFault == env' = [env EXCEPT !.faults = @ - 1]

None      == 0       \* main_table_ba and backup_table_ba use 0 for "no table"
Unmapped  == -1
Mappings  == [LBlocks -> Blocks \union {Unmapped}]
GoodBlocks == [Blocks -> BOOLEAN]     \* block_state: TRUE is BLOCK_ST_GOOD

\* Content of a block.
Erased == [kind |-> "erased"]
Junk   == [kind |-> "junk"]            \* a torn or failed erase or write
Signature == [kind |-> "signature"]
Table(wc, map, st) == [kind |-> "table", wc |-> wc, map |-> map, st |-> st]
Data(lb, v) == [kind |-> "data", lb |-> lb, v |-> v]

Tables == [kind: {"table"}, wc: Nat, map: Mappings, st: GoodBlocks]
Contents == {Erased, Junk, Signature} \union Tables
              \union [kind: {"data"}, lb: LBlocks, v: 0 .. MaxVersion]

\* Calls of nmbm_write_info_table, and of nmbm_erase_range.
Writers == {"update_backup", "update_main", "rebuild_main", "rebuild_backup",
            "rescue_front", "rescue_behind", "single_main", "single_backup",
            "rescue_tmp", "rescue_main", "signature"}
Erasers == {"erase_rebuild", "erase_front", "erase_behind"}
Sites == Writers \union Erasers
           \union {"off", "dead", "idle", "return", "create_map",
                   "remap_erase", "remap_copy"}
Updates == {"remap", "nospare", "create_nospare", "create"}

Instances == [st: GoodBlocks, map: Mappings, dcount: 0 .. MgmtStart,
              main: Blocks, backup: Blocks, mba: Blocks, top: Blocks,
              sig: Blocks, wc: Nat, cache: Tables, dirty: BOOLEAN,
              protected: BOOLEAN]

Places == [at: Sites, ba: 0 .. NB, limit: Blocks, prog: BOOLEAN,
           wba: Blocks, tmp: Blocks, ok: BOOLEAN,
           ret: Updates \union {"build", "load"},
           lb: LBlocks, old: Blocks, copy: BOOLEAN, mark: BOOLEAN]

\* The setting s when f failures and c power losses are left.
Left(s, f, c) == [s EXCEPT !.bad = {}, !.faults = f, !.crashes = c]

TypeOK ==
  /\ ni \in Instances
  /\ pc \in Places
  /\ flash \in [Blocks -> Contents]
  /\ badmark \subseteq Blocks
  /\ want \in [LBlocks -> 0 .. MaxVersion]
  /\ \E s \in Settings :
       \E f \in 0 .. s.faults, c \in 0 .. s.crashes : env = Left(s, f, c)

-----------------------------------------------------------------------------
(* The block state table and walks over it. *)

\* nmbm_set_block_state(BLOCK_ST_BAD) on every block of S.  dirty stands for
\* block_state_changed || block_mapping_changed.
SetBad(n, S) ==
  [n EXCEPT !.st = [b \in Blocks |-> n.st[b] /\ b \notin S],
            !.dirty = @ \/ \E b \in S : n.st[b]]

Good(n, lo, hi) == {b \in lo .. hi : n.st[b]}

\* nmbm_block_walk_desc: from ba down, count good blocks are skipped.
WalkDesc(n, ba, count, limit) ==
  LET G == Good(n, limit + 1, ba)
  IN  IF Cardinality(G) > count THEN Nth(G, Cardinality(G) - 1 - count) ELSE None

\* nmbm_try_reserve_blocks: skip as many of SpareBlocks good blocks as there
\* are, with room for a table left below mapping_blocks_top_ba.
TryReserve(n, ba) ==
  LET G == Good(n, ba, n.top - 2)
  IN  IF G = {} THEN None
      ELSE Nth(G, Min({SpareBlocks, Cardinality(G) - 1}))

\* nmbm_build_mapping_table
BuildMapping(n) ==
  LET G == Good(n, 0, MgmtStart - 1)
  IN  [n EXCEPT !.dcount = Cardinality(G),
                !.map = [lb \in LBlocks |->
                           IF lb < Cardinality(G) THEN Nth(G, lb) ELSE Unmapped]]

\* nmbm_generate_info_table_cache
GenCache(n) ==
  LET wc == IF n.dirty THEN n.wc + 1 ELSE n.wc
  IN  [n EXCEPT !.wc = wc, !.cache = Table(wc, n.map, n.st)]

\* nmbm_mark_tables_clean
Clean(n) == [n EXCEPT !.dirty = FALSE]

-----------------------------------------------------------------------------
(* Writing tables. *)

Step(n, p) == [ni |-> n, pc |-> p]

Rest(site) == [at |-> site, ba |-> 0, limit |-> 0, prog |-> FALSE, wba |-> 0,
               tmp |-> 0, ok |-> TRUE, ret |-> "load", lb |-> 0, old |-> 0,
               copy |-> FALSE, mark |-> FALSE]

Write(n, p, site, ba, limit) ==
  Step(n, [p EXCEPT !.at = site, !.ba = ba, !.limit = limit, !.prog = FALSE])

\* The loops that write from wba up to the top and try one block lower next.
WriteBehind(n, p, site, wba) ==
  Write(n, [p EXCEPT !.wba = wba], site, wba, n.top)

Return(n, p, ok) ==
  Step(n, [p EXCEPT !.at = "return", !.ba = 0, !.limit = 0, !.prog = FALSE,
                    !.wba = 0, !.tmp = 0, !.ok = ok])

RebuildInfoTable(n, p) ==
  LET m == [n EXCEPT !.main = None, !.backup = None, !.mba = n.top]
  IN  Write(m, p, "rebuild_main", MgmtStart, m.top)

RebuildNext(n, p, ok, ts) ==
  IF p.at = "rebuild_main"
  THEN IF ~ok THEN Return([n EXCEPT !.protected = TRUE], p, FALSE)
       ELSE LET m == Clean([n EXCEPT !.main = ts, !.mba = ts + 1])
                r == TryReserve(m, ts + 1)
            IN  IF r = None THEN Return(m, p, TRUE)
                ELSE Write(m, [p EXCEPT !.tmp = ts + 1], "rebuild_backup", r, m.top)
  ELSE IF ~ok THEN Return(n, p, TRUE)
       ELSE Write([n EXCEPT !.backup = ts, !.mba = ts + 1], p,
                  "erase_rebuild", p.tmp, ts)

RescueSingle(n, p) == Write(n, p, "rescue_front", MgmtStart, n.main)

RescueSingleNext(n, p, ok, ts) ==
  CASE p.at = "rescue_front" /\ ok ->
         Write(Clean([n EXCEPT !.main = ts, !.backup = n.main]), p,
               "erase_front", ts + 1, n.main)
    [] p.at = "rescue_front" /\ ~ok ->
         LET r == TryReserve(n, n.mba)
         IN  IF r = None THEN Return(n, p, FALSE)
             ELSE WriteBehind(n, p, "rescue_behind", r)
    [] p.at = "rescue_behind" /\ ok ->
         Write(n, [p EXCEPT !.tmp = ts], "erase_behind", n.mba, ts)
    [] p.at = "rescue_behind" /\ ~ok ->
         IF p.wba > n.mba THEN WriteBehind(n, p, "rescue_behind", p.wba - 1)
         ELSE Return(n, p, FALSE)

\* The end of nmbm_erase_range.  Only rescue_behind records the new table
\* after erasing the blocks in front of it.
EraseNext(n, p) ==
  IF p.at = "erase_behind"
  THEN Return(Clean([n EXCEPT !.backup = p.tmp, !.mba = p.tmp + 1]), p, TRUE)
  ELSE Return(n, p, TRUE)

\* Mutant: the newer of the two tables is rewritten.
UpdateSingleNewer(n, p, update_main_table) ==
  IF ~update_main_table
  THEN Write(n, p, "single_main", n.main, n.backup)
  ELSE Write(n, p, "single_backup", n.backup, n.top)

UpdateSingle(n, p, update_main_table) ==
  IF update_main_table
  THEN Write(n, p, "single_main", n.main, n.backup)
  ELSE Write(n, p, "single_backup", n.backup, n.top)

UpdateSingleNext(n, p, ok, ts) ==
  IF p.at = "single_main"
  THEN IF ok THEN Return(Clean([n EXCEPT !.main = ts]), p, TRUE)
       ELSE RescueSingle([n EXCEPT !.main = n.backup, !.backup = None], p)
  ELSE IF ok THEN Return(Clean([n EXCEPT !.backup = ts, !.mba = ts + 1]), p, TRUE)
       ELSE Return([n EXCEPT !.mba = n.backup, !.backup = None], p, FALSE)

BackupBecomesMain(n) == [n EXCEPT !.main = n.backup, !.backup = None]

RescueMain(n, p) ==
  LET r == TryReserve(n, n.mba)
  IN  IF r = None THEN Return(BackupBecomesMain(n), p, TRUE)
      ELSE WriteBehind(n, p, "rescue_tmp", r)

\* The main table is written below the temporary one, which therefore always
\* becomes the backup: the rest of the function is never reached.
RescueMainNext(n, p, ok, ts) ==
  CASE p.at = "rescue_tmp" /\ ok ->
         Write([n EXCEPT !.mba = ts + 1], [p EXCEPT !.tmp = ts],
               "rescue_main", MgmtStart, ts)
    [] p.at = "rescue_tmp" /\ ~ok ->
         IF p.wba > n.mba THEN WriteBehind(n, p, "rescue_tmp", p.wba - 1)
         ELSE Return(BackupBecomesMain(n), p, TRUE)
    [] p.at = "rescue_main" ->
         Return(Clean([n EXCEPT !.main = IF ok THEN ts ELSE p.tmp,
                                !.backup = IF ok THEN p.tmp ELSE None]), p, TRUE)

WriteMain(n, p, limit) ==
  IF n.main = None THEN RebuildInfoTable(n, p)
  ELSE Write(n, p, "update_main", n.main, limit)

\* nmbm_update_info_table_once, called with a change only.
UpdateOnce(n, p) ==
  LET c == GenCache(n)
  IN  IF c.backup = None THEN WriteMain(c, p, c.top)
      ELSE Write(c, p, "update_backup", c.backup, c.top)

UpdateOnceNext(n, p, ok, ts) ==
  CASE p.at = "update_backup" /\ ok ->
         WriteMain(Clean([n EXCEPT !.backup = ts, !.mba = ts + 1]), p, ts)
    [] p.at = "update_backup" /\ ~ok ->
         WriteMain([n EXCEPT !.mba = n.backup, !.backup = None], p, n.top)
    [] p.at = "update_main" /\ ok ->
         Return(Clean([n EXCEPT !.main = ts,
                                !.mba = IF n.backup = None THEN ts + 1 ELSE @]),
                p, TRUE)
    [] p.at = "update_main" /\ ~ok ->
         IF n.backup = None THEN RebuildInfoTable(n, p) ELSE RescueMain(n, p)

\* nmbm_create_info_table up to the first table write.
CreateInfoTable(n, p) ==
  LET top == WalkDesc(n, n.sig, 1, MgmtStart)
  IN  IF top = None THEN Step(n, Rest("dead"))
      ELSE RebuildInfoTable(GenCache([n EXCEPT !.top = top]),
                            [p EXCEPT !.ret = "build"])

SignatureNext(n, p, ok, ts) ==
  IF ok THEN CreateInfoTable([n EXCEPT !.sig = ts], p) ELSE Step(n, Rest("dead"))

\* Go on after a write; ts is the block of the new table.
WriteNext(n, p, ok, ts) ==
  CASE p.at \in {"update_backup", "update_main"}    -> UpdateOnceNext(n, p, ok, ts)
    [] p.at \in {"rebuild_main", "rebuild_backup"}  -> RebuildNext(n, p, ok, ts)
    [] p.at \in {"rescue_front", "rescue_behind"}   -> RescueSingleNext(n, p, ok, ts)
    [] p.at \in {"single_main", "single_backup"}    -> UpdateSingleNext(n, p, ok, ts)
    [] p.at \in {"rescue_tmp", "rescue_main"}       -> RescueMainNext(n, p, ok, ts)
    [] p.at = "signature"                           -> SignatureNext(n, p, ok, ts)

-----------------------------------------------------------------------------
(* nmbm_write_mgmt_range, nmbm_write_signature and nmbm_erase_range: from   *)
(* the block pc.ba on, the first one that is good and not marked bad is     *)
(* erased and then programmed; a failing block is marked and skipped.       *)

Down    == pc.at = "signature"       \* the signature searches downwards
Extent  == IF Down THEN pc.limit + 1 .. pc.ba ELSE pc.ba .. pc.limit - 1
Usable  == {b \in Extent : ni.st[b] /\ b \notin badmark}
Block   == IF Down THEN Max(Usable) ELSE Min(Usable)
After(b) == IF Down THEN b - 1 ELSE b + 1

\* "Insurance to detect unexpected bad block marked by user".
Skipped(n) ==
  SetBad(n, {b \in Extent \intersect badmark :
               Usable = {} \/ (IF Down THEN b > Block ELSE b < Block)})

Become(s) == ni' = s.ni /\ pc' = s.pc

\* Mutant: nmbm_erase_range does not step to the next block.
EraseBlockStays ==
  /\ pc.at \in Writers \union Erasers /\ ~pc.prog /\ Usable # {}
  /\ flash' = [flash EXCEPT ![Block] = Erased]
  /\ ni' = Skipped(ni)
  /\ pc' = [pc EXCEPT !.ba = Block, !.prog = pc.at \in Writers]
  /\ UNCHANGED <<badmark, want, env>>

EraseBlock ==
  /\ pc.at \in Writers \union Erasers /\ ~pc.prog /\ Usable # {}
  /\ flash' = [flash EXCEPT ![Block] = Erased]
  /\ ni' = Skipped(ni)
  /\ pc' = IF pc.at \in Erasers THEN [pc EXCEPT !.ba = After(Block)]
           ELSE [pc EXCEPT !.ba = Block, !.prog = TRUE]
  /\ UNCHANGED <<badmark, want, env>>

ProgramBlock ==
  /\ pc.prog
  /\ flash' = [flash EXCEPT ![pc.ba] =
                 IF pc.at = "signature" THEN Signature ELSE ni.cache]
  /\ Become(WriteNext(ni, pc, TRUE, pc.ba))
  /\ UNCHANGED <<badmark, want, env>>

\* An erase, a write or its verification fails.  The mark in the spare area, whose
\* result the code ignores, is taken to work.
BlockFails ==
  /\ pc.at \in Writers \union Erasers /\ Usable # {}
  /\ MayFail(Block)
  /\ \E c \in {flash[Block], Junk} : flash' = [flash EXCEPT ![Block] = c]
  /\ badmark' = badmark \union {Block}
  /\ ni' = SetBad(Skipped(ni), {Block})
  /\ pc' = [pc EXCEPT !.ba = After(Block), !.prog = FALSE]
  /\ OneFault
  /\ UNCHANGED want

\* The limit is reached: a write has failed, an erase is complete.
RangeEnds ==
  /\ pc.at \in Writers \union Erasers /\ ~pc.prog /\ Usable = {}
  /\ Become(IF pc.at \in Erasers THEN EraseNext(Skipped(ni), pc)
            ELSE WriteNext(Skipped(ni), pc, FALSE, None))
  /\ UNCHANGED <<flash, badmark, want, env>>

-----------------------------------------------------------------------------
(* nmbm_update_info_table, nmbm_map_block and their callers. *)

\* nmbm_update_info_table, with the name of its caller in ret.
UpdateInfoTable(n, p, ret) == Return(n, [p EXCEPT !.ret = ret], TRUE)

MustUpdate == pc.ok /\ ~ni.protected /\ ni.dirty

UpdateAgain ==
  /\ pc.at = "return" /\ pc.ret \in Updates /\ MustUpdate
  /\ Become(UpdateOnce(ni, pc))
  /\ UNCHANGED <<flash, badmark, want, env>>

NoPool(n) == [n EXCEPT !.top = n.mba]

\* Back in the caller: remap_block_nmbm (then mtk_bmt_block_markbad, if it is
\* the one that asked), the failing end of nmbm_map_block, or
\* nmbm_create_info_table.
UpdateDone ==
  /\ pc.at = "return" /\ pc.ret \in Updates /\ ~MustUpdate
  /\ Become(CASE pc.ret = "remap"   -> Step(ni, Rest("idle"))
              [] pc.ret = "nospare" -> Step(NoPool(ni), Rest("idle"))
              [] pc.ret = "create_nospare" ->
                   UpdateInfoTable(NoPool(ni), pc, "create")
              [] pc.ret = "create" ->
                   Step(ni, Rest(IF pc.ok THEN "idle" ELSE "dead")))
  /\ badmark' = IF pc.mark THEN badmark \union {pc.old} ELSE badmark
  /\ UNCHANGED <<flash, want, env>>

\* The unused block nmbm_map_block takes.
Spare(n) == WalkDesc(n, n.top, 0, n.mba)

\* Mutant: block_mapping_changed is not raised.
MapToUnnoticed(n, lb, pb) == [n EXCEPT !.map[lb] = pb, !.top = @ - 1]

\* Mutant: the block stays in the pool.
MapToKeepsTop(n, lb, pb) == [n EXCEPT !.map[lb] = pb, !.dirty = TRUE]

MapTo(n, lb, pb) ==
  [n EXCEPT !.map[lb] = pb, !.top = @ - 1, !.dirty = TRUE]

\* nmbm_create_info_table after the tables: the loop that maps the logic
\* blocks without a good block in the data area.
BuildDone ==
  /\ pc.at = "return" /\ pc.ret = "build"
  /\ pc' = Rest(IF pc.ok THEN "create_map" ELSE "dead")
  /\ UNCHANGED <<ni, flash, badmark, want, env>>

\* Mutant: the loop over the logic blocks goes one block too far.
CreateMapPastEnd ==
  /\ pc.at = "create_map"
  /\ Become(IF ni.dcount > MgmtStart \/ ni.mba = ni.top
            THEN UpdateInfoTable(ni, pc, "create")
            ELSE IF Spare(ni) = None
            THEN UpdateInfoTable(ni, pc, "create_nospare")
            ELSE Step([MapTo(ni, ni.dcount, Spare(ni)) EXCEPT !.dcount = @ + 1], pc))
  /\ UNCHANGED <<flash, badmark, want, env>>

CreateMap ==
  /\ pc.at = "create_map"
  /\ Become(IF ni.dcount = MgmtStart \/ ni.mba = ni.top
            THEN UpdateInfoTable(ni, pc, "create")
            ELSE IF Spare(ni) = None
            THEN UpdateInfoTable(ni, pc, "create_nospare")
            ELSE Step([MapTo(ni, ni.dcount, Spare(ni)) EXCEPT !.dcount = @ + 1], pc))
  /\ UNCHANGED <<flash, badmark, want, env>>

\* remap_block_nmbm for the logic block lb, whose block is worn out.  copy:
\* the data was read (mtk_bmt_read above the bitflip threshold), is partly
\* written (mtk_bmt_write) or is to be kept (isbad, markbad); without copy the
\* block was to be erased.  mark: called by mtk_bmt_block_markbad.
Remap(lb, copy, mark) ==
  LET old == ni.map[lb]
      n   == SetBad(ni, {old})
      p   == [Rest("idle") EXCEPT !.lb = lb, !.old = old, !.copy = copy,
                                  !.mark = mark]
      early == n.mba = n.top
  IN  /\ pc.at = "idle" /\ lb < ni.dcount /\ old # Unmapped
      /\ MayFail(old)
      /\ mark => copy
      /\ Become(IF early THEN Step(n, Rest("idle"))
                ELSE IF Spare(n) = None THEN UpdateInfoTable(n, p, "nospare")
                ELSE Step(MapTo(n, lb, Spare(n)), [p EXCEPT !.at = "remap_erase"]))
      /\ badmark' = IF early /\ mark THEN badmark \union {old} ELSE badmark
      /\ want' = IF copy THEN want ELSE [want EXCEPT ![lb] = 0]
      /\ OneFault
      /\ UNCHANGED flash

\* bbt_nand_erase of the new block; its result is ignored.
RemapErase ==
  /\ pc.at = "remap_erase"
  /\ flash' = [flash EXCEPT ![ni.map[pc.lb]] = Erased]
  /\ Become(IF pc.copy THEN Step(ni, [pc EXCEPT !.at = "remap_copy"])
            ELSE UpdateInfoTable(ni, pc, "remap"))
  /\ UNCHANGED <<badmark, want, env>>

\* bbt_nand_copy, which stops at the first page it cannot read.
RemapCopy ==
  /\ pc.at = "remap_copy"
  /\ flash' = [flash EXCEPT ![ni.map[pc.lb]] =
                 IF flash[pc.old].kind = "data" THEN flash[pc.old] ELSE @]
  /\ Become(UpdateInfoTable(ni, pc, "remap"))
  /\ UNCHANGED <<badmark, want, env>>

\* bbt_nand_erase or bbt_nand_copy fails; remap_block_nmbm goes on.
RemapFails ==
  /\ pc.at \in {"remap_erase", "remap_copy"}
  /\ MayFail(ni.map[pc.lb])
  /\ flash' = [flash EXCEPT ![ni.map[pc.lb]] = Junk]
  /\ Become(IF pc.at = "remap_erase" /\ pc.copy
            THEN Step(ni, [pc EXCEPT !.at = "remap_copy"])
            ELSE UpdateInfoTable(ni, pc, "remap"))
  /\ OneFault
  /\ UNCHANGED <<badmark, want>>

\* mtk_bmt_mtd_erase and mtk_bmt_write succeed: lb has new data.
UserWrite(lb) ==
  /\ pc.at = "idle" /\ lb < ni.dcount /\ ni.map[lb] # Unmapped
  /\ env.data /\ want[lb] < MaxVersion
  /\ want' = [want EXCEPT ![lb] = @ + 1]
  /\ flash' = [flash EXCEPT ![ni.map[lb]] = Data(lb, want[lb] + 1)]
  /\ UNCHANGED <<ni, pc, badmark, env>>

-----------------------------------------------------------------------------
(* Attach.  A junk block may read with an ECC error (ecc): the search then *)
(* marks it bad in memory only.                                            *)

Fresh == [st |-> [b \in Blocks |-> TRUE], map |-> [lb \in LBlocks |-> Unmapped],
          dcount |-> 0, main |-> None, backup |-> None, mba |-> 0, top |-> 0,
          sig |-> 0, wc |-> 0,
          cache |-> Table(0, [lb \in LBlocks |-> Unmapped], [b \in Blocks |-> TRUE]),
          dirty |-> FALSE, protected |-> FALSE]

\* nmbm_find_signature: the one in the highest block, if any.
IsSignature(b) == b \notin badmark /\ flash[b] = Signature
SignatureBlock ==
  {s \in Blocks : IsSignature(s) /\ \A b \in s + 1 .. NB - 1 : ~IsSignature(b)}

\* nmbm_check_info_table for the table in block b below the signature sig.
CheckTable(b, sig) ==
  /\ \A lb \in LBlocks : /\ flash[b].map[lb] \notin MgmtStart .. b
                         /\ flash[b].map[lb] # sig
  /\ flash[b].st[b]

\* nmbm_try_load_info_table would load from block b.
IsTable(b) ==
  /\ b \notin badmark /\ flash[b].kind = "table"
  /\ \E sig \in SignatureBlock : b < sig - 1 /\ CheckTable(b, sig)

\* The two runs of nmbm_search_info_table: the first table, if any, and the
\* next one after it, in a block that is good by the first.
FirstTable ==
  {m \in MgmtStart .. NB - 1 :
     IsTable(m) /\ \A b \in MgmtStart .. m - 1 : ~IsTable(b)}
SecondTable(m) ==
  LET after(lo, hi) == {b \in lo .. hi : flash[m].st[b] /\ IsTable(b)}
  IN  {b \in after(m + 1, NB - 1) : after(m + 1, b - 1) = {}}
NewestTable(m) ==
  LET newer == {b \in SecondTable(m) : flash[b].wc > flash[m].wc}
  IN  IF newer = {} THEN {m} ELSE newer

\* Mutant: the pool includes the lowest mapped block.
TopBelowIncluded(S) == Min(S)

\* mapping_blocks_top_ba under the blocks S.
TopBelow(S) == Min(S) - 1

\* nmbm_load_info_table up to its first write, from the first table m.
LoadInfoTable(ecc, sig, m) ==
  LET bad    == badmark \union ecc
      backup == IF SecondTable(m) = {} THEN None ELSE Min(SecondTable(m))
      nb     == CHOOSE b \in NewestTable(m) : TRUE
      newest == flash[nb]
      last   == IF backup = None THEN sig - 2 ELSE backup
      seen   == {b \in m + 1 .. last : flash[m].st[b]} \intersect bad
      used   == {lb \in LBlocks : newest.map[lb] # Unmapped}
      above  == {newest.map[lb] : lb \in used} \intersect (nb .. sig)
      n == [Fresh EXCEPT
              !.sig    = sig,
              !.main   = m,
              !.backup = backup,
              !.mba    = IF backup = None THEN m + 1 ELSE backup + 1,
              !.top    = TopBelow(above \union {sig}),
              !.map    = newest.map,
              !.dcount = IF used = {} THEN MgmtStart ELSE Max(used) + 1,
              !.wc     = newest.wc,
              !.st     = IF nb = backup THEN newest.st
                         ELSE [b \in Blocks |-> newest.st[b] /\ b \notin seen],
              !.dirty  = seen # {} \/ (MgmtStart .. m - 1) \intersect bad # {}]
      c == GenCache(n)
      p == Rest("return")
  IN  IF backup = None THEN RescueSingle(c, p)
      ELSE IF flash[m].wc = flash[backup].wc THEN Return(c, p, TRUE)
      ELSE UpdateSingle([c EXCEPT !.dirty = TRUE], p, nb = backup)

\* The end of nmbm_load_info_table.
LoadDone ==
  /\ pc.at = "return" /\ pc.ret = "load"
  /\ Become(Step([ni EXCEPT !.protected = @ \/ ni.mba = ni.top \/ ~pc.ok],
                 Rest("idle")))
  /\ UNCHANGED <<flash, badmark, want, env>>

\* nmbm_scan_badblocks and nmbm_build_mapping_table.
Scan(n) == BuildMapping(SetBad(n, badmark))

EccErrors == SUBSET {b \in Blocks : flash[b] = Junk}

\* nmbm_attach, nmbm_load_existing: tables are found.
AttachLoad ==
  /\ pc.at = "off"
  /\ \E sig \in SignatureBlock, m \in FirstTable, ecc \in EccErrors :
       Become(LoadInfoTable(ecc, sig, m))
  /\ UNCHANGED <<flash, badmark, want, env>>

\* nmbm_create_new: there is no signature.
AttachCreate ==
  /\ pc.at = "off" /\ SignatureBlock = {} /\ TRUE \in env.force
  /\ Become(Write(Scan(Fresh), Rest("off"), "signature", NB - 1, MgmtStart))
  /\ UNCHANGED <<flash, badmark, want, env>>

\* nmbm_load_existing: a signature without a table.
AttachRebuild ==
  /\ pc.at = "off" /\ FirstTable = {} /\ TRUE \in env.force
  /\ \E sig \in SignatureBlock, ecc \in EccErrors :
       LET bad == (badmark \union ecc) \intersect (MgmtStart .. sig - 2)
       IN  Become(CreateInfoTable(Scan([SetBad(Fresh, bad) EXCEPT !.sig = sig]),
                                  Rest("off")))
  /\ UNCHANGED <<flash, badmark, want, env>>

\* ENODEV: no signature or no table, and mediatek,bmt-force-create is not set.
AttachFails ==
  /\ pc.at = "off" /\ FirstTable = {} /\ FALSE \in env.force
  /\ pc' = Rest("dead")
  /\ UNCHANGED <<ni, flash, badmark, want, env>>

Attach == AttachLoad \/ AttachCreate \/ AttachRebuild \/ AttachFails

\* The power goes away.  A block being erased or written may be torn.
InFlight ==
  IF pc.at \in Writers \union Erasers
  THEN IF Usable = {} THEN {} ELSE {Block}
  ELSE IF pc.at \in {"remap_erase", "remap_copy"} THEN {ni.map[pc.lb]} ELSE {}

Crash ==
  /\ pc.at # "off" /\ env.crashes > 0
  /\ \/ UNCHANGED flash
     \/ \E b \in InFlight : flash' = [flash EXCEPT ![b] = Junk]
  /\ ni' = Fresh
  /\ pc' = Rest("off")
  /\ env' = [env EXCEPT !.crashes = @ - 1]
  /\ UNCHANGED <<badmark, want>>

-----------------------------------------------------------------------------

\* A new chip with its factory bad blocks.
Init ==
  /\ ni = Fresh
  /\ pc = Rest("off")
  /\ flash = [b \in Blocks |-> Erased]
  /\ \E s \in Settings : badmark \in s.bad /\ env = [s EXCEPT !.bad = {}]
  /\ want = [lb \in LBlocks |-> 0]

Flash  == EraseBlock \/ ProgramBlock \/ RangeEnds
Driver == \/ Flash
          \/ UpdateAgain \/ UpdateDone \/ BuildDone \/ CreateMap \/ LoadDone
          \/ RemapErase \/ RemapCopy
          \/ Attach

User == \E lb \in LBlocks :
          \/ UserWrite(lb)
          \/ \E copy, mark \in BOOLEAN : Remap(lb, copy, mark)

Next == Driver \/ User \/ BlockFails \/ RemapFails \/ Crash

Spec == Init /\ [][Next]_vars

\* The driver runs on until it waits for its user.
FairSpec == Spec /\ WF_vars(Driver)

-----------------------------------------------------------------------------
(* Properties. *)

Attached == pc.at \notin {"off", "dead"}

\* The mapping on the flash and the one in memory, as sets of at most one.
DiskMap == {flash[b].map : b \in UNION {NewestTable(m) : m \in FirstTable}}
MemMap  == IF Attached THEN {ni.map} ELSE {}

\* What is stored in a logic block is where the mapping in memory points to,
\* at every step of remapping, table updates, rescues and after every power
\* loss; only the block being remapped is on its way.
DataSafe ==
  \A lb \in LBlocks :
    want[lb] # 0 =>
      /\ pc.at # "dead"
      /\ Attached /\ ~(pc.at \in {"remap_erase", "remap_copy"} /\ pc.lb = lb)
           => /\ ni.map[lb] # Unmapped
              /\ flash[ni.map[lb]] = Data(lb, want[lb])

\* Between operations the flash holds the mapping in use: once a remap has
\* returned, or an attach, a power loss cannot take it back.
Persisted ==
  pc.at = "idle" /\ ~ni.protected => DiskMap = {ni.map}

\* No two logic blocks share a block, and none has a block of the tables, the
\* spare blocks between them or the signature.
NoSharing ==
  Attached =>
    \A i, j \in LBlocks :
      /\ i # j /\ ni.map[i] # Unmapped => ni.map[i] # ni.map[j]
      /\ ni.map[i] >= MgmtStart /\ pc.at = "idle"
           => ni.map[i] > ni.mba /\ ni.map[i] # ni.sig

\* Every attach and every update of the tables comes to an end.
Finishes == <>[](pc.at \in {"idle", "dead"})

\* "Map a bad block to a unused spare block": the block a logic block is
\* newly mapped to was not in use by any logic block.
MapsToUnused ==
  [][\A lb, k \in LBlocks :
       /\ pc.at # "off" /\ pc'.at # "off"
       /\ ni'.map[lb] # ni.map[lb]
       => ni'.map[lb] # ni.map[k]]_vars

\* Main and backup table together are one durable mapping that changes
\* atomically, whatever the crash, the failing block and the rescue path.
Durable == INSTANCE DurableMap WITH Maps <- Mappings, mem <- MemMap, disk <- DiskMap
DurableSpec == Durable!Spec
=============================================================================
