-------------------------------- MODULE Bbt --------------------------------
(***************************************************************************)
(* The bbt flavour of the MediaTek bad block manager (mtk_bmt_bbt.c).  The *)
(* table is a set of bad blocks; the mapping is computed from it: within a *)
(* remap range the bad blocks are skipped, and the logic blocks left over  *)
(* at the end of the range get the bad ones.  Marking a block bad moves    *)
(* every later logic block of the range, and only the one that failed is   *)
(* copied; the others must be written again.                               *)
(*                                                                         *)
(* The driver is taken as sequential; one step is one flash operation with *)
(* the computation around it.                                              *)
(***************************************************************************)
EXTENDS Integers, FiniteSets, FiniteSetsExt, Ranks

CONSTANTS
  NB,            \* total_blks
  Settings       \* settings to consider

\* ranges: mediatek,bmt-remap-range in blocks, <<start, end>> each; bad: the sets
\* of bad blocks the table may have at first; fail: the blocks that may fail
\* later; faults, crashes and writes: the failures, power losses and writes that
\* may come; files: the debugfs files in use.
SettingRecords ==
  [ranges: SUBSET ((0 .. NB) \X (0 .. NB)), bad: SUBSET SUBSET (0 .. NB - 1),
   fail: SUBSET (0 .. NB - 1), faults: Nat, crashes: Nat, writes: Nat,
   files: SUBSET {"mark_good", "repair", "rewrite"}]

\* The ranges of a device tree do not overlap and end below the four blocks
\* kept for the table.  One whose end is not behind its start is empty.
RangesApart(ranges) ==
  \A r \in ranges :
    /\ r[2] <= NB - 4
    /\ \A q \in ranges \ {r} : (r[1] .. r[2] - 1) \intersect (q[1] .. q[2] - 1) = {}

ASSUME BbtAssumption ==
  /\ NB \in Nat /\ NB > 5
  /\ Settings \subseteq SettingRecords
  /\ \A s \in Settings : RangesApart(s.ranges)

VARIABLES
  bad,       \* the bad blocks of bbt_buf
  tbl,       \* bmt_blk_idx, the block of the table
  pc,        \* where the driver is, with its local variables
  flash,     \* content of each block
  want,      \* number of the write each logic block has to return, 0 if none
  moved,     \* history: logic blocks whose data was left behind
  env        \* the setting, with the failures, losses and writes still to come

vars == <<bad, tbl, pc, flash, want, moved, env>>

\* One of the failures that may come.
MayFail(b) == b \in env.fail /\ env.faults > 0
OneFault == env' = [env EXCEPT !.faults = @ - 1]

Blocks  == 0 .. NB - 1
ULBlocks == 0 .. NB - 5         \* mtd->size leaves four blocks to the table

Erased == [kind |-> "erased"]
Junk   == [kind |-> "junk"]
Table(s) == [kind |-> "table", bad |-> s]
Data(lb, v) == [kind |-> "data", lb |-> lb, v |-> v]
Contents == {Erased, Junk} \union [kind: {"table"}, bad: SUBSET Blocks]
              \union [kind: {"data"}, lb: Blocks, v: Nat]

Places == [at: {"off", "dead", "idle", "tbl_erase", "tbl_write", "new_erase", "copy"},
           op: {"remap", "erase", "mark_good", "repair", "rewrite"},
           lb: Blocks, old: Blocks, new: Blocks]
Rest(at) == [at |-> at, op |-> "remap", lb |-> 0, old |-> 0, new |-> 0]

TypeOK ==
  /\ bad \subseteq Blocks
  /\ tbl \in Blocks
  /\ pc \in Places
  /\ flash \in [Blocks -> Contents]
  /\ want \in [ULBlocks -> Nat]
  /\ moved \subseteq ULBlocks
  /\ env \in SettingRecords
  /\ \E s \in Settings :
       /\ env.ranges = s.ranges /\ env.fail = s.fail /\ env.files = s.files
       /\ env.faults <= s.faults /\ env.crashes <= s.crashes /\ env.writes <= s.writes

-----------------------------------------------------------------------------
(* get_mapping_block_index_bbt *)

\* mapping_block_in_range: the range of lb, if it has one; without any remap
\* range it is the whole chip.
RangeIn(ranges, lb) ==
  IF ranges = {} THEN {<<0, NB>>} ELSE {r \in ranges : r[1] <= lb /\ lb < r[2]}

RangeOf(lb) == RangeIn(env.ranges, lb)

\* Mutant: the last bad block is not given out.
MappingInNoOverflow(B, lb, start, end) ==
  LET range == start .. end - 1
      good  == range \ B
      hit   == {i \in good : Below(good, i) = lb - start}
  IN  IF hit # {} THEN Min(hit) ELSE lb

\* The block of lb in the range start .. end-1, when the blocks of B are bad.
\* The first loop stops at the good block that has as many good ones in front
\* of it as lb is behind start; the second, from the end, at the first bad one
\* with at most the remaining offset of bad ones in front of it.
MappingIn(B, lb, start, end) ==
  LET range == start .. end - 1
      good  == range \ B
      poor  == range \intersect B
      hit   == {i \in good : Below(good, i) = lb - start}
      ofs   == lb - start - Cardinality(good)
  IN  IF hit # {} THEN Min(hit)
      ELSE IF poor = {} THEN lb
      ELSE Max({i \in poor : Below(poor, i) <= ofs})

\* The limits of a range are addresses and are shifted to block numbers; those
\* that mapping_block_in_range returns without any range are block numbers
\* already, and shifting them leaves 0.
Shifted(ranges, range) == IF ranges = {} THEN <<0, 0>> ELSE range

MappingBy(ranges, B, lb) ==
  IF RangeIn(ranges, lb) = {} THEN lb
  ELSE LET r == Shifted(ranges, CHOOSE r \in RangeIn(ranges, lb) : TRUE)
       IN  MappingIn(B, lb, r[1], r[2])

Mapping(B, lb) == MappingBy(env.ranges, B, lb)

Moves(B, C) == {lb \in ULBlocks : Mapping(B, lb) # Mapping(C, lb)}

-----------------------------------------------------------------------------
(* Attach: mtk_bmt_init_bbt and mtk_bmt_read_bbt.  The table is the one in  *)
(* the highest of the last five blocks; a block of junk has no signature.   *)

Candidates == {b \in NB - 5 .. NB - 1 : flash[b].kind = "table"}

AttachLoad ==
  /\ pc.at = "off" /\ Candidates # {}
  /\ tbl' = Max(Candidates)
  /\ bad' = flash[Max(Candidates)].bad
  /\ pc' = Rest("idle")
  /\ UNCHANGED <<flash, want, moved, env>>

AttachFails ==
  /\ pc.at = "off" /\ Candidates = {}
  /\ pc' = Rest("dead")
  /\ UNCHANGED <<bad, tbl, flash, want, moved, env>>

-----------------------------------------------------------------------------
(* Remapping. *)

\* Mutant: the block marked bad is the one with the number of the logic block.
RemapUnmapped(lb, op) ==
  LET old == Mapping(bad, lb) IN
  /\ pc.at = "idle" /\ RangeOf(lb) # {}
  /\ MayFail(old)
  /\ bad' = bad \union {lb}
  /\ moved' = (moved \union Moves(bad, bad') \union {lb})
                 \ (IF Mapping(bad', lb) # old THEN {lb} \ moved ELSE {})
  /\ pc' = [Rest("tbl_erase") EXCEPT !.op = op, !.lb = lb, !.old = old]
  /\ want' = IF op = "erase" THEN [want EXCEPT ![lb] = 0] ELSE want
  /\ OneFault
  /\ UNCHANGED <<tbl, flash>>

\* mtk_bmt_remap_block and remap_block_bbt up to the first flash operation.
\* An erase needs no copy.  The block has failed or is marked bad.  With no
\* good block left behind it the logic block keeps its block, which is erased
\* all the same, and the data is lost.
Remap(lb, op) ==
  LET old == Mapping(bad, lb) IN
  /\ pc.at = "idle" /\ RangeOf(lb) # {}
  /\ MayFail(old)
  /\ bad' = bad \union {old}
  /\ moved' = (moved \union Moves(bad, bad') \union {lb})
                 \ (IF Mapping(bad', lb) # old THEN {lb} \ moved ELSE {})
  /\ pc' = [Rest("tbl_erase") EXCEPT !.op = op, !.lb = lb, !.old = old]
  /\ want' = IF op = "erase" THEN [want EXCEPT ![lb] = 0] ELSE want
  /\ OneFault
  /\ UNCHANGED <<tbl, flash>>

\* Outside of the ranges the operation fails and nothing is remapped.
AccessFails(lb) ==
  /\ pc.at = "idle" /\ RangeOf(lb) = {}
  /\ MayFail(lb)
  /\ flash' = [flash EXCEPT ![lb] = Junk]
  /\ want' = [want EXCEPT ![lb] = 0]
  /\ OneFault
  /\ UNCHANGED <<bad, tbl, pc, moved>>

\* unmap_block_bbt, for the debugfs files mark_good and repair.  The argument
\* is the number of a logic block, and clears the state of the block with
\* that number.
Unmap(b, op) ==
  /\ pc.at = "idle" /\ op \in env.files
  /\ bad' = bad \ {b}
  /\ moved' = moved \union (Moves(bad, bad') \ IF op = "repair" THEN {b} ELSE {})
  /\ pc' = [Rest("tbl_erase") EXCEPT !.op = op, !.lb = b, !.old = Mapping(bad, b)]
  /\ UNCHANGED <<tbl, flash, want, env>>

\* Mutant: the block after the last one.
RewritePastEnd ==
  /\ pc.at = "idle" /\ "rewrite" \in env.files
  /\ tbl' = NB
  /\ pc' = [Rest("tbl_erase") EXCEPT !.op = "rewrite"]
  /\ UNCHANGED <<bad, flash, want, moved, env>>

\* mtk_bmt_debug_bbt, value 100: the table goes to the last block.
Rewrite ==
  /\ pc.at = "idle" /\ "rewrite" \in env.files
  /\ tbl' = NB - 1
  /\ pc' = [Rest("tbl_erase") EXCEPT !.op = "rewrite"]
  /\ UNCHANGED <<bad, flash, want, moved, env>>

\* bbt_set_block_state; the results of erase and write are ignored.
TableErase ==
  /\ pc.at = "tbl_erase"
  /\ flash' = [flash EXCEPT ![tbl] = Erased]
  /\ pc' = [pc EXCEPT !.at = "tbl_write"]
  /\ UNCHANGED <<bad, tbl, want, moved, env>>

\* remap_block_bbt goes on with the new block, mtk_bmt_debug_repair if it is
\* another one.
HasNew == \/ pc.op \in {"remap", "erase"}
          \/ pc.op = "repair" /\ Mapping(bad, pc.lb) # pc.old

\* Mutant: the table is written as it was read.
TableWriteOld ==
  /\ pc.at = "tbl_write"
  /\ flash' = [flash EXCEPT ![tbl] = Table(bad \ {pc.old})]
  /\ pc' = IF HasNew THEN [pc EXCEPT !.at = "new_erase", !.new = Mapping(bad, pc.lb)]
           ELSE Rest("idle")
  /\ UNCHANGED <<bad, tbl, want, moved, env>>

TableWrite ==
  /\ pc.at = "tbl_write"
  /\ flash' = [flash EXCEPT ![tbl] = Table(bad)]
  /\ pc' = IF HasNew THEN [pc EXCEPT !.at = "new_erase", !.new = Mapping(bad, pc.lb)]
           ELSE Rest("idle")
  /\ UNCHANGED <<bad, tbl, want, moved, env>>

\* Mutant: the block erased is the one with the number of the logic block.
NewEraseUnmapped ==
  /\ pc.at = "new_erase"
  /\ flash' = [flash EXCEPT ![pc.lb] = Erased]
  /\ pc' = IF pc.op = "erase" THEN Rest("idle") ELSE [pc EXCEPT !.at = "copy"]
  /\ UNCHANGED <<bad, tbl, want, moved, env>>

NewErase ==
  /\ pc.at = "new_erase"
  /\ flash' = [flash EXCEPT ![pc.new] = Erased]
  /\ pc' = IF pc.op = "erase" THEN Rest("idle") ELSE [pc EXCEPT !.at = "copy"]
  /\ UNCHANGED <<bad, tbl, want, moved, env>>

\* bbt_nand_copy, which stops at the first page it cannot read.
Copy ==
  /\ pc.at = "copy"
  /\ flash' = [flash EXCEPT ![pc.new] =
                 IF flash[pc.old] \in {Junk, Erased} THEN @ ELSE flash[pc.old]]
  /\ pc' = Rest("idle")
  /\ UNCHANGED <<bad, tbl, want, moved, env>>

\* mtk_bmt_mtd_erase and mtk_bmt_write succeed: lb has new data.
UserWrite(lb) ==
  /\ pc.at = "idle" /\ env.writes > 0
  /\ env' = [env EXCEPT !.writes = @ - 1]
  /\ want' = [want EXCEPT ![lb] = env.writes]
  /\ flash' = [flash EXCEPT ![Mapping(bad, lb)] = Data(lb, env.writes)]
  /\ moved' = moved \ {lb}
  /\ UNCHANGED <<bad, tbl, pc>>

-----------------------------------------------------------------------------

InFlight == CASE pc.at \in {"tbl_erase", "tbl_write"} -> {tbl}
              [] pc.at \in {"new_erase", "copy"} -> {pc.new}
              [] OTHER -> {}

\* The power goes away.  The table is written before the data is copied: what
\* was to be copied is left behind.
Crash ==
  /\ pc.at # "off" /\ env.crashes > 0
  /\ \E torn \in SUBSET InFlight :
       flash' = [b \in Blocks |-> IF b \in torn THEN Junk ELSE flash[b]]
  /\ bad' = {} /\ tbl' = 0
  /\ pc' = Rest("off")
  /\ moved' = IF pc.at \in {"idle", "dead"} THEN moved ELSE moved \union {pc.lb}
  /\ env' = [env EXCEPT !.crashes = @ - 1]
  /\ UNCHANGED want

\* The boot loader has left a table in one of the last four blocks.
Init ==
  /\ bad = {} /\ tbl = 0
  /\ pc = Rest("off")
  /\ \E s \in Settings : \E m \in s.bad, b \in NB - 4 .. NB - 1 :
       /\ env = [s EXCEPT !.bad = {}]
       /\ flash = [[x \in Blocks |-> Erased] EXCEPT ![b] = Table(m)]
  /\ want = [lb \in ULBlocks |-> 0]
  /\ moved = {}

Driver == AttachLoad \/ AttachFails \/ TableErase \/ TableWrite \/ NewErase \/ Copy

User == \/ \E lb \in ULBlocks :
             \/ UserWrite(lb)
             \/ \E op \in {"remap", "erase"} : Remap(lb, op)
             \/ AccessFails(lb)
             \/ \E op \in {"mark_good", "repair"} : Unmap(lb, op)
        \/ Rewrite

Next == Driver \/ User \/ Crash

Spec == Init /\ [][Next]_vars

-----------------------------------------------------------------------------
(* Properties. *)

Attached == pc.at \notin {"off", "dead"}

\* Whatever blocks are marked, the mapping gives every logic block a block of
\* its own, also when so many are bad that the end of a range overflows, and
\* never the block the table is in.
OneOwner ==
  Attached =>
    \A i \in ULBlocks :
      /\ \A j \in ULBlocks \ {i} : Mapping(bad, i) # Mapping(bad, j)
      /\ Mapping(bad, i) # tbl

\* What a logic block holds stays reachable, unless a mark has moved the logic
\* block away from it: the erase of a new block hits no one else.
DataSafe ==
  Attached /\ pc.at \notin {"new_erase", "copy"} =>
    \A lb \in ULBlocks \ moved :
      want[lb] # 0 /\ ~(pc.at \in {"tbl_erase", "tbl_write"} /\ pc.lb = lb)
        => flash[Mapping(bad, lb)] = Data(lb, want[lb])

\* Marking a block for the logic block lb moves no logic block in front of lb
\* and none of another range: an update that writes a range upwards keeps what
\* it has written.
MovesUpOnly ==
  [][pc.at = "idle" /\ pc'.at = "tbl_erase" /\ pc'.op \in {"remap", "erase"} =>
       \A lb \in Moves(bad, bad') :
         lb >= pc'.lb /\ RangeOf(lb) = RangeOf(pc'.lb)]_vars

\* "skip bad blocks within the mapping range": a logic block has a bad block
\* only if the good ones of its range are all taken by those in front of it.
\* Without any remap range nothing is skipped: see Shifted.
BadSkipped ==
  Attached /\ env.ranges # {} =>
    \A lb \in ULBlocks : \A r \in RangeOf(lb) :
      Mapping(bad, lb) \in bad =>
        Cardinality((r[1] .. r[2] - 1) \ bad) <= lb - r[1]

\* The mapping that get_mapping_block_index_bbt computes from the set of bad
\* blocks: one to one, and around the bad blocks wherever that is possible.
MappingSound == OneOwner /\ BadSkipped

\* Between operations the table on the flash is the one in use.
Persisted ==
  pc.at = "idle" => flash[tbl] = Table(bad) /\ tbl = Max(Candidates)
=============================================================================
