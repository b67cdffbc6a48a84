------------------------------ MODULE MCBmtV2 ------------------------------
(* Instances of BmtV2 for TLC. *)
EXTENDS BmtV2

CONSTANTS t1, t2

\* One thread and a chip without bad blocks, on which nothing goes wrong.
Plain == [range |-> 0 .. PoolLba - 1, bad |-> {{}}, fail |-> {}, torn |-> FALSE,
          faults |-> 0, crashes |-> 0, callers |-> {t1}, files |-> {}]

\* Data blocks fail, and the power goes while the table is not written; new
\* chips have a bad block in the data area, in the pool, or none.
Failing == [Plain EXCEPT !.bad = {{}, {1}, {NB - 1}}, !.fail = {0, 1, 2},
                         !.faults = 2, !.crashes = 1]

\* The update of the table fails or is cut off too; one chip has so many bad
\* blocks that there is no other entry for the table.
Torn == [Plain EXCEPT !.bad = {{}, {NB - 2, NB - 1}}, !.torn = TRUE,
                      !.fail = {1, PoolLba, PoolLba + 1, NB - 1},
                      !.faults = 2, !.crashes = 1]

\* Two threads, of which one meets a block that fails.
Shared == [Plain EXCEPT !.callers = {t1, t2}, !.fail = {0, 1},
                        !.faults = 1, !.crashes = 1]

\* The debugfs files, with a remap range that does not begin at block 0.
Debug == [Plain EXCEPT !.range = 1 .. PoolLba - 1,
                       !.files = {"mark_bad", "mark_good", "repair", "free"}]

\* find_valid_block and scan_bad_blocks as the loops of the code.
FindValid(bad, block) ==
  LET good == {b \in block .. NB - 1 : b \notin bad}
  IN  IF good = {} \/ Min(good) - block > BbMax THEN 0 ELSE Min(good)

ScanLoops(bad) ==
  LET map[i \in LBlocks] ==
        IF i = 0 THEN 0
        ELSE IF i > 1 /\ map[i - 1] = 0 THEN 0 ELSE FindValid(bad, map[i - 1] + 1)
      pba == map[PoolLba - 1] + 1
      blk[i \in PoolIdx] ==
        IF i = 0 THEN FindValid(bad, pba)
        ELSE IF blk[i - 1] = 0 THEN 0 ELSE FindValid(bad, blk[i - 1] + 1)
      avail == Cardinality({i \in PoolIdx : blk[i] # 0})
      entry(i) == [block |-> blk[i],
                   mapped |-> IF i = avail - 1 THEN BMT_MAPPED ELSE NO_MAPPED]
  IN  IF map[PoolLba - 1] = 0 \/ pba >= NB - 2 \/ avail < 1 THEN {}
      ELSE {[bbt |-> [map |-> map, pool |-> [i \in PoolIdx |-> entry(i)]],
             idx |-> avail - 1]}

\* Going through the valid blocks in order is what the loops do, for all sets of
\* bad blocks of a chip of this size.
ASSUME ScanIsLoops == \A bad \in SUBSET Blocks : ScanBadBlocks(bad) = ScanLoops(bad)

AllSettings == {Failing, Torn, Shared, Debug}
=============================================================================
