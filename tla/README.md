# TLA+ models of mt798x-25.12-rebase

The repository is an OpenWrt 25.12 tree for MediaTek MT798x routers: some 11 500
files, most of them build recipes, kernel patches, device trees and vendored
code. This directory holds models of the parts that carry the tree's own logic
and are hard to test. It covers a small part of the repository, about 5 100
source lines (comments included) in seven subsystems: most of the code of these
subsystems that changes state, and about 0.7 % of the implementation lines in the
tree.

    Wireless.tla          wireless device manager of netifd (ucode)
    Wireless_proofs.tla   its inductive invariant and theorems
    Nmbm.tla              NMBM bad block manager (kernel C)
    Nmbm_proofs.tla       its tables, mapping and data, and the refinement, proved
    DurableMap.tla        what a bad block manager promises of its mapping
    BmtV2.tla             BMT v2 bad block manager (kernel C)
    BmtV2_proofs.tla      its types, table, mapping and data, proved
    Bbt.tla               BBT bad block manager (kernel C)
    Bbt_proofs.tla        its mapping, table and data, proved
    Ranks.tla             places of blocks in a set, for Nmbm, BmtV2 and Bbt
    Ranks_proofs.tla      counting lemmas, proved
    Unetmsg.tla           unetmsg daemons of two hosts (ucode)
    Unetmsg_proofs.tla    mirrors, retries and notifications, proved
    Buttons.tla           gpio-button-hotplug driver (kernel C)
    Buttons_proofs.tla    removal is clean and reports are justified, proved
    ApSta.tla             hostapd and wpa_supplicant sharing a radio (ucode, shell)
    ApSta_proofs.tla      both end up as configured and in tune, proved
    BssReload.tla         applying a configuration to running interfaces (ucode)
    MC<Module>.tla        instances for TLC
    <Module>_<run>.cfg    one configuration per run
    PROJECT.json          components, runs, mutants, source map, hazards, theorems

Run one with `tlc -config Wireless_queue.cfg MCWireless`, check the proofs with
`tlapm Wireless_proofs.tla`. `Unetmsg_proofs` and `BmtV2_proofs` take five to eight
minutes each, `Nmbm_proofs`, the largest, about fifteen minutes.

**Settings.** A device comes in several variants (with or without interrupts,
remap ranges, factory bad blocks) and meets several kinds of trouble (power
losses, failing blocks, lost links). Most modules take them as the constant
`Settings`, a set of records that the MC module defines. `Init` chooses one
setting and keeps it in the variable `env`, whose counters (`faults`, `crashes`,
`events`, `flips`, ...) bound the trouble still to come and are counted down.
One run so covers all variants, and a property may say for which it is meant.

## 1. Inventory

Paths are relative to `src/`. *WD* is
`package/network/config/wifi-scripts/files/lib/netifd/wireless-device.uc`, *WU*
is `wireless.uc` next to it, *NM* is
`target/linux/generic/files/drivers/mtd/nand/mtk_bmt_nmbm.c`, *BM* is
`mtk_bmt.c` next to it.

### Wireless device manager (WD, WU) — modelled in part

State: per radio a `wdev` object (state down/setup/up/teardown, `autostart`,
`retry`, `retry_setup_failed`, `config_change`, `delete`, `data`,
`handler_config`, `disabled_vifs`, `ifindex_cache`, `procs`); globally the map
`wdev_handler` of waiting operations, the single script slot
`wdev_cur`/`wdev_script_task`, its 30 s timeout, and `handler_timer`.

Operations: ubus `up`, `down`, `retry`, `reconf`, `notify`, `status`,
`validate`; configuration load (`config_init`, then `config_start`);
`check_interfaces` on network changes; the process watch; end, timeout and
failed start of a script.

Interactions: netifd's C core calls in through ubus and callbacks; the manager
starts `mac80211.sh` as a process, which calls back through `notify`; all
radios share one script slot.

Hard: requests that replace waiting ones, completion callbacks that find
another state than the one they were queued in, timeouts, reconfiguration while
a script runs, deletion during teardown, wake-up of the queue by one timer.

Correct means: no operation is lost or doubled; no radio runs an old
configuration unnoticed; a radio that failed stays down until reset, one that
should run is not forgotten; everything settles; the slot is shared fairly; a
stopped radio goes down.

### NMBM bad block manager (NM, BM) — modelled in part

State: on the flash, a signature block and two copies (main, backup) of an info
table with block states, block mapping and a write count; in memory
`struct nmbm_instance` (block states, mapping, table places, the pool between
`mapping_blocks_ba` and `mapping_blocks_top_ba`, change counters, `protected`).

Operations: attach (create, load, rebuild, repair), remapping a logic block
from read, write, erase, isbad and markbad, updating the tables, five rescue
paths for tables that cannot be written, debugfs repair and mark_good.

Interactions: below, the NAND driver's erase/read/write; above, MTD, through
`mtk_bmt.c`, which calls `remap_block` when a block wears out.

Hard: a power loss at any flash operation, also during the repair after a power
loss; blocks that fail while the table that records failures is being written;
an almost exhausted pool.

Correct means: the data of a logic block is where the mapping says; the mapping
survives; no block has two owners; every operation ends.

### BMT v2 and BBT bad block managers (`mtk_bmt_v2.c`, `mtk_bmt_bbt.c`, BM) — modelled in part

State: v2 keeps in one table the mapping `bb_tbl` of every logic block and the
pool `bmt_tbl` of spare blocks, whose last entry in use holds the table itself;
bbt keeps only a bit map of bad blocks, from which the mapping is computed. Both
erase and write their table in place.

Operations: attach (load or scan), remap from read, write, erase, isbad and
markbad, the debugfs files mark_bad, mark_good, repair and `debug` (free the
unused entries; rewrite the table).

Hard: no lock around a table that several callers change; retries on a block
looked up before the remap; a power loss between erasing and writing the only
table; moving the table when its block fails; ranges that overflow.

Correct means: data stays where the mapping says and the mapping is on the
flash, as long as the table itself can be written; no block has two owners; a
lost table costs no more than it must.

### unetmsg (`package/network/services/unetmsg`, *UR* is `unetmsgd-remote.uc`) — in part

State: per daemon the handles that publish or subscribe a name, the mirror of
what other hosts announce, and per network the peers, their outgoing and
incoming channels and one timer; per channel the authentication state.

Operations: clients come and go; channels are opened, accepted, authenticated,
refused, timed out and closed; announcements are sent and mirrored; unetd
changes the peers; requests are routed.

Hard: two channels per pair of hosts that come and go independently, an old and
a new channel of one peer at a time, timers that race answers, one timer as the
only wake-up after a loss.

Correct means: the mirror is that of the current channel; a lost peer is tried
again; subscribers hear of a publisher as soon as it can be reached; in the end
everyone knows what there is.

### gpio-button-hotplug (*GB*, `package/kernel/gpio-button-hotplug/src`) — in part

State: per button `last_state`, the debounce counter, a delayed work and an
interrupt; queued uevents. Operations: poll, interrupt, delayed work, event
work, probe and remove. Hard: all of them run concurrently; removal while works
and interrupts are pending; what the first report of a button may be. Correct
means: every lasting change is reported, nothing else is, and removal leaves
nothing behind.

### hostapd and wpa_supplicant control scripts (*HU* `hostapd.uc`, *WS* `wpa_supplicant.uc`) — in part

State: in hostapd the configuration of each radio, a pending configuration that
waits for answers of wpa_supplicant, the running interface and its BSSs; in
wpa_supplicant the client interface, its state and start timers. Operations:
`config_set` at both, `phy_set_state`, `phy_status`, `apsta_state`, state changes
and channel switches of the client interface, reloading a configuration in
place. Hard: the answers of an aborted call arrive later; the client interface
changes while the access point starts; each process calls the other; addresses
and names are exchanged among running BSSs. Correct means: the access point is
on the channel of the client interface or silent, both run what was configured
last, nobody waits for ever, addresses are unique and as configured, and
interfaces are restarted only if that is needed.

### Setup script interface (`netifd-wireless.sh`, `wireless/mac80211.sh`) — in part

What a script tells netifd (up, a process, a final failure), in the order of
`drv_mac80211_setup`, and that it ends or is timed out (`Wireless`); in which
order it configures wpa_supplicant and hostapd (`ApSta`).

### Not modelled

| Component | Why |
|---|---|
| MediaTek HNAT (`mtk_hnat/*.c`, 13 500 lines) | packet hooks around tables and registers of hardware whose behaviour the repository does not hold; only the list of multicast groups in `hnat_mcast.c` is plain software, a candidate for later |
| switch tools and PHY drivers (`switch_fun.c`, `an8855_sdk`, `rtl8367c`) | vendor code that reads and writes registers one by one and keeps no state of its own |
| full cone NAT | kernel and nftables patches; the code they change is not in the tree |
| sysupgrade scripts, `mtd` tool | sequential programs around flash writers |
| mtwifi configuration scripts, LuCI applications | conversion of configuration for a closed driver, forms |
| build system, host tools, patches, device trees | not a program with state, or vendored |

The hazards, each at its line with the properties that cover it, are in
`PROJECT.json`.

## 2. Wireless

**State.** One record per radio with the fields above. `queue[d]` is the
operation of `wdev_handler[d]`; its time stamps are kept as an order only:
`ahead[d]` is the set of radios whose waiting request is older. `time()` has a
resolution of a second, so with `CoarseClock` a request may tie with the newest
ones; ties are then served in any order, since the order of `keys()` is not
something callers may rely on. `applied` is a history variable: the handler
configuration the last setup script of a radio was given.

**Atomicity.** netifd is single threaded, so a callback is atomic. Two loops
inside a callback are unrolled, and nothing else can happen while one is active
(`Quiet`): the loop over radios of a ubus call, configuration load or network
change (`call.todo`), and `run_next_handler` (`draining`), which is the last
thing each of its callers does.

**Methods** are operators on the record (`Setup`, `Teardown`, `Check`,
`Update`, `Start`, `Stop`, `Destroy`, ...). `Apply` stores the result and, when
the method has moved the state to setup or teardown, queues that operation.
`retry` is unset in a new object; ucode compares null as 0, hence `retry |-> 0`.

**Abstractions.** A configuration is a model value. All interfaces of a radio
belong to one network, disabled or with the ifindex of its bridge. Left out:
handler data and the link notifications made from it (`handle_link`, hotplug,
SET_DATA), MLO, `validate` and `status`. What `config_init` parses out of UCI is a
choice of the configuration. Setup scripts report up and their processes; setup and
teardown scripts may say that no retry is wanted (`_wdev_prepare_channel` runs in
both). netifd's cancel of a script is taken not to call back: the timeout and the
end of a script are two ways of one completion (`ScriptTimeout`, `ScriptExit`), so
that a completion counted twice cannot be expressed.

### Runs

| Run | Instance | Shows |
|---|---|---|
| `wireless_queue` | 2 radios, 2 configurations, 2 events, coarse clock, fairness; 0.48 M states | `TypeOK`, `HandlerMatchesState`: state, waiting operation and running script always agree; `Served`: no waiting operation starves |
| `wireless_config` | 1 radio, 2 configurations, 2 bridges, 5 events, fairness; 0.39 M states | `StaleIsFlagged`, `FailedIsDown`, `NotForgotten`; `Settles`: after the last event a radio settles, and one that should run is up unless it gave up |
| `wireless_down` | 1 radio, 2 events, fairness | `DownDisables` is **violated**, see findings |

**Bounds.** `MaxCalls` bounds the events of the environment: ubus calls,
configuration loads, network changes, dying processes, failing starts and
`wireless_setup_failed`. Two radios are the least that compete for the slot; two
events let both be configured and disturbed. With one radio five events cover
configure, change, stop, change, start in any order. `DefaultRetry` 1 (the code
has 3) gives a first failure, a retry and giving up. The safety properties
do not depend on the bounds: they are proved. No symmetry
is used, since the runs check liveness too.

**Fairness.** Weak fairness of the event loop's own work: finishing a callback,
`handler_timer`, the script timeout, the end of a configuration load. The
timeout is a uloop timer armed with every script and cancels it, so no
assumption about scripts is needed. Nothing is assumed of the environment; that
it falls silent comes from `MaxCalls`, so the liveness runs say what happens
after the last event.

### Proofs

`Wireless_proofs` proves for every set of radios, configurations and networks,
every retry limit and every bound on the events:

- `TypeCorrect`: `TypeOK`, in particular that `retry` stays in its range;
- `HandlersAgree`: `HandlerMatchesState`;
- `StaleConfigFlagged`: `StaleIsFlagged`;
- `FailedStaysDown`: `FailedIsDown`;
- `NobodyForgotten`: `NotForgotten`;
- `OldestFound`: with finitely many radios, `run_next_handler` finds an oldest
  entry whenever any waits. This is what makes its search well defined: a strict
  order on a finite set has a least element (shown by cardinality, since `ahead`
  of a member of `ahead[d]` is a proper subset of it).

The assumptions are those of `WirelessAssumption` (numbers are naturals, the
special values differ from the others, there is a configuration).

They, but for the last, follow from one inductive invariant `IInv` (`InductiveInvariant`). The
properties are not inductive by themselves. Added are: a setup script that has
not reported up belongs to a radio in setup or teardown with no second setup
waiting (else the end of the script would be taken for that of the second one
before the first reported); a deleted radio is never to be started; an absent
radio is down; a configuration load in progress still has its `config_start` to
come. The invariant speaks of one radio at a time (`DeviceInv`). Every method
except the completion callbacks is shown to be `Legal`, a relation between the
record before and after; `LegalStep` shows that a legal step keeps `IInv`. The
callbacks have lemmas of their own, and each action a lemma. `OldestFound` rests on
the lemma that `ahead` stays a strict order: an entry joins behind all others
(`ApplyOrdered`) or leaves (`LeavesOrdered`).

Model-checked only: the liveness properties (out of the prover's reach).

## 3. NMBM

**State.** `ni` is `struct nmbm_instance`; `dirty` stands for
`block_state_changed || block_mapping_changed`, which the code always tests
together. `pc` says where the sequential driver is, with the local variables
that outlive a flash operation. `flash` is the content of each block: erased,
junk, signature, a table (write count, mapping, block states) or a version of a
logic block's data. `badmark` are the blocks marked in their spare area, `want`
is what the user has stored.

**Steps.** One step is one flash operation with the computation up to the next
one, so `Crash` can come between any two and may tear the block being erased or
programmed. The functions that write tables are cut at their calls of
`nmbm_write_info_table`: `F` runs to the first call, `FNext` goes on with a
result. `nmbm_write_mgmt_range`, `nmbm_erase_range` and the signature writer are
the common actions `EraseBlock`, `ProgramBlock`, `BlockFails` and `RangeEnds`.
When a new main table is written below the temporary one, the temporary one
always becomes the backup; the rest of `nmbm_rescue_main_info_table` cannot be
reached and has no counterpart in the model.

**Abstractions.** An info table takes one block. Pages are not modelled: a copy
or a user's write happens at once, and a user's write does not fail half way. A
junk block may or may not read with an ECC error when attaching. A remap happens
to blocks that are worn out (`env.fail`, at most `env.faults` times). Marking
a failed block in its spare area always works; the code ignores the result. Left
out: `unmap_block_nmbm` behind the debugfs files repair and mark_good, and remap
ranges.

**DurableMap** is the abstract specification: a mapping in memory that changes
one logic block at a time, and one on the flash that changes only by taking
over the whole mapping in memory, never gets lost, and is what the next attach
starts from. In `Nmbm` the mapping on the flash is `DiskMap`, what an attach
would load from the two tables. `DurableSpec` states that `Nmbm` implements it.
With it, main and backup table together behave like one atomic register.

### Runs

| Run | Instance | Shows |
|---|---|---|
| `nmbm_crash` | 13 blocks (2 logic); `Used`: 2 failing blocks among data and tables, 2 power losses, with and without a factory bad block; `Worn`: 4 failing blocks where the tables live, 1 power loss, both values of `bmt-force-create`; 0.36 M states | `TypeOK`, `DataSafe`, `Persisted`, `NoSharing`, `DurableSpec` |
| `nmbm_live` | 12 blocks, 4 failing, 1 power loss, fairness; 46 000 states | `Finishes`: attach, update and rescue end |
| `nmbm_shared` | a factory bad block in the pool, 3 remaps | `MapsToUnused` is **violated** |

**Bounds.** Thirteen blocks leave room for both tables, the spare blocks between
them and a pool of a few blocks; two crashes allow one during the repair after
the first. The failing blocks are put where the tables and the data are. Every
call of the table writer and of the eraser is reached in `nmbm_crash`.

**What the bounds exclude, on purpose.** With a pool too small for a backup
table the driver updates its only table in place, and a power loss then loses
the mapping; `DurableSpec` is therefore checked with enough blocks for two
tables and does not hold below. `DataSafe` and `NoSharing` are checked with
spare blocks that do not fail and are not bad: `remap_block_nmbm` ignores the
results of erasing and copying, and a bad block in the pool leads to the finding
below. The last two are listed as hazards.

**Fairness.** Weak fairness of the driver's own steps: it is a sequential
program that runs until it returns to its caller.

### Proofs (`Nmbm_proofs`)

The theorems hold for chips of every size, any number of spare blocks, any
setting, and any number of failing blocks and power losses. `NmbmAssumption`
only says that there is a logic block, that the management area is not empty and
that the settings are settings.

| Theorem | Hypotheses | Shows |
|---|---|---|
| `TypeCorrect` | none | `TypeOK`: with it no block number leaves the chip |
| `TablesKept` | `TakesTop` | the inductive invariant `Inv` of the tables |
| `MappingExclusive` | `TakesTop` | `NoSharing` |
| `MappingPersisted` | `TakesTop` | `Persisted` |
| `UnusedTaken` | `TakesTop` | `MapsToUnused` |
| `TablesDurable` | `TakesTop`, `TwoTables` | `DurableSpec`: `Nmbm` implements `DurableMap` |
| `DataPreserved` | `TakesTop`, `TwoTables`, `NewBlockWorks`, `ProtectedWhenFull` | `DataSafe` |

**Hypotheses.** Each is a state predicate, assumed always (`[]`), and excludes a
behaviour of the code under which a conclusion is false: on chips of 7 to 9 blocks
TLC finds `NoSharing` violated without `TakesTop`, `DurableSpec` without `TwoTables`,
and `DataSafe` without `TwoTables`, `NewBlockWorks` or `ProtectedWhenFull`.
(`Persisted` has `TakesTop` because its invariant does; no counterexample without it
is known.)

- `TakesTop`: when `nmbm_map_block` is called, the block at
  `mapping_blocks_top_ba` is good or the pool has no good block. Without it the
  pointer falls behind the block given out (NM:1567), the finding of
  `nmbm_shared`. `UnusedTaken` shows that nothing else leads to that finding: it
  proves, under `TakesTop`, the very property the run refutes.
- `TwoTables`: when the main table is updated there is a backup table. A single
  table is erased before it is written again, so a power loss between the two
  loses the mapping.
- `NewBlockWorks`: the block a logic block is remapped to can be erased and
  programmed. `remap_block_nmbm` ignores both results (NM:2228).
- `ProtectedWhenFull`: tables are write protected only when the pool is used up.
  A driver that is write protected for another reason goes on remapping, in
  memory only, and the next attach goes back to the old mapping.

None of the hypotheses is empty: in `nmbm_crash`, TLC finds all four to hold in
every state of the setting `Used`, with its failures, remaps and power losses,
and all but `NewBlockWorks` in every state of `Worn`, where there are no data.

**The invariant `Inv`.** `Persisted` and `NoSharing` are about the driver at
rest, but the flash an attach finds after a power loss may be the one of any
moment of an update, a rescue or a repair. `Inv` therefore describes the flash
between any two flash operations. `DiskOK` says what is on it: nothing, or one
signature and up to two tables, all below the signature, with mappings without
sharing above both, of which one is an earlier version of the other (`Older`:
write count, block states, lowest mapped block); the first table has left no
usable block in front of itself (`Tight`), so that the main table stays the first
one the search finds. `Fine` relates it to the memory: the memory has outgrown
every table (`Covers`), the tables lie below the pool (`Ordered`), the cached table
is newer than all on the flash (`CacheReady`), and, at each of the thirteen places
where a table is written or a range erased, which tables are there
(`AtUpdateBackup` ... `AtRescueMain`). The places have lemmas for a table that is
written (`...Written`) and for a range without a usable block (`...Fails`); erasing
and a block that wears out are the same for all (`WornKeeps`).
`InvAttachLoad` shows that the search of an attach finds the newest of the
tables and makes of it a memory that `Fine` allows.

**The refinement.** `DiskRead` turns `DiskMap`, what an attach would load, into
a statement about the tables on the flash. With it every step is shown to leave
`DiskMap` alone, to replace it by the mapping in memory, or to change one entry
of the mapping in memory (`MappingStays`, `MappingCommitted`, `MappingChanges`,
`MappingTaken`), which are the steps of `DurableMap`.

**The data.** `DataInv` adds that the data of a logic block is where both the
mapping in memory and the one on the flash have it (`DataKept`), except for the
block being remapped, whose data is still in the old block; and that the two
mappings agree whenever data may be written (`Settled`). `Inv` and `DataInv` were
checked with TLC before they were proved, on chips of 7 and 9 blocks all of which
may fail, and `Inv` on the instance of `nmbm_crash`.

Model-checked only: `Finishes` (liveness).

## 4. BMT v2

**State.** `bbt` is `struct bbbt` (mapping and pool), `idx` is `bmt_blk_idx`,
`databuf` the page buffer that all callers share, `pc[t]` where caller `t` is
with its local variables. `flash`, `badmark` and `want` are as in `Nmbm`; `worn`
is a history variable, the blocks that have ever failed, been torn or remapped.

**Steps.** Several callers may be inside the driver, which takes no lock. A step
is one flash operation of one caller; taking an entry of the pool has two steps
(`FindEntry`, `TakeEntry`), as nothing keeps another caller out in between.
`upload_bmt` is `BmtErase` and `BmtWrite` with `UploadRetries` for its fallback
to the entry before, and `UploadFails`. `Returns` is the way back into
`mtk_bmt_read` and the others, with their retry.

**Abstractions.** Pages are not modelled: a block is written by one call. Users
do not start an operation on a logic block while another one is under way, and
erase before they write. What a search of the pool with the index `(u16)-1` would
read behind the table has no counterpart. The table is written by one operation; a
torn one is junk. On flash it takes nine pages or more and `is_valid_bmt` looks at the
first one, see the observations. `TakeEntry` has the test `new_block == 0`: an entry
that another caller has cleared in between is marked as mapped and the remap fails.

**No refinement.** BMT v2 and BBT do not implement `DurableMap`: they erase their
only table before they write it, and a power loss in between loses it. The
promises of v2 are therefore stated for power losses outside the table update,
and as the bound `PrefixSafe` on what a lost table costs; those of BBT for a
device that attaches.

**Run** `bmtv2_safe`, 8 blocks (4 logic, of which 2 are the PMT; 4 in the pool),
1.6 M states, with four settings: `Failing` (failing data blocks, a power loss,
factory bad blocks), `Torn` (the table update fails or is cut off, on a chip
where there is no other entry for the table, too), `Shared` (two callers, one
failing block), `Debug` (the debugfs files).

- `DataSafe`, `Persisted`, `NoSharing` unless the update of the table fails or is
  cut off: written data is where the mapping points, also after retries and with
  a second caller; an attach would load the table in use; no block has two
  owners, the entries still to be given out included.
- `PrefixSafe` in all settings: in front of the first block that has ever failed,
  a rescan finds everything.
- `TypeOK`, in particular that retries are counted.

`ScanBadBlocks` gives what the two loops of `scan_bad_blocks` compute in closed
form, so that it can be reasoned about: the n-th valid block. `ScanIsLoops` in
`MCBmtV2` compares it with the loops as they are in the code, for all sets of bad
blocks of the instance.

**Proofs.** `BmtV2_proofs`, for chips of every size, any number of failures and
power losses and any limit of the retries:

- `TypeCorrect` (`TypeOK`) in all settings, with any number of callers and a table
  that cannot be written. The invariant adds that an entry about to be used is one,
  and that a write has its logic block for itself (`Placed`).
- `TablePersists` (`Persisted`) and `NobodyShares` (`NoSharing`) in orderly use.
- `DataKept` (`DataSafe`) in orderly use, if the blocks of the pool do not fail.
- `PrefixPreserved` (`PrefixSafe`) in steady use, where the table may fail or be cut
  off at any point.

*Orderly use* (`OrderlyUse`) is a hypothesis on the settings: there is one caller;
of the debugfs files only `mark_bad` is used; and the chip fits the driver
(`FitsChip`): its pool has a second good block, and no logic block of the remap range
is shifted onto a block behind it. With two callers the invariant is false: nothing
keeps one out while the other takes an entry, so that both can get the same one
when two blocks fail. The files repair and mark_good map a logic block to itself,
which on a chip with factory bad blocks may be the block of another one, and `debug`
frees the entry of logic block 0. What happens on a chip that does not fit is in the
observations. That the pool lasts (`PoolAlwaysLasts`) is needed because
`remap_block_v2` looks at the result of neither the erase of the new block nor the
copy to it. `Failing` meets both hypotheses; `Shared` and `Debug` are checked only.

The table is the only one on the flash and is erased before it is written, so the
invariant `OrderInv` says what an attach would find if the power went now. `Layout`
is what makes a table sound: its own entry is the last one in use and marked, pool
and mapping meet only at entries marked as mapped, and the mapping is one to one.
Between operations the flash holds the table in memory (`TableThere`); during a
remap it still holds the table of before, which differs in one logic block only
(`OldTableThere`); while it is updated the power stays on, by the hypothesis of the
property. After a power loss there is one table with `Layout` on the flash
(`StoredIn`), or the chip is as new (`New`), and a scan gives a table with `Layout`
(`ScanLayout`, from the counting lemmas of `Ranks_proofs`). `DataInv` adds where the
data is: in the block in use, and during a remap in the old block, with a copy on
its way to the new one (`KeptBy`); and that a block to be written is erased at every
try (`WriteReady`).

*Steady use* (`SteadyUse`) is the hypothesis of `PrefixPreserved`, which all four
settings of the run meet. A setting is steady if there is one caller where the table
may fail; if on the new chip no logic block of the remap range is shifted onto the
block of one outside (`Apart`); and if mark_good and repair are used only on a chip
without bad blocks in front of the pool. There may be any number of callers where the table does not fail, all debugfs
files, and failing blocks in the pool. None of the three can be left out; TLC finds
`PrefixSafe` violated without each:

- two callers and a failing table: `upload_bmt` of one caller clears the entry whose
  block fails while the other is about to write the table there; he then reads 0
  from the entry and erases block 0;
- a range that ends behind a bad block: the last logic block of the range and the
  first one behind it have the same block;
- mark_good behind a bad block: `unmap_block_v2` gives the logic block the block of
  its neighbour.

Here nothing can be said about which table an attach finds: it may be an old one, or
none, and the scan that follows may take a block that cannot be read for a bad one. So
`PrefixInv` does not name a table but says what all of them have in common. Let `fac`
be the bad blocks of the new chip, and a block be *touched* if it or a block in front
of it has failed. In every table, in memory, in the page buffer and anywhere on the
flash, each logic block is where the first scan put it (`First`), or else both places
are touched; and the pool is behind the last of them (`Sound`). A block that is lost is
touched or in the pool (`Harmless`), so that a scan of the chip of now moves touched
blocks only (`ScanFollows`, from `NthShrinks`: without some of its elements, a set
has higher ones at each place, and the same ones in front of all of them). With the
places of the callers (`Right`, `UpTo`) this gives that a block which is not touched is
changed only by a call on its own logic block.

The lemmas of an action are named after it: `...Types`, `...Order`, `...Safe` for the
data and `...Prefix`.

## 5. BBT

**State.** `bad` is the bit map, `tbl` the block of the table, `moved` a history
variable: logic blocks that a mark has moved away from their data, which the
driver knows and leaves to its users. The driver is taken as sequential.

**Mapping.** `MappingIn` is `get_mapping_block_index_bbt` for one range: the n-th
good block, and behind the last good one the bad blocks. Without a remap range
the limits are shifted as if they were addresses, so that the range is empty
(`Shifted`).

**Run** `bbt_map`, 9 blocks, three settings: `Used` (two ranges with a gap,
failing blocks, a power loss, data), `Marked` (two adjacent ranges and any of
the 32 sets of bad blocks, with the debugfs files), `Bare` (no range).

- `MappingSound`: for any set of bad blocks the mapping is one to one, never hits
  the table, and gives out a bad block only when all good ones are in use.
- `MovesUpOnly`: marking a block moves only logic blocks of the same range at or
  behind the failed one.
- `DataSafe`, `Persisted`, `TypeOK`: data that was not moved stays reachable, and
  the table in use is the one on the flash.

A power loss may cut off the update of the table; the next attach then finds no
table and fails (`AttachFails`), from which nothing in the driver recovers, so the
properties speak of a device that is attached. What was to be copied at a power
loss is left behind, since the table is written first. The block of the table does
not fail otherwise.

**Proofs.** `Bbt_proofs`, for every size of the chip, every set of bad blocks, any
number of failures and power losses and all remap ranges that do not overlap
and end in front of the table's blocks (`RangesApart`, part of `BbtAssumption`):

- `MappingOneToOne`: two logic blocks never share a block, whatever is bad (the
  mapping is not monotone: at the end of a range it falls back to bad blocks). The
  argument counts: the place of a block among the good blocks of its range, or
  behind them among the bad ones, is a bijection onto the indices of the range
  (`BelowInjective`, `BelowOnto` of `Ranks_proofs`), and the two loops of
  `get_mapping_block_index_bbt` invert it.
- `MappingIsSound` (`MappingSound`) and `OnlyUpwards` (`MovesUpOnly`) build on it.
- `TypeCorrect` (`TypeOK`) and `TablePersisted` (`Persisted`) from the invariant
  `TableInv`: the table's block is behind all data, and while no write of it is
  under way the highest table on the flash is the one in memory, which an attach
  after a power loss then finds.
- `DataIsSafe` (`DataSafe`): on an attached device no erase and no copy hits the data
  of another logic block. It does not say that a mark leaves data reachable: the
  logic blocks that a mark moves, which are all later ones of the range, are exempt.
  It follows from `DataInv`, which adds what is on the flash while
  the table update, the erase or the copy is under way, and what an attach would
  find if the power went now (`DiskHeld`). It has the hypothesis `RewriteSafe`:
  where power can go, the debugfs file `debug` is not used to rewrite the table.
  Without it the property is false, see the observations. The run has no such
  setting either.

## 6. Unetmsg

**State.** `host[h]`: the handles of local clients, the names ever used
(`named`), the mirror of the other host (`remote`), what unetd says of the other
host (`peer`), the timer of the network, and the connections in `tx_channels`
and `rx_channels`. `conn[c]`: one TCP connection with the `sock_data` at both
ends and a queue each way that ends in `eof`. `told` is a history variable: the
hosts whose subscribers were told something in this step.

**Steps.** A daemon is single threaded; an action is one callback: a message or
the end of a stream arrives, a timer fires, a client or unetd calls. `Restart`
and `LinkLost` are failures. A timer that is not `late` fires only when no answer
is on its way; `env.late` of them may fire early.

**Abstractions.** Two hosts, one network, one name. Tokens are valid or not.
Requests and messages routed over the channels, and access lists of clients, are
left out. A lost link is noticed at both ends, sooner or later, as TCP does when
something is sent; nothing in the daemons guards against a silent peer on an idle
connection, and `Converges` depends on this. An update of unetd may change nothing
and still sets the timer. Reopening a network succeeds: a failing `listen` (UR:419)
and the removal of a network (UR:539) are left out.

**Run** `unetmsg_mirror`, 3 connections, 2 or 3 events, 0.18 M states, settings
`Timely`, `Late` (timers race answers) and `Open` (peers without a list of
allowed names; timers are not late here, since `Converges` does not speak of such
peers and the other properties are proved for late timers too).

- `MirrorsCurrent`: what a host believes is what the current incoming connection
  has announced, also while an old and a new one overlap.
- `RetryArmed`: without an authenticated outgoing connection the timer is set.
- `ToldWhenReachable`: subscribers are told in the step in which a publisher gets
  within reach, in whatever order announcement and channel come.
- `Converges`: after the last event, hosts that are allowed to each other are
  connected and know what the other one publishes and subscribes.
- `TypeOK`.

**Proofs.** `Unetmsg_proofs`, for any number of connections, clients, events and
late timers, between two hosts:

- `TypeCorrect` (`TypeOK`), `RetryIsArmed` (`RetryArmed`), `ToldInTime`
  (`ToldWhenReachable`);
- `MirrorMatches`: what a host believes is what the current incoming connection
  has announced (the first half of `MirrorsCurrent`);
- `MirrorIsCurrent` (`MirrorsCurrent`): moreover, only peers that are allowed to
  announce are believed. It has the hypothesis that the settings do not mix peers
  without a list and peers with a list without the name (`Mixed`). The attempt to
  prove it without showed that it is false then, see the observations.

The properties need to know what can still arrive. The invariant `Valid` has three
layers. One connection (`InStep`): at most one request for authentication is on its
way, in front of everything else; "hello" and the answer are never on their way together;
nothing is behind the end of a stream; and the states of the two ends are at most
one step apart. Connections and tables (`Linked`): an entry of `tx_channels` or
`rx_channels` is a connection of that direction, open at this end, and every
authenticated incoming connection has its entry. Mirrors (`Mirrored`): the
mirrored list is that of the entry in `rx_channels`. As the callbacks are functions
from system states to system states that call each other, the lemmas follow them:
each says what its function keeps (`Valid`, the ends, the notifications) and what
it changes; an action's lemma composes those of the functions it calls.

**Bounds.** Three connections allow an old, a new and one of the other
direction; three events allow a client, a loss and a change of the peers.
**Fairness.** Weak fairness of callbacks and timers: uloop runs them. Nothing is
assumed of the environment, which ends with `env.events`.

## 7. Buttons

**State.** As in `struct gpio_keys_button_data`: `last`, `count`, queued `work`,
`irq` requested; `edge` for an interrupt not handled yet, `events` for uevents on
their way, `sent` for what userland was told; `pc` and `at` for the loops of
probe and remove over the buttons, `turn` for that of the poll. `run` is a history variable: how often in a
row the same value was polled.

**Steps.** The delayed work of a button, each iteration of the poll, the threaded
interrupt, the event work and each iteration of probe and remove are actions; a
work item is never run twice at a time. Delays are left out: what is queued may run at any
moment. Only with `quick` may the first work of a button come before its
interrupt is requested: it waits for the debounce interval otherwise. A button
whose line has no interrupt (`nomap`, GB:605) is passed over by the probe without a
first work; one whose interrupt cannot be requested (`noirq`) is read once. Buttons
with an interrupt of their own, which the driver says it does not support (GB:503),
and errors that end the probe are left out.

**Run** `buttons_report`, a key and a switch, 4 or 5 changes of the lines, 0.27 M
states, settings `Polling`, `Irq` (the key's interrupt cannot be requested), `Hasty`
(no delay, lost and overtaking uevents) and `Unwired` (the switch's line has none).

- `Quiet`: once remove is past a button, its work is not queued any more and
  cannot be, although interrupts of it may have been on their way.
- `EventsJustified`: a polled button is reported after enough equal polls only,
  and the first report of a key is never a release.
- `Reported`: the last state of each line gets to userland, with the exceptions
  the property names.
- `TypeOK`, in particular that the counter stays at its threshold.

**Fairness.** Weak fairness of probe, works and interrupts: the kernel runs what
is queued. Nobody has to press a button or remove the driver.

**Proofs.** `Buttons_proofs`, for any number of buttons and all settings, from
`ButtonsAssumption`:

- `RemovalIsQuiet` (`Quiet`). By itself it is not inductive: an interrupt could
  queue a work again. The invariant `IInv` adds that the interrupt of every button
  that removal is past, or is about to cancel the work of, is disabled; that the
  loop starts at the first button; and that a polled driver has no interrupts.
- `TypeCorrect` (`TypeOK`) and `ReportsJustified` (`EventsJustified`) from
  `ReportInv`: the counter of a polled button is the number of equal polls that
  have seen a value not reported yet (`CountsPolls`), and the first event of a key
  that userland does not know of is a press (`FirstIsPress`). Why the second holds
  takes the queue: a release can only be behind a press that is in it or was sent.

## 8. ApSta

**State.** hostapd: `config`, `pending` (state, configuration and the call whose
answer it waits for), `ap`; wpa_supplicant: `sta`, `timers`, `calling` (it waits
for hostapd); `toWpas` and `toHostapd` are the messages between them, in order;
`script` is what the setup script has left to do. `sta.csa` is the channel the client
interface is about to move to. Two history variables remember what the code forgets:
`unapplied`, a configuration that was only stored; `missed`, an access point that a
notice has not reached.

**Steps.** Both daemons are single threaded; an action is one ubus method, answer
or timer. hostapd does not wait for its calls, wpa_supplicant does. `Job` starts
a run of the setup script, at most one at a time, whose calls are actions of
their own. A channel switch has two steps: `ChannelSwitch` sends the notice
CH_SWITCH_STARTED, and `SwitchDone` changes the frequency that `phy_status` answers,
of which nobody is told (`wpas_ucode_event` passes on the start only).

**The access point** is up, stopped, or `woken`: `set_config` and `add_bss` set a BSS
up with beacons also while the interface is stopped, so that a reload during a scan
may leave some BSS beaconing. A call of hostapd may fail: a phy that cannot be
opened, an interface that cannot be added, a channel switch that is refused.

**Abstractions.** One radio with one access point interface and at most one
client interface; a configuration is a pair of radio and BSS part, which decides
whether it can be reloaded in place; whether `uc_hostapd_iface_start` without a
frequency starts the interface is open, since it reads an unset value. Every
frequency is known to `iface_freq_info`, and wpa_supplicant can open its phy. The
handler of exceptions in `iface_pending_next` (HU:259) has no counterpart: no step
of it is known to throw. Nor has the failure of `wdev_add` (HU:206), which returns
nothing.

**Run** `apsta_follow`, 3 configurations, 3 runs of the script, 3 changes of the
client interface on 2 frequencies, 1 failing call, 1.5 M states.

- `FollowsSta`: when nothing is on its way, the access point is on the channel of
  a connected client interface or on the one it moves to, and silent while it scans.
  Exempt are an access point that has `missed` the notice of a switch, and the
  silence of a `woken` BSS; TLC finds the property violated without either.
- `Restored`: the client interface that hostapd stopped runs again, and the
  access point has the configuration that was set last, unless it was only stored
  (`unapplied`: removed while pending, or its phy could not be opened).
- `ComesToRest`: the two do not wait for each other for ever.
- `TypeOK`.

**Proofs.** `ApSta_proofs`, for any configurations and frequencies and any number
of jobs, moves and faults: `TypeCorrect` (`TypeOK`), `ApFollows` (`FollowsSta`) and
`BothRestored` (`Restored`). The two properties speak of settled states only, so
the invariant has to say what is on its way before: the calls of hostapd are
answered in the order they were made, and the last one is the one that is awaited
(`CallsInOrder`); a message of wpa_supplicant is the last in the queue and about
the state that the interface is still in (`Notified`); a client interface that does
not run has a timer, a call of the script, a call of hostapd or an answer to come
that starts it (`StartComes`, with `StartsLater` for what the script has left);
the pending configuration, else the one in use, is the last that was set
(`ConfigCurrent`); and the access point is in tune unless a message is about to
say otherwise (`Tuned`), or will be after the answer that hostapd waits for
(`TunedByAnswer`). TLC has checked the invariant on the instance of the run.

**Fairness.** Weak fairness of the processes together; the script, timers and
messages are theirs. That the environment falls silent comes from the bounds.

## 9. BssReload

**State.** `config` is the configuration hostapd.uc keeps, `running` the BSSs in
hostapd's order, `file` and `how` are history variables: the last file and how it
was applied.

**Steps.** A configuration is applied in one callback, so `SetConfig` is one
action; the steps of `iface_reload_config` are functions (`FindExisting`,
`KeepFirst`, `DeleteUnused`, `RenameKept` and `RenameTmp`, `AssignBssid`,
`Applied`). `StepFails` is a call into hostapd that fails, after which the
interface is restarted. Names, contents and addresses are numbers. `MacaddrNext`
searches for a free address like `macaddr_next`; the address `macaddr_generate`
makes of an id is that id. `radio.others` are the addresses of other interfaces of
the radio, which `macaddr_init` collects in a reload and in a restart.

**Which BSS is kept.** `Same` compares what `bss_config_hash` hashes: comment lines
are dropped before, `#default_macaddr` among them, so that a BSS is kept when its
address changes between configured and generated.

**Run** `bssreload_apply`, any 3 configurations of up to 2 BSSs with static and
generated addresses (`Static`) and any 2 of up to 3 BSSs with generated ones
(`Rotated`), 5 300 states from some 10^5 transitions.

- `BssidsRight`: static addresses are as configured, and on a radio without static
  ones no two interfaces have the same.
- `ReloadKeepsApart`: a reload gives no address twice if the file does not and if
  no BSS that is kept changes from a configured address to a generated one, or
  back, or to another configured one.
- `ReloadsWhenPossible`: a restart has one of the reasons that the code and its
  comments give (`MustRestart`); swapping and rotating names is none.
- `TypeOK`: no temporary name stays.

## 10. Findings and observations

Two disagreements between the code and what it says of itself are kept as runs:

- *A radio stopped during its setup comes up* (`wireless_down`, WD:433).
  `stop()` only sets `cancel_setup`, which nothing reads, so `wifi down` during
  a setup is forgotten; `sbin/wifi:10` says that it disables devices.
- *A spare block is given out twice* (`nmbm_shared`, NM:1567).
  `nmbm_map_block` finds a good block by walking over bad ones but lowers
  `mapping_blocks_top_ba` by one only, so a later call can find the same block;
  the comment at NM:1543 says "Map a bad block to a unused spare block". The
  second owner erases the data of the first.

Further behaviours met with the models. They are not kept as runs; where a
property of a passing run would meet one, its statement or its setting leaves
the case out and says so.

| Where | What |
|---|---|
| NM:1475 | `nmbm_mark_tables_clean` after a write also clears a change that came after the table's content was made, so a block found bad during the write is not recorded; the comment at NM:1521 says the update is repeated until no new bad block is found |
| NM:1963 | `protected` keeps only the table update from writing, while the log says "Device is now read-only" |
| `mtk_bmt_v2.c:210` | the table moved to another entry is not marked there, so that `get_bmt_index` does not find it |
| `mtk_bmt_v2.c:182` | `get_bmt_index` returns 0 for none, and 0 is also the index of the table on a chip with a single good block in its pool: every attach takes the table for missing and scans again (`FitsChip`) |
| `mtk_bmt_v2.c:290` | a remap range that ends inside the data area (as in `mt7622-xiaomi-redmi-router-ax6s.dts:235`), with a factory bad block in front of its end: `scan_bad_blocks` shifts the last logic block of the range onto the first block behind it, which is mapped to itself, so that the two share a block (`FitsChip`) |
| `mtk_bmt_v2.c:274` | without an entry for the table the index becomes `(u16)-1` and is used |
| `mtk_bmt_v2.c:311` | the file that frees unused entries does not look at logic block 0 (`Debug` has a range that begins at 1) |
| `mtk_bmt.c:39` | two callers that remap at once mix their data in the shared page buffer (`Shared` has one failing block) |
| `mtk_bmt_bbt.c:53` | without a remap range nothing is mapped (`BadSkipped` asks for a range) |
| `mtk_bmt_bbt.c:180` | the old table is not erased (the code is under `#if 0`). After a rewrite through debugfs it stays behind, and a power loss during a later table write makes the next attach load it, with an old mapping (`RewriteSafe` leaves this out) |
| `mt7981b-elecom-wrc-x3000gs3.dts:223` | the remap ranges are given as start and size, while `mtk_bmt.c` takes start and end: the second and third are inverted, that is, empty (the ranges of `RangesApart` may be) |
| NM:1567 | because of the second finding, `NoSharing` of `Nmbm` does not hold for every setting; it is proved under `TakesTop` |
| GB:616 | a press between the first work of a button and the request of its interrupt is not reported (`Reported` leaves out `quick`) |
| `mtk_bmt_v2.c:209` | two callers upload the table: one clears the entry whose block fails while the other is about to use it and erases block 0 (`SteadyUse`) |
| `mtk_bmt_v2.c:165` | a table that was cut off behind its first page is taken for valid; if the page with the pool is missing, `get_bmt_index` finds no end of it (not modelled) |
| HU:840 | a configuration removed while the interface is pending comes back (`unapplied` in `ApCurrent`) |
| HU:851 | a configuration is stored before the phy is opened; when that fails it counts as the running one, so that setting it again changes nothing (`unapplied` in `ApCurrent`) |
| WS:698 | the notice of a channel switch that meets no interface of hostapd is lost, `phy_status` still answers the old channel, and the end of the switch is not passed on: the access point starts on the old channel and stays there (`missed` in `FollowsSta`) |
| `src/src/ap/ucode.c:304` | a reload while the access point is stopped makes the BSSs that are set up again beacon (`woken` in `FollowsSta`) |
| HU:691 | the static address of a new BSS may be the generated one of a reused BSS. The comment at HU:694 has the reused one reassigned then; but when the new BSS is not the first, the table of addresses names it already, no conflict is seen and both get the address. `ReloadKeepsApart` leaves out files in which the address is given twice |
| HU:698 | the comment at HU:697 says "can't update bssid of the first BSS, need to restart"; the condition below it, `!mac_idx < 0`, is never true, so that the first BSS gets another address without a restart. `MustRestart` has this reason all the same |
| HU:591 | a kept BSS that changes from a static address to a generated one, or back, or to another static one, can end up with the address of another BSS (`ReloadKeepsApart` leaves these out) |
| UR:476 | a peer without a list of allowed names that is removed is not disconnected; what it announces until it is a peer again is lost (`Converges` leaves such peers out) |
| UR:472 | a peer that within the 100 ms of `net.timer` goes from no list to gone and comes back with a list without the name keeps what it has announced: a peer that is not in `net.peers` is not compared, and no list equals none (`Mixed` in `MirrorIsCurrent`) |
| UR:315 | a name whose last publisher has left is announced again after a reconnect (`Converges` asks only that it was ever announced) |

## 11. Mutants

Each property of a passing run has a mutant: a definition marked `Mutant:` in
the module, a plausible slip in the code such as a dropped test, a missing timer
or a wrong end of a loop, under which TLC finds the property violated.

## 12. What is proved, what is checked only

Proved with TLAPS, for every value of the constants that the named assumptions
allow:

| Module | Proved | Checked with TLC only |
|---|---|---|
| `Wireless` | all safety properties of the passing runs | `Served`, `Settles` |
| `Bbt` | all properties; `DataSafe` under `RewriteSafe` | |
| `Unetmsg` | all safety properties; `MirrorsCurrent` for unmixed settings | `Converges` |
| `ApSta` | all safety properties | `ComesToRest` |
| `Buttons` | all safety properties | `Reported` |
| `BmtV2` | `TypeOK`; `Persisted` and `NoSharing` in orderly use; `DataSafe` if moreover the pool lasts; `PrefixSafe` in steady use | `Persisted`, `NoSharing` and `DataSafe` with two callers and with the debugfs files |
| `Nmbm` | `TypeOK`; `Persisted`, `NoSharing`, `MapsToUnused`, the refinement `DurableSpec` and `DataSafe`, each under the hypotheses of section 3 | `Finishes` |
| `BssReload` | | all properties |

Liveness depends on fairness, which is out
of the prover's reach. `BssReload` is
made of folds over lists of BSSs; what a fold computes for a list of any length is
an induction over data, out of reach too.

## 13. Plan

1. Done: `Wireless`, `Nmbm` and `DurableMap`, `BmtV2`, `Bbt`, `Unetmsg`, `ApSta` and
   `Buttons` with proofs; `BssReload`.
2. Models: requests in `Unetmsg`; handler data and the links made from it in
   `Wireless`, so that the stale links of WD:137 can be stated;
   `unmap_block_nmbm` and tables of two blocks in `Nmbm`; the multicast groups of
   `mtk_hnat`.
