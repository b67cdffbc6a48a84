----------------------------- MODULE BssReload -----------------------------
(***************************************************************************)
(* iface_reload_config of hostapd.uc: a new configuration of the access    *)
(* points (bss) of a radio is applied to the running hostapd by keeping,   *)
(* renaming, deleting, adding, reordering and changing them, and by        *)
(* restarting the interface if that does not work.                         *)
(*                                                                         *)
(* A configuration is applied within one callback, so that iface_set_config*)
(* is one action; its steps are functions of a record r that holds the new *)
(* configuration, the table of addresses and the bss that run.  Interface  *)
(* names, addresses and the contents of a configuration are numbers; the   *)
(* address with id a, as macaddr_generate counts them, is a.  What runs is *)
(* what hostapd was given; StepFails stands for all that hostapd and the   *)
(* driver refuse.                                                          *)
(***************************************************************************)
EXTENDS Integers, Sequences, FiniteSets, SequencesExt, FiniteSetsExt

CONSTANTS
  Radios,     \* radios to consider
  LastAddr    \* the last address macaddr_next tries, large enough never to be passed

Addrs == 0 .. LastAddr

\* fullmac and mbssid: phy_is_fullmac and config.mbssid; names, contents, statics:
\* the interface names 1 .. n, the lines of a bss without name and address, and the
\* addresses that a configuration may have; others: the addresses of the other
\* interfaces of the radio, such as a client; max: how many bss it may have; sets:
\* bound on the configurations set.
ASSUME BssReloadAssumption ==
  /\ \A r \in Radios :
       /\ r.fullmac \in BOOLEAN /\ r.mbssid \in BOOLEAN
       /\ r.names \subseteq 1 .. 99 /\ r.statics \union r.others \subseteq Addrs
       /\ r.max \in Nat \ {0} /\ r.sets \in Nat
  /\ LastAddr \in 0 .. 31

TmpName(n) == 100 + n

VARIABLES
  radio,     \* the radio's member of Radios
  config,    \* hostapd.data.config[name].bss
  running,   \* hostapd.bss[name], in the order of hostapd
  file,      \* history: the last configuration file, and
  how,       \* how it was applied
  sets

vars == <<radio, config, running, file, how, sets>>

BssConfigs == [ifname: radio.names, data: radio.contents, default_macaddr: BOOLEAN,
               bssid: Addrs]

-----------------------------------------------------------------------------
(* The configuration file, as the setup script writes it: interfaces without *)
(* an address get generated ones, in their order.                            *)

Files ==
  {f \in BoundedSeq([ifname: radio.names, data: radio.contents,
                    macaddr: radio.statics \union {-1}], radio.max) :
            /\ f # <<>>
            /\ \A i, j \in DOMAIN f : i # j =>
                 f[i].ifname # f[j].ifname /\ (f[i].macaddr = f[j].macaddr => f[i].macaddr = -1)}

Load(f) ==
  [i \in DOMAIN f |->
     [ifname |-> f[i].ifname, data |-> f[i].data, default_macaddr |-> f[i].macaddr = -1,
      bssid |-> IF f[i].macaddr # -1 THEN f[i].macaddr
                ELSE Cardinality({j \in 1 .. i - 1 : f[j].macaddr = -1})]]

TypeOK ==
  /\ radio \in Radios
  /\ config \in Seq(BssConfigs)
  /\ running \in Seq([ifname: radio.names, data: radio.contents, bssid: Addrs])
  /\ file \in Files \union {<<>>}
  /\ how \in {"none", "kept", "reloaded", "restarted", "failed"}
  /\ sets \in 0 .. radio.sets

-----------------------------------------------------------------------------
(* The table of addresses: the index of the bss it is meant for, counted     *)
(* from 0 as in the code, Taken (-1), or Free (null).                        *)

Free == -2
Taken == -1

\* iface_config_macaddr_list
MacaddrList(c) ==
  [a \in Addrs |-> LET is == {i \in DOMAIN c : ~c[i].default_macaddr /\ c[i].bssid = a}
                   IN  IF is = {} THEN Free ELSE Max(is) - 1]

\* macaddr_init adds the addresses of the interfaces there are.
MacaddrInit(list, there) ==
  [a \in Addrs |-> IF list[a] = Free /\ a \in there THEN Taken ELSE list[a]]

\* macaddr_next
MacaddrNext(list) == Min({a \in Addrs : list[a] = Free})

-----------------------------------------------------------------------------
(* iface_restart *)

\* The configuration with the addresses that it gets in a restart, when no bss
\* is left.
Restarted(c) ==
  FoldLeft(LAMBDA r, i : IF ~c[i].default_macaddr THEN r
             ELSE LET a == MacaddrNext(r.list)
                  IN  [r EXCEPT !.config[i].bssid = a, !.list[a] = Taken],
           [config |-> c, list |-> MacaddrInit(MacaddrList(c), radio.others)],
           [i \in DOMAIN c |-> i]).config

-----------------------------------------------------------------------------
(* iface_reload_config, step by step.  r.keep[i] is the index in the old     *)
(* configuration of the bss kept for bss i of the new one, 0 if there is     *)
(* none, and r.name[i] the name it has now, as bss_list_cfg[i] keeps it;      *)
(* r.used are the old ones that are not deleted; r.failed stands for         *)
(* "return false".                                                           *)

\* bss_find_existing and bss_config_hash: the same lines, but for those that name
\* a file and those that begin with #.  #default_macaddr is one of the latter, so
\* that a bss is kept if its address is configured now and was generated before.
Same(old, new) == old.data = new.data

\* Step 1 for bss i: a bss with the same contents is kept, and its address if
\* both are generated and it is not meant for another one.
FindExisting(r, i) ==
  LET same == {j \in DOMAIN config : j \notin r.used /\ Same(config[j], r.config[i])}
      prev == IF radio.fullmac /\ i = 1 THEN 1 ELSE IF same = {} THEN 0 ELSE Min(same)
  IN  IF prev = 0 THEN r
      ELSE LET addr == config[prev].bssid
               keeps == /\ r.config[i].default_macaddr /\ config[prev].default_macaddr
                        /\ r.list[addr] \in {Free, 0}
               t == [r EXCEPT !.keep[i] = prev, !.name[i] = config[prev].ifname,
                              !.used = @ \union {prev}]
           IN  IF keeps THEN [t EXCEPT !.config[i].bssid = addr, !.list[addr] = i - 1] ELSE t

\* Step 2: if there is none, the first one is kept, unless its address changes.
KeepFirst(r) ==
  LET t == [r EXCEPT !.keep[1] = 1, !.name[1] = config[1].ifname, !.used = {1},
                     !.config[1].bssid = config[1].bssid, !.list[config[1].bssid] = 0]
  IN  IF \E i \in DOMAIN r.keep : r.keep[i] # 0 THEN r
      ELSE IF r.config[1].bssid # config[1].bssid /\ ~r.config[1].default_macaddr
      THEN [r EXCEPT !.failed = TRUE] ELSE t

\* Step 3: the others are deleted.  hostapd does not delete its last one.
DeleteUnused(r) ==
  LET unused == {config[j].ifname : j \in DOMAIN config \ r.used}
      left == SelectSeq(r.running, LAMBDA b : b.ifname \notin unused)
  IN  [r EXCEPT !.running = IF left = <<>> THEN <<Last(@)>> ELSE left]

RunningNames(r) == {r.running[k].ifname : k \in DOMAIN r.running}

\* bss.rename, which fails if there is an interface of that name.
Rename(r, i, to) ==
  IF to \in RunningNames(r) THEN [r EXCEPT !.failed = TRUE]
  ELSE [r EXCEPT !.name[i] = to,
                 !.running = [k \in DOMAIN @ |-> IF @[k].ifname = r.name[i]
                                                 THEN [@[k] EXCEPT !.ifname = to] ELSE @[k]]]

\* Mutant: a name in use is not avoided.
RenameKeptHasty(r, i) ==
  IF r.keep[i] = 0 \/ r.name[i] = r.config[i].ifname THEN r ELSE Rename(r, i, r.config[i].ifname)

\* Step 4 for bss i: it gets its new name, or a temporary one while another bss
\* has that name.
RenameKept(r, i) ==
  LET new == r.config[i].ifname
  IN  IF r.keep[i] = 0 \/ r.name[i] = new THEN r
      ELSE IF new \in RunningNames(r)
      THEN [Rename(r, i, TmpName(new)) EXCEPT !.renames = Append(@, i)]
      ELSE Rename(r, i, new)

\* Mutant: temporary names stay.
RenameTmpNever(r, i) == r

\* Step 5
RenameTmp(r, i) == IF r.failed THEN r ELSE Rename(r, i, r.config[i].ifname)

\* Mutant: the address from the configuration file is used as it is.
AssignBssidAsRead(r, i) == r

\* Mutant: the bss that has a static address of another one keeps it.
AssignBssidGenerated(r, i) ==
  LET next == MacaddrNext(r.list)
  IN  IF r.keep[i] # 0 \/ r.list[r.config[i].bssid] = i - 1 \/ ~r.config[i].default_macaddr THEN r
      ELSE [r EXCEPT !.config[i].bssid = next, !.list[next] = i - 1]

\* Step 6 for bss i, a new one: if its address is meant for another bss, or
\* taken, one of the two gets another address: this one if it is generated,
\* else the bss it is meant for, the first one included.
AssignBssid(r, i) ==
  LET addr == r.config[i].bssid
      idx == r.list[addr]
      t == IF idx = Taken THEN [r EXCEPT !.list[addr] = i - 1] ELSE r
      next == MacaddrNext(t.list)
      target == IF r.config[i].default_macaddr THEN i ELSE idx + 1
  IN  IF r.keep[i] # 0 \/ idx = i - 1 THEN r
      ELSE [t EXCEPT !.config[target].bssid = next, !.list[next] = i - 1]

\* Steps 7 to 9: new bss are added, all are put in order, and those kept get
\* what is new.  The name of one that is kept does not change any more.
Applied(c, name) == [i \in DOMAIN c |-> [ifname |-> name[i], data |-> c[i].data,
                                         bssid |-> c[i].bssid]]

Names(c) == [i \in DOMAIN c |-> c[i].ifname]

Fold(op(_, _), r) == FoldLeft(LAMBDA s, i : IF s.failed THEN s ELSE op(s, i), r,
                              [i \in DOMAIN r.config |-> i])

\* iface_reload_config, after the checks that need no change.
Reload(c) ==
  LET r0 == [config |-> c, list |-> MacaddrList(c), keep |-> [i \in DOMAIN c |-> 0],
             name |-> Names(c), used |-> {}, running |-> running, renames |-> <<>>, failed |-> FALSE]
      r1 == Fold(FindExisting, r0)
      r2 == KeepFirst([r1 EXCEPT !.failed = radio.mbssid /\ r1.keep[1] = 0])
      r4 == Fold(RenameKept, DeleteUnused(r2))
      r5 == FoldLeft(RenameTmp, r4, r4.renames)
      there == {r5.running[k].bssid : k \in DOMAIN r5.running} \union radio.others
      r6 == Fold(AssignBssid, [r5 EXCEPT !.list = MacaddrInit(@, there)])
      added == Cardinality({i \in DOMAIN c : r6.keep[i] = 0})
  IN  IF r2.failed THEN r2
      ELSE [r6 EXCEPT !.failed = @ \/ Len(r6.running) + added # Len(c)]

\* config_set and iface_set_config.
SetConfig(f) ==
  LET c == Load(f)
      r == Reload(c)
      restarted == Restarted(c)
  IN  /\ sets < radio.sets /\ sets' = sets + 1 /\ file' = f /\ UNCHANGED radio
      /\ IF c = config THEN how' = "kept" /\ UNCHANGED <<config, running>>
         ELSE IF config # <<>> /\ ~r.failed
         THEN how' = "reloaded" /\ config' = r.config /\ running' = Applied(r.config, r.name)
         ELSE how' = "restarted" /\ config' = restarted /\ running' = Applied(restarted, Names(restarted))

\* An interface that is not enabled yet, or a call to hostapd that fails in any
\* step, ends in a restart too.
StepFails(f) ==
  LET restarted == Restarted(Load(f))
  IN  /\ sets < radio.sets /\ sets' = sets + 1 /\ file' = f /\ UNCHANGED radio
      /\ config # <<>> /\ Load(f) # config
      /\ how' = "failed" /\ config' = restarted /\ running' = Applied(restarted, Names(restarted))

Init == /\ radio \in Radios
        /\ config = <<>> /\ running = <<>>
        /\ file = <<>> /\ how = "none" /\ sets = 0

Next == \/ \E f \in Files : SetConfig(f)
        \/ \E f \in Files : StepFails(f)

Spec == Init /\ [][Next]_vars

-----------------------------------------------------------------------------
(* Properties. *)

Unique(bss) == \A i, j \in DOMAIN bss : bss[i].bssid = bss[j].bssid => i = j

\* No two bss have the same address, nor has one that of another interface,
\* however addresses were kept and generated before, on a radio without
\* configured addresses.
GeneratedApart ==
  radio.statics = {} =>
    Unique(running) /\ \A i \in DOMAIN running : running[i].bssid \notin radio.others

\* A bss has the address that is configured for it.
StaticBssids ==
  \A i \in DOMAIN file : file[i].macaddr # -1 => running[i].bssid = file[i].macaddr

\* The addresses that iface_reload_config hands to hostapd: as configured, and
\* generated ones for one bss each.
BssidsRight == StaticBssids /\ GeneratedApart

\* The bss of the new configuration that a reload keeps, and those among them
\* whose address is generated and was so before.
Reused(r) == {i \in DOMAIN r.keep : r.keep[i] # 0}
Generated(r, i) == r.config[i].default_macaddr /\ config[r.keep[i]].default_macaddr

\* A reload gives no address twice, whichever bss it keeps, deletes and adds, if
\* the file does not, and if no bss that is kept changes from a configured
\* address to a generated one, or back, or to another configured one: a static
\* address goes to the bss it is configured for, and the one that had it before
\* gets a free one.
ReloadKeepsApart ==
  [][LET r == Reload(Load(file'))
         old(i) == config[r.keep[i]]
         steady(i) == ~old(i).default_macaddr /\ file'[i].macaddr = old(i).bssid
     IN  /\ how' = "reloaded" /\ Unique(running) /\ Unique(Load(file'))
         /\ \A i \in Reused(r) : Generated(r, i) \/ steady(i)
         => Unique(running')]_vars

\* The reasons that iface_reload_config gives for a restart: the first bss is new
\* with MBSSID, no bss has the contents of an old one and the address configured
\* for the first is not its old one, or the address that the first one has is
\* configured for another one.
MustRestart(c) ==
  LET same(i) == {j \in DOMAIN config : Same(config[j], c[i])}
      none == ~radio.fullmac /\ \A i \in DOMAIN c : same(i) = {}
      firsts == IF none \/ radio.fullmac THEN {1} ELSE same(1)
  IN  \/ radio.mbssid /\ ~radio.fullmac /\ same(1) = {}
      \/ none /\ ~c[1].default_macaddr /\ c[1].bssid # config[1].bssid
      \/ \E i \in DOMAIN c \ {1}, j \in firsts :
           ~c[i].default_macaddr /\ c[i].bssid = config[j].bssid

\* An interface that runs is restarted only for such a reason, or if a call of
\* hostapd or the driver fails.  In particular the names of bss can be exchanged
\* and rotated, through names that are in use.
ReloadsWhenPossible ==
  [][how' = "restarted" /\ config # <<>> => MustRestart(Load(file'))]_vars
=============================================================================
