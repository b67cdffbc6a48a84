----------------------------- MODULE DurableMap -----------------------------
(***************************************************************************)
(* What a bad block manager promises of its block mapping: the copy in     *)
(* memory may change at any time, one logic block after the other, the     *)
(* copy on the flash changes only by taking over the whole copy in memory, *)
(* it never gets lost, and after a power loss the manager goes on with it. *)
(***************************************************************************)
CONSTANT Maps    \* the possible mappings, functions on the logic blocks

VARIABLES
  mem,     \* {the mapping in memory}, {} while not attached
  disk     \* {the mapping the next attach would load}, {} on a new chip

Init == mem = {} /\ disk = {}

Create == mem = {} /\ disk = {} /\ \E m \in mem' : mem' = {m} /\ m \in Maps

Attach == mem = {} /\ disk # {} /\ mem' = disk

Remap == \E m \in mem, n \in mem' :
           /\ mem' = {n} /\ n \in Maps
           /\ \E lb \in DOMAIN m : \A k \in DOMAIN m \ {lb} : n[k] = m[k]

Detach == mem # {} /\ mem' = {}

Commit == mem # {} /\ mem' = mem /\ disk' = mem

Next == \/ disk' = disk /\ (Create \/ Attach \/ Remap \/ Detach)
        \/ Commit

Spec == Init /\ [][Next]_<<mem, disk>>
=============================================================================
