---------------------------- MODULE MCBssReload ----------------------------
(* Instances of BssReload for TLC. *)
EXTENDS BssReload

\* Two bss with the addresses that are generated first as static ones, beside a
\* client interface.
Static == [fullmac: BOOLEAN, mbssid: BOOLEAN, names: {{1, 2}}, contents: {{1, 2}},
           statics: {{0, 1}}, others: {{2}}, max: {2}, sets: {3}]

\* Three bss whose names and contents are exchanged and rotated.
Rotated == [fullmac: BOOLEAN, mbssid: {FALSE}, names: {1 .. 3}, contents: {1 .. 3},
            statics: {{}}, others: {{1}}, max: {3}, sets: {2}]

AllRadios == Static \union Rotated
=============================================================================
