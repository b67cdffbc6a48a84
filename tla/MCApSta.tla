------------------------------ MODULE MCApSta ------------------------------
(* Instances of ApSta for TLC. *)
EXTENDS ApSta

\* Two access point configurations that differ in a bss, one in the radio.
Aps == {[radio |-> 1, bss |-> 1], [radio |-> 1, bss |-> 2], [radio |-> 2, bss |-> 1]}
=============================================================================
