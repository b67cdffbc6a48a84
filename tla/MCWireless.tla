----------------------------- MODULE MCWireless -----------------------------
(* Instances of Wireless for TLC: every constant gets its value in the cfg. *)
EXTENDS Wireless
=============================================================================
