----------------------------- MODULE MCUnetmsg -----------------------------
(* Instances of Unetmsg for TLC. *)
EXTENDS Unetmsg

\* All kinds of events, and timers that wait for the answers.
Timely == [peers |-> {"no", "deny", "ok"}, events |-> 3, late |-> 0,
           disturb |-> {"clients", "update", "reopen", "restart", "link", "tokens"}]

\* Timers that race the answers.
Late == [Timely EXCEPT !.late = 1, !.events = 2]

\* Peers without a list of allowed names.
Open == [Timely EXCEPT !.peers = {"no", "any"},
                       !.disturb = {"clients", "update"}]

AllSettings == {Timely, Late, Open}
=============================================================================
