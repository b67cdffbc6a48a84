------------------------------- MODULE MCBbt -------------------------------
(* Instances of Bbt for TLC. *)
EXTENDS Bbt

\* Two remap ranges with a gap, as the device trees have them: blocks fail while
\* there is data, and the power goes.
Used == [ranges |-> {<<0, 3>>, <<4, 5>>}, bad |-> {{}, {1}}, fail |-> {0, 1, 3, 4},
         faults |-> 2, crashes |-> 1, writes |-> 2, files |-> {}]

\* Two adjacent ranges with any set of bad blocks, and the debugfs files.
Marked == [ranges |-> {<<0, 3>>, <<3, 5>>}, bad |-> SUBSET (0 .. NB - 5),
           fail |-> {0, 4}, faults |-> 1, crashes |-> 0, writes |-> 0,
           files |-> {"mark_good", "repair", "rewrite"}]

\* No remap range.
Bare == [Used EXCEPT !.ranges = {}, !.faults = 1, !.crashes = 0, !.writes = 1]

AllSettings == {Used, Marked, Bare}
=============================================================================
