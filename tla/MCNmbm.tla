------------------------------- MODULE MCNmbm -------------------------------
(* Instances of Nmbm for TLC. *)
EXTENDS Nmbm

\* Blocks of data and tables fail and the power goes twice, on new chips with a bad
\* block in the data area or none.
Used == [force |-> {TRUE}, bad |-> {{}, {0}}, fail |-> {0, 1, 2, 5},
         faults |-> 2, crashes |-> 2, data |-> TRUE]

\* So many blocks around the tables fail that every rescue path is taken.
Worn == [force |-> BOOLEAN, bad |-> {{}}, fail |-> {1, 2, 3, 4, 11},
         faults |-> 4, crashes |-> 1, data |-> FALSE]

AllSettings == {Used, Worn}

\* The same without data and in fewer places.
Tired == {[Worn EXCEPT !.force = {TRUE}, !.fail = {1, 2, 3, 4}]}

\* A bad block in the pool of spare blocks, and no power loss.
Pool == {[Used EXCEPT !.bad = {{9}}, !.fail = {0, 1, 10}, !.faults = 3, !.crashes = 0,
                      !.data = FALSE]}
=============================================================================
