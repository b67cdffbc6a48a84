----------------------------- MODULE MCButtons -----------------------------
(* Instances of Buttons for TLC. *)
EXTENDS Buttons

Second == {2}

\* The polled driver.
Polling == [polled |-> TRUE, threshold |-> 2, nomap |-> {}, noirq |-> {}, quick |-> FALSE,
            lossy |-> FALSE, flips |-> 5]

\* The driver with interrupts; the first button has none.
Irq == [Polling EXCEPT !.polled = FALSE, !.threshold = 0, !.noirq = {1}, !.flips = 4]

\* Little memory, and works that run at once.
Hasty == [Irq EXCEPT !.quick = TRUE, !.lossy = TRUE, !.noirq = {}]

\* The second button, the last one, is on a line without interrupts.
Unwired == [Irq EXCEPT !.nomap = {2}, !.noirq = {}]

AllSettings == {Polling, Irq, Hasty, Unwired}
=============================================================================
