------------------------- MODULE MCPollerLifecycle -------------------------
(* Two nodes, and configurations that turn the feature off, leave the       *)
(* settings incomplete, or ask for an interval below the floor.             *)
EXTENDS PollerLifecycle, TLC

CONSTANTS n1, n2

TwoNodes == {n1, n2}

TooFast == [enabled |-> TRUE, valid |-> TRUE, seconds |-> 5]
Off == [enabled |-> FALSE, valid |-> TRUE, seconds |-> 0]
Incomplete == [enabled |-> TRUE, valid |-> FALSE, seconds |-> 0]

Settings == {TooFast, Off, Incomplete}
=============================================================================
