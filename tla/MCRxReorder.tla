----------------------------- MODULE MCRxReorder ----------------------------
(* Instances of RxReorder for TLC.                                         *)
EXTENDS RxReorder

\* Frames of two TIDs over two sessions; enough of one TID to fill the list;
\* and both with numbers that wrap around.
MCBudgets ==
    { [frames |-> [t \in Tid |-> IF t = 0 THEN 3 ELSE 1], sessions |-> 2, faults |-> 1],
      [frames |-> [t \in Tid |-> IF t = 0 THEN 6 ELSE 0], sessions |-> 1, faults |-> 1] }
=============================================================================
