------------------------------ MODULE MCMmagic ------------------------------
(* Instances of MmagicLink for TLC.                                        *)
EXTENDS MmagicLink

Of(counts) == [h \in Happenings |-> IF h \in DOMAIN counts THEN counts[h] ELSE 0]

\* Calls on a link with faults; a sync and a reset on one that repeats packets
\* or whose agent restarts; calls that are given up.
MCBudgets ==
    { Of([call |-> 4, lose |-> 1, timeout |-> 1]),
      Of([call |-> 3, repeat |-> 1, crash |-> 1, timeout |-> 1]),
      Of([call |-> 4, event |-> 1, repeat |-> 2]),
      Of([call |-> 2, lose |-> 1, repeat |-> 1, timeout |-> 1]),
      Of([call |-> 1, sync |-> 1, reset |-> 1, event |-> 1, repeat |-> 1]),
      Of([call |-> 1, sync |-> 1, reset |-> 1, lose |-> 1, crash |-> 1]) }
=============================================================================
