---------------------------- MODULE MCDriverTask ----------------------------
(* Instances of DriverTask for TLC.                                        *)
EXTENDS DriverTask

Of(counts) == [b \in Bounded |-> IF b \in DOMAIN counts THEN counts[b] ELSE 0]

\* Packets of all queues; a pause of traffic and its end, with data; more than
\* the chip has room for; transfers that fail, with data to follow.
MCBudgets ==
    { Of([CMD |-> 1, MGMT |-> 1, DATA |-> 1, wake |-> 1]),
      Of([DATA |-> 2, pause |-> 1, resume |-> 1, wake |-> 1]),
      Of([CMD |-> 2, DATA |-> 2, wake |-> 1]),
      Of([CMD |-> 1, DATA |-> 1, frame |-> 1, wake |-> 1, fault |-> 1]),
      Of([DATA |-> 2, fault |-> 1]) }
=============================================================================
