---------------------------- MODULE MCTimeoutq ------------------------------
(* Small instances of UmacTimeoutq for TLC.                                *)
EXTENDS UmacTimeoutq, TLC

Symmetry == Permutations(Node) \cup Permutations(Key)

\* The state relative to the clock: no guard and no property looks at a time
\* but by its distance to now, nor at the fields of a node that is neither
\* queued nor in a hand.
Relative ==
    LET used == Stamped
        owned == used \cup { hand[t] : t \in Task }
    IN  <<next, head, free, pc, hand, arg, loop, count,
          [n \in Node |-> IF n \in used THEN TimeDiff(abs[n], now) ELSE 0],
          [n \in Node |-> IF n \in owned THEN key[n] ELSE NoKey],
          IF loop = "outside" THEN 0 ELSE TimeDiff(time, now)>>
=============================================================================
