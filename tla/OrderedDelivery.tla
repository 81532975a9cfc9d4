--------------------------- MODULE OrderedDelivery --------------------------
(***************************************************************************)
(* What the receiver of a traffic identifier promises the network stack:   *)
(* of the frames sent it hands some up, each at most once and in the order *)
(* in which they were sent.  RxReorder implements this with a list that is *)
(* sorted by sequence numbers that wrap.                                   *)
(***************************************************************************)
EXTENDS Integers, Sequences, SequencesExt

CONSTANT Tid

VARIABLES
    sent,       \* sent[t]: how many frames have been sent
    up          \* up[t]: the frames handed up, numbered as they were sent

vars == <<sent, up>>

Ascending(s) == \A i \in 1 .. Len(s) - 1 : s[i] < s[i + 1]

Init ==
    /\ sent = [t \in Tid |-> 0]
    /\ up = [t \in Tid |-> <<>>]

Send(t) ==
    /\ sent' = [sent EXCEPT ![t] = @ + 1]
    /\ UNCHANGED up

\* One call may hand up several frames, and frames of more than one TID.
HandUp ==
    /\ UNCHANGED sent
    /\ \A t \in Tid :
          /\ IsPrefix(up[t], up'[t])
          /\ Ascending(up'[t])
          /\ \A i \in DOMAIN up'[t] : up'[t][i] \in 0 .. sent[t] - 1

Next == (\E t \in Tid : Send(t)) \/ HandUp

Spec == Init /\ [][Next]_vars
=============================================================================
