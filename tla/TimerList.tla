----------------------------- MODULE TimerList ------------------------------
(***************************************************************************)
(* What the UMAC timeout queue promises its users: a list of armed         *)
(* timeouts, soonest first, the earlier registration first among equals.   *)
(* A timeout is the pair of its key (the handler and its two arguments)    *)
(* and its deadline.  Only the head of the list fires, never before its    *)
(* deadline; cancelling and depleting change nothing but the timeouts of   *)
(* the key they name.  UmacTimeoutq implements this with linked nodes.     *)
(***************************************************************************)
EXTENDS MmosalTime, Sequences, SequencesExt

CONSTANT Key

VARIABLES
    armed,      \* sequence of [key, at]
    now         \* mmosal_get_time_ms()

vars == <<armed, now>>

Timeout == [key : Key, at : Time]

\* The list with x after every timeout that is due no later than x.
Insert(list, x) ==
    SelectSeq(list, LAMBDA y : TimeLe(y.at, x.at))
        \o <<x>>
        \o SelectSeq(list, LAMBDA y : TimeLt(x.at, y.at))

Without(list, k) == SelectSeq(list, LAMBDA y : y.key # k)

Positions(list, k) == { i \in DOMAIN list : list[i].key = k }

First(list, k) == CHOOSE i \in Positions(list, k) :
                      \A j \in Positions(list, k) : i <= j

Init ==
    /\ armed = <<>>
    /\ now = 0

Arm(k) ==
    /\ \E t \in Time : armed' = Insert(armed, [key |-> k, at |-> t])
    /\ UNCHANGED now

CancelAll(k) ==
    /\ armed' = Without(armed, k)
    /\ UNCHANGED now

CancelFirst(k) ==
    /\ Positions(armed, k) # {}
    /\ armed' = RemoveAt(armed, First(armed, k))
    /\ UNCHANGED now

\* Bring the first timeout of k forward, or requeue it behind its equals.
Deplete(k) ==
    /\ Positions(armed, k) # {}
    /\ LET i == First(armed, k)
           sooner == { t \in Time : TimeLe(t, armed[i].at) }
       IN  \E t \in sooner :
             armed' = Insert(RemoveAt(armed, i), [key |-> k, at |-> t])
    /\ UNCHANGED now

Fire ==
    /\ armed # <<>>
    /\ ~TimeLt(now, Head(armed).at)
    /\ armed' = Tail(armed)
    /\ UNCHANGED now

Tick ==
    /\ now' = TimePlus(now, 1)
    /\ UNCHANGED armed

Next ==
    \/ Tick
    \/ Fire
    \/ \E k \in Key : Arm(k) \/ CancelAll(k) \/ CancelFirst(k) \/ Deplete(k)

Spec == Init /\ [][Next]_vars
=============================================================================
