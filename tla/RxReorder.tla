------------------------------ MODULE RxReorder -----------------------------
(***************************************************************************)
(* The receive side of block acknowledgement: the recipient sessions of    *)
(* umac_ba.c and the reorder list of umac_datapath.c, one per station.     *)
(*                                                                         *)
(* The peer is external.  It numbers the frames of each traffic identifier *)
(* (TID), keeps a window of them in the air, sends a frame again until it  *)
(* is acknowledged or given up, and has nothing in the air when it opens   *)
(* or closes a session.  A frame that is received may be received again    *)
(* when its acknowledgement is lost.                                       *)
(*                                                                         *)
(* Frames are not fragmented: sequence control is the sequence number.     *)
(* Time is counted in periods of the reorder timer.                        *)
(***************************************************************************)
EXTENDS Integers, Sequences, SequencesExt, FiniteSets

CONSTANTS
    SnMod,         \* 4096: sequence numbers are taken modulo this
    Tid,            \* traffic identifiers in use
    First,          \* the sequence number the peer starts from
    Left,           \* next_expected_rx_seq_num as an earlier session left
                    \* it, 0 when there has been none
    Window,         \* how many frames of a TID the peer keeps in the air
    BufferSizes,    \* what the peer asks for in an ADDBA request
    ListMax,        \* rx_reorder_list_maxlen of the configuration
    Hold,           \* RX_REORDER_TIMEOUT_MS in timer periods: 4
    Protected,      \* whether the link is encrypted
    Budgets         \* bounds, of which a behaviour keeps to one: frames[t] sent
                    \* of each TID, sessions (ADDBA requests), and faults (frames
                    \* received again, timeouts or responses that cannot be had)

ASSUME ReorderAssumption ==
    /\ SnMod \in Nat /\ SnMod > 1 /\ SnMod % 2 = 0
    /\ {First, Left} \subseteq 0 .. SnMod - 1
    /\ {Window, ListMax, Hold} \subseteq Nat \ {0}
    /\ BufferSizes \subseteq Nat
    /\ Protected \in BOOLEAN
    /\ Budgets \subseteq [frames : [Tid -> Nat], sessions : Nat, faults : Nat]

VARIABLES
    rx,         \* what the receive path of the station works on, see Rx
    last,       \* last[t]: rx_seq_num_spaces, -1 before the first frame
    timers,     \* reorder timers armed, by periods left: [0 .. 1 -> Nat]
    failed,     \* MMOSAL_ASSERT(walk != NULL) has failed
    sent,       \* sent[t]: frames the peer has sent
    air,        \* frames sent that are neither acknowledged nor given up
    pn,         \* the last packet number used by the peer
    repeats, sessions, fails, budget

vars == <<rx, last, timers, failed, sent, air, pn, repeats, sessions, fails, budget>>

Session == [status : {"DISABLED", "SUCCESS"}, size : 0 .. ListMax,
            expected : 0 .. SnMod - 1]
OnAir == [tid : Tid, n : Nat, pn : Nat, again : BOOLEAN]
Held  == [tid : Tid, n : Nat, pn : Nat, age : 0 .. Hold]

Sn(f) == (First + f.n) % SnMod

\* mutant of SnNext: off by one
SnNextSkips(s) == (s + 2) % SnMod

SnNext(s) == (s + 1) % SnMod

\* dot11_sequence_control_lt: the difference is taken as a signed number.
SnLt(a, b) == (a - b) % SnMod >= SnMod \div 2

Lesser(a, b) == IF a < b THEN a ELSE b

Expected(r, t) == r.ba[t].expected
Established(r, t) == r.ba[t].status = "SUCCESS"

\* drops: frames refused by their sequence or packet number, which no frame
\* that is held shows to be wrong.
Drop(r, f, why) ==
    [r EXCEPT !.drops = @ \cup {[tid |-> f.tid, n |-> f.n, why |-> why]}]

\* umac_datapath_process_rx_data_frame_after_reorder: the replay counter of
\* the key is one for all TIDs, and a frame it refuses leaves the expected
\* sequence number as it is.
HandUp(r, f) ==
    IF Protected /\ f.pn <= r.replay
    THEN Drop(r, f, "replay")
    ELSE [r EXCEPT !.replay = f.pn,
                   !.up[f.tid] = Append(@, f.n),
                   !.ba[f.tid].expected =
                        IF Established(r, f.tid) THEN SnNext(Sn(f)) ELSE @]

\* umac_datapath_flush_rx_reorder_list
Flush(r) == FoldLeft(HandUp, [r EXCEPT !.list = <<>>], r.list)

\* mutant of Ready: a frame waits without limit
ReadyInOrder(r, f) == ~Established(r, r.tid) \/ Sn(f) = Expected(r, r.tid)

Ready(r, f) ==
    \/ ~Established(r, r.tid)
    \/ Sn(f) = Expected(r, r.tid)
    \/ f.age >= Hold

\* One round of the loop of umac_datapath_evaluate_rx_reorder_list, whose
\* first frame that is not ready ends it.
EvaluateHead(r, f) ==
    IF r.list # <<>> /\ Head(r.list) = f /\ Ready(r, f)
    THEN HandUp([r EXCEPT !.list = Tail(@)], f)
    ELSE r

Evaluate(r) == FoldLeft(EvaluateHead, r, r.list)

Full(r) == Len(r.list) >= r.ba[r.tid].size

\* mutant of WalkEnd: the walk does not look for the place
WalkEndLast(l, f) == Len(l)

\* The element after which the walk of the list stops.
WalkEnd(l, f) ==
    CHOOSE i \in DOMAIN l :
        /\ i = Len(l) \/ Sn(l[i + 1]) = Sn(f) \/ SnLt(Sn(f), Sn(l[i + 1]))
        /\ \A j \in 1 .. i - 1 :
               Sn(l[j + 1]) # Sn(f) /\ ~SnLt(Sn(f), Sn(l[j + 1]))

InsertInOrder(r, f) ==
    LET i == WalkEnd(r.list, f) IN
    IF i < Len(r.list) /\ Sn(r.list[i + 1]) = Sn(f)
    THEN r    \* dropped: retransmitted
    ELSE Evaluate([r EXCEPT !.list = InsertAt(@, i + 1, f)])

\* The head makes room for a frame that belongs after it.
MakeRoom(r) ==
    IF Full(r)
    THEN HandUp([r EXCEPT !.list = Tail(@)], Head(r.list))
    ELSE r

\* umac_datapath_add_rx_mpdu_to_reorder_list
AddToList(r, f) ==
    IF r.list = <<>>
    THEN [r EXCEPT !.list = <<f>>, !.arm = TRUE]
    ELSE IF Sn(Head(r.list)) = Sn(f)
    THEN r    \* dropped: retransmitted
    ELSE IF SnLt(Sn(f), Sn(Head(r.list)))
    THEN IF Full(r) THEN r    \* dropped: overflow
                    ELSE [r EXCEPT !.list = <<f>> \o @]
    ELSE IF MakeRoom(r).list = <<>>
    THEN [MakeRoom(r) EXCEPT !.assert = TRUE]
    ELSE InsertInOrder(MakeRoom(r), f)

\* The list serves one TID at a time.
TakeTid(r, t) == IF r.tid = t THEN r ELSE [Flush(r) EXCEPT !.tid = t]

\* umac_datapath_process_rx_data_frame
Process(r0, f) ==
    IF r0.ba[f.tid].size = 0
    THEN HandUp(r0, f)
    ELSE LET r == TakeTid(r0, f.tid) IN
         IF ~Established(r, f.tid)
         THEN HandUp(r, f)
         ELSE IF Sn(f) = Expected(r, f.tid)
         THEN Evaluate(HandUp(r, f))
         ELSE IF SnLt(Sn(f), Expected(r, f.tid))
         THEN Drop(r, f, "outdated")
         ELSE AddToList(r, f)
-----------------------------------------------------------------------------
Init ==
    /\ rx = [ba     |-> [t \in Tid |-> [status |-> "DISABLED", size |-> 0,
                                        expected |-> Left]],
             list   |-> <<>>,
             tid    |-> CHOOSE t \in Tid : TRUE,
             replay |-> 0,
             up     |-> [t \in Tid |-> <<>>],
             drops  |-> {},
             arm    |-> FALSE,
             assert |-> FALSE]
    /\ last = [t \in Tid |-> -1]
    /\ timers = [p \in 0 .. 1 |-> 0]
    /\ failed = FALSE
    /\ sent = [t \in Tid |-> 0]
    /\ air = {}
    /\ pn = 0
    /\ repeats = 0 /\ sessions = 0 /\ fails = 0
    /\ budget \in Budgets

InAir(t) == { f \in air : f.tid = t }

\* Without a session the peer sends one frame at a time.
PeerWindow(t) == IF Established(rx, t) THEN Window ELSE 1

PeerSends(t) ==
    /\ sent[t] < budget.frames[t]
    /\ \A f \in InAir(t) : sent[t] - f.n < PeerWindow(t)
    /\ air' = air \cup {[tid |-> t, n |-> sent[t], pn |-> pn + 1,
                         again |-> FALSE]}
    /\ sent' = [sent EXCEPT ![t] = @ + 1]
    /\ pn' = pn + 1
    /\ UNCHANGED <<rx, last, timers, failed, repeats, sessions, fails>>

PeerGivesUp(f) ==
    /\ air' = air \ {f}
    /\ UNCHANGED <<rx, last, timers, failed, sent, pn, repeats, sessions, fails>>

\* The acknowledgement of f arrives, or it does not and f is sent again.
Acknowledged(f) ==
    \/ /\ air' = air \ {f}
       /\ UNCHANGED repeats
    \/ /\ repeats + fails < budget.faults
       /\ air' = (air \ {f}) \cup {[f EXCEPT !.again = TRUE]}
       /\ repeats' = repeats + 1

\* umac_core_register_timeout, for a reorder timer that is wanted, after
\* those in ts have been counted.
Register(wanted, ts) ==
    \/ /\ timers' = IF wanted THEN [ts EXCEPT ![1] = @ + 1] ELSE ts
       /\ UNCHANGED fails
    \/ /\ wanted /\ repeats + fails < budget.faults
       /\ timers' = ts
       /\ fails' = fails + 1

\* mutant of Duplicate: the sequence number spaces are not looked at
DuplicateNever(f) == FALSE

\* umac_datapath_is_rx_frame_duplicate
Duplicate(f) == f.again /\ last[f.tid] = Sn(f)

DropDuplicate(f) ==
    /\ Duplicate(f)
    /\ Acknowledged(f)
    /\ UNCHANGED <<rx, last, timers, failed, sent, pn, sessions, fails>>

ReceiveData(f) ==
    /\ ~Duplicate(f)
    /\ Acknowledged(f)
    /\ last' = [last EXCEPT ![f.tid] = Sn(f)]
    /\ LET r == Process(rx, [tid |-> f.tid, n |-> f.n, pn |-> f.pn, age |-> 0])
       IN /\ rx' = [r EXCEPT !.arm = FALSE]
          /\ failed' = r.assert
          /\ Register(r.arm, timers)
    /\ UNCHANGED <<sent, pn, sessions>>

\* umac_datapath_rx_reorder_timeout_handler
TimerFires ==
    /\ timers[0] > 0
    /\ rx' = Evaluate(rx)
    /\ Register(rx'.list # <<>>, [timers EXCEPT ![0] = @ - 1])
    /\ UNCHANGED <<last, failed, sent, air, pn, repeats, sessions>>

Older(f) == [f EXCEPT !.age = Lesser(@ + 1, Hold)]

Tick ==
    /\ rx' = [rx EXCEPT !.list = [i \in DOMAIN @ |-> Older(@[i])]]
    /\ timers' = [p \in 0 .. 1 |-> IF p = 0 THEN timers[0] + timers[1] ELSE 0]
    /\ rx' # rx \/ timers' # timers
    /\ UNCHANGED <<last, failed, sent, air, pn, repeats, sessions, fails>>

\* umac_ba_rx_addba_req.  The starting sequence number of the request is not
\* looked at; when the response cannot be sent only the size remains.
RxAddbaReq(t, size) ==
    /\ sessions < budget.sessions /\ InAir(t) = {}
    /\ rx.ba[t].status = "DISABLED"
    /\ sessions' = sessions + 1
    /\ \E ok \in BOOLEAN :
          /\ ok \/ repeats + fails < budget.faults
          /\ rx' = [rx EXCEPT !.ba[t].size = Lesser(size, ListMax),
                              !.ba[t].status = IF ok THEN "SUCCESS" ELSE @]
          /\ fails' = IF ok THEN fails ELSE fails + 1
    /\ UNCHANGED <<last, timers, failed, sent, air, pn, repeats>>

\* umac_datapath_flush_rx_reorder_list_for_tid
FlushForTid(t) == IF rx.tid = t THEN Flush(rx) ELSE rx

\* umac_ba_rx_delba for a session of which this station is the recipient
RxDelba(t) ==
    /\ InAir(t) = {}
    /\ rx.ba[t].status # "DISABLED"
    /\ rx' = [FlushForTid(t) EXCEPT !.ba[t].status = "DISABLED"]
    /\ UNCHANGED <<last, timers, failed, sent, air, pn, repeats, sessions, fails>>

\* umac_ba_rx_delba for a session of which this station is the originator
RxDelbaOriginator(t) ==
    /\ rx.list # <<>>
    /\ rx' = FlushForTid(t)
    /\ UNCHANGED <<last, timers, failed, sent, air, pn, repeats, sessions, fails>>

Next ==
    /\ ~failed
    /\ UNCHANGED budget
    /\ \/ \E t \in Tid : PeerSends(t)
       \/ \E f \in air : PeerGivesUp(f) \/ DropDuplicate(f) \/ ReceiveData(f)
       \/ TimerFires
       \/ Tick
       \/ \E t \in Tid, size \in BufferSizes : RxAddbaReq(t, size)
       \/ \E t \in Tid : RxDelba(t) \/ RxDelbaOriginator(t)

Spec == Init /\ [][Next]_vars

\* The clock advances and the event loop dispatches what is due.
FairSpec ==
    /\ Spec
    /\ WF_vars(Tick /\ UNCHANGED budget)
    /\ WF_vars(TimerFires /\ UNCHANGED budget)
-----------------------------------------------------------------------------
\* Every variable has its type, and the list never outgrows the configured
\* maximum (umac_datapath_add_rx_mpdu_to_reorder_list).
TypeOK ==
    /\ rx.ba \in [Tid -> Session]
    /\ \A i \in DOMAIN rx.list : rx.list[i] \in Held
    /\ Len(rx.list) <= ListMax
    /\ rx.tid \in Tid
    /\ rx.replay \in Nat
    /\ \A t \in Tid : \A i \in DOMAIN rx.up[t] : rx.up[t][i] \in Nat
    /\ last \in [Tid -> -1 .. SnMod - 1]
    /\ timers \in [0 .. 1 -> Nat]
    /\ failed \in BOOLEAN
    /\ sent \in [Tid -> Nat]
    /\ air \subseteq OnAir
    /\ {pn, repeats, sessions, fails} \subseteq Nat

\* The reorder list implements delivery in the order of sending: no frame is
\* handed up twice or after one that was sent later, whatever is lost, given
\* up, received again, timed out or pushed out of a full list
\* (umac_datapath_process_rx_data_frame).
Ordered == INSTANCE OrderedDelivery WITH up <- rx.up
DeliversInOrder == Ordered!Spec

\* The walk of umac_datapath_add_rx_mpdu_to_reorder_list relies on a sorted
\* list without equal elements, and no frame in it is behind the one that the
\* session expects: it would be handed up out of order.
ListSorted ==
    /\ \A i \in 1 .. Len(rx.list) - 1 :
           SnLt(Sn(rx.list[i]), Sn(rx.list[i + 1]))
    /\ rx.list # <<>> => ~SnLt(Sn(Head(rx.list)), Expected(rx, rx.tid))

\* A frame that is held back has a timer that will look at it again, on every
\* path that leaves the list not empty, unless registering one has failed.
HeldHaveTimer == rx.list # <<>> /\ fails = 0 => timers[0] + timers[1] > 0

\* The reorder list within its limit, sorted and never without a timer
\* (umac_datapath_add_rx_mpdu_to_reorder_list).
ListSound == TypeOK /\ ListSorted /\ HeldHaveTimer

\* A frame that is held back does not stay, although the one it waits for never
\* comes: the timer hands it up if nothing else does and registering has not
\* failed (umac_datapath_rx_reorder_timeout_handler).  The peer sends finitely
\* many frames, so that the list is empty once each has been released.
HeldAreReleased == rx.list # <<>> ~> (rx.list = <<>> \/ fails > 0)

\* When the first session begins with the number the peer starts from (Left and
\* First equal), a frame dropped for an outdated sequence number is one that has been
\* overtaken: it or a later one of its TID has been handed up.
OutdatedWereOvertaken ==
    \A d \in rx.drops : d.why = "outdated" =>
        \E i \in DOMAIN rx.up[d.tid] : rx.up[d.tid][i] >= d.n

-----------------------------------------------------------------------------
(* What a comment, an assertion or the documentation says and the code does *)
(* not do: none of these is an invariant (README, Deviations).              *)

\* MMOSAL_ASSERT(walk != NULL) of umac_datapath_add_rx_mpdu_to_reorder_list:
\* when the walk ends there is an element to insert the frame after.  (It holds
\* with a buffer of at least two frames.)
WalkNotNull == ~failed

\* A frame that the replay detection drops is a replay: its packet has been
\* handed up before.
ReplaysAreReplays ==
    \A d \in rx.drops : d.why = "replay" =>
        \E i \in DOMAIN rx.up[d.tid] : rx.up[d.tid][i] = d.n

\* A frame with a repeated sequence number is dropped, so that no frame is
\* handed up twice.
RepetitionsDropped ==
    \A t \in Tid : \A i, j \in DOMAIN rx.up[t] :
        rx.up[t][i] = rx.up[t][j] => i = j
=============================================================================
