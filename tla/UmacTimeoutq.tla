---------------------------- MODULE UmacTimeoutq ----------------------------
(***************************************************************************)
(* The UMAC timeout queue (umac_timeout.c) down to its links.  The nodes   *)
(* of a static pool are chained through one next field each, into the      *)
(* queue of armed timeouts or into the free list; a node that a task has   *)
(* taken off a chain and not yet put on another is in that task's hand.    *)
(* Between the critical sections the tasks interleave freely.              *)
(*                                                                         *)
(* A timeout's handler and two arguments are one value, its key.  The      *)
(* event loop is a task like the others, which also dispatches: while it   *)
(* runs a handler it may call every operation of the queue.                *)
(***************************************************************************)
EXTENDS MmosalTime, Sequences, SequencesExt, FiniteSets

CONSTANTS
    Node,           \* umac_core_timeoutq.pool
    NULL,
    Key,            \* what the callers register: handler, arg1, arg2
    NoKey,          \* the key of a node that memset has cleared
    Task,           \* the tasks that call the queue
    Loop,           \* the one of them that dispatches
    Deltas,         \* bound: the delta_ms values used
    MaxLate,        \* bound: how late the model lets a deadline become
    MaxDispatch     \* MAX_TIMEOUTS_DISPATCHED_AT_ONCE

ASSUME TimeoutqAssumption ==
    /\ IsFiniteSet(Node)
    /\ NULL \notin Node
    /\ NoKey \notin Key
    /\ Loop \in Task
    /\ Deltas \subseteq Nat
    /\ MaxLate \in Nat
    /\ MaxDispatch \in Nat \ {0}
    /\ \A d \in Deltas : d + MaxLate < Half

VARIABLES
    next,       \* umac_core_timeout.next
    abs,        \* umac_core_timeout.timeout_abs_ms
    key,        \* umac_core_timeout.handler, arg1 and arg2
    head,       \* umac_core_timeoutq.head
    free,       \* umac_core_timeoutq.free
    now,        \* mmosal_get_time_ms()
    pc,         \* where each task is in its call
    hand,       \* the node each task holds, or NULL
    arg,        \* the key and delta each task was called with
    loop,       \* where the event loop is in umac_timeoutq_dispatch
    time,       \* its time_ms
    count       \* its ii

pool == <<next, abs, key, head, free>>
calls == <<pc, hand, arg>>
dispatch == <<loop, time, count>>
vars == <<pool, now, calls, dispatch>>

Link == Node \cup {NULL}
NoArg == [key |-> NoKey, delta |-> 0]

-----------------------------------------------------------------------------
(* Walking the chains.                                                     *)

\* The nodes reached from p, one longer than Node has members if p reaches a
\* cycle.
Chain(p) ==
    LET walk[n \in 0 .. Cardinality(Node) + 1, q \in Link] ==
            IF n = 0 \/ q = NULL THEN <<>> ELSE <<q>> \o walk[n - 1, next[q]]
    IN  walk[Cardinality(Node) + 1, p]

Queue == Chain(head)
Free == Chain(free)

\* umac_timeoutq_remove_one_protected: the first node of a key, if any.
Matches(q, k) == { i \in DOMAIN q : key[q[i]] = k }
FirstMatch(q, k) == CHOOSE i \in Matches(q, k) :
                        \A j \in Matches(q, k) : i <= j

\* Mutant of Unlinked: the head stays where it was.
UnlinkedButHead(q, i) ==
    IF i = 1
    THEN [next |-> next, head |-> head]
    ELSE [next |-> [next EXCEPT ![q[i - 1]] = next[q[i]]], head |-> head]

\* The links and the head once the i-th node of the queue is unlinked.  The
\* node's own link stays as it was.
Unlinked(q, i) ==
    IF i = 1
    THEN [next |-> next, head |-> next[q[1]]]
    ELSE [next |-> [next EXCEPT ![q[i - 1]] = next[q[i]]], head |-> head]

\* Mutant of Enqueued: a node goes ahead of a head with the same deadline.
EnqueuedAheadOfEqual(l, q, n, d) ==
    IF q = <<>> \/ TimeLe(d[n], d[q[1]])
    THEN [next |-> [l.next EXCEPT ![n] = l.head], head |-> n]
    ELSE LET i == CHOOSE i \in DOMAIN q :
                    /\ TimeLe(d[q[i]], d[n])
                    /\ i < Len(q) => TimeLt(d[n], d[q[i + 1]])
         IN  [l EXCEPT !.next =
                [@ EXCEPT ![q[i]] = n,
                          ![n] = IF i < Len(q) THEN q[i + 1] ELSE @]]

\* umac_timeoutq_enqueue_protected, on links l.next and head l.head whose
\* chain is q, with the deadlines d.  The node's own link is written only
\* when it is not put last.
Enqueued(l, q, n, d) ==
    LET gaps == { i \in 1 .. Len(q) - 1 :
                    /\ TimeLe(d[q[i]], d[n])
                    /\ TimeLt(d[n], d[q[i + 1]]) }
        gap == CHOOSE i \in gaps : \A j \in gaps : i <= j
    IN  CASE q = <<>> ->
               [l EXCEPT !.head = n]
          [] q # <<>> /\ TimeLt(d[n], d[q[1]]) ->
               [next |-> [l.next EXCEPT ![n] = l.head], head |-> n]
          [] q # <<>> /\ ~TimeLt(d[n], d[q[1]]) /\ gaps # {} ->
               [l EXCEPT !.next = [@ EXCEPT ![q[gap]] = n,
                                            ![n] = q[gap + 1]]]
          [] OTHER ->
               [l EXCEPT !.next = [@ EXCEPT ![Last(q)] = n]]

-----------------------------------------------------------------------------
(* umac_timeoutq_init leaves the whole pool on the free list.              *)

Init ==
    /\ \E s \in SetToSeqs(Node) :
         /\ next = [n \in Node |->
                      LET i == CHOOSE i \in DOMAIN s : s[i] = n
                      IN  IF i = Len(s) THEN NULL ELSE s[i + 1]]
         /\ free = s[1]
    /\ abs = [n \in Node |-> 0]
    /\ key = [n \in Node |-> NoKey]
    /\ head = NULL
    /\ now = 0
    /\ pc = [t \in Task |-> "idle"]
    /\ hand = [t \in Task |-> NULL]
    /\ arg = [t \in Task |-> NoArg]
    /\ loop = "outside"
    /\ time = 0
    /\ count = 0

\* A task between two calls.  The loop calls the queue from an event handler
\* (outside umac_timeoutq_dispatch) or from a timeout handler.
Ready(t) ==
    /\ pc[t] = "idle"
    /\ t = Loop => loop \in {"outside", "handler"}

-----------------------------------------------------------------------------
(* umac_core_register_timeout                                              *)

\* umac_timeoutq_alloc; with an empty free list the call returns false.
RegAlloc(t, k, d) ==
    /\ Ready(t)
    /\ free # NULL
    /\ hand' = [hand EXCEPT ![t] = free]
    /\ free' = next[free]
    /\ next' = [next EXCEPT ![free] = NULL]
    /\ arg' = [arg EXCEPT ![t] = [key |-> k, delta |-> d]]
    /\ pc' = [pc EXCEPT ![t] = "stamp"]
    /\ UNCHANGED <<abs, key, head, now, dispatch>>

RegStamp(t) ==
    /\ pc[t] = "stamp"
    /\ abs' = [abs EXCEPT ![hand[t]] = TimePlus(now, arg[t].delta)]
    /\ pc' = [pc EXCEPT ![t] = IF arg[t].delta = 0 THEN "peek" ELSE "link"]
    /\ UNCHANGED <<next, key, head, free, now, hand, arg, dispatch>>

\* How late a deadline is at time t; 0 for one that is not due.
Lateness(at, t) == IF TimeLt(t, at) THEN 0 ELSE TimeDiff(t, at)

\* A zero timeout goes ahead of a head that is already overdue.
RegPeek(t) ==
    LET ahead == TimeDiff(abs[head], 1)
        overdue == head # NULL /\ TimeLt(abs[head], abs[hand[t]])
    IN  /\ pc[t] = "peek"
        /\ overdue => Lateness(ahead, now) <= MaxLate
        /\ abs' = IF overdue THEN [abs EXCEPT ![hand[t]] = ahead] ELSE abs
        /\ pc' = [pc EXCEPT ![t] = "link"]
        /\ UNCHANGED <<next, key, head, free, now, hand, arg, dispatch>>

RegLink(t) ==
    LET n == hand[t]
        l == Enqueued([next |-> [next EXCEPT ![n] = NULL], head |-> head],
                      Queue, n, abs)
    IN  /\ pc[t] = "link"
        /\ key' = [key EXCEPT ![n] = arg[t].key]
        /\ next' = l.next
        /\ head' = l.head
        /\ hand' = [hand EXCEPT ![t] = NULL]
        /\ arg' = [arg EXCEPT ![t] = NoArg]
        /\ pc' = [pc EXCEPT ![t] = "idle"]
        /\ UNCHANGED <<abs, free, now, dispatch>>

-----------------------------------------------------------------------------
(* umac_core_cancel_timeout, umac_core_cancel_timeout_one and              *)
(* umac_core_deplete_timeout                                               *)

\* umac_timeoutq_cancel_protected frees the nodes of k in queue order, each
\* ahead of the one freed before it, and does not clear them.
CancelAll(t, k) ==
    LET stay == SelectSeq(Queue, LAMBDA n : key[n] # k)
        gone == Reverse(SelectSeq(Queue, LAMBDA n : key[n] = k))
        after(s, n, end) ==
            LET i == CHOOSE i \in DOMAIN s : s[i] = n
            IN  IF i = Len(s) THEN end ELSE s[i + 1]
    IN  /\ Ready(t)
        /\ gone # <<>>
        /\ next' = [n \in Node |->
                      IF Contains(stay, n) THEN after(stay, n, NULL)
                      ELSE IF Contains(gone, n) THEN after(gone, n, free)
                      ELSE next[n]]
        /\ head' = IF stay = <<>> THEN NULL ELSE stay[1]
        /\ free' = gone[1]
        /\ UNCHANGED <<abs, key, now, calls, dispatch>>

CancelOne(t, k) ==
    LET i == FirstMatch(Queue, k)
        l == Unlinked(Queue, i)
    IN  /\ Ready(t)
        /\ Matches(Queue, k) # {}
        /\ next' = l.next
        /\ head' = l.head
        /\ hand' = [hand EXCEPT ![t] = Queue[i]]
        /\ pc' = [pc EXCEPT ![t] = "free"]
        /\ UNCHANGED <<abs, key, free, now, arg, dispatch>>

\* umac_timeoutq_free: memset outside the critical section, then the push.
FreeHand(t) ==
    LET n == hand[t]
    IN  /\ next' = [next EXCEPT ![n] = free]
        /\ free' = n
        /\ abs' = [abs EXCEPT ![n] = 0]
        /\ key' = [key EXCEPT ![n] = NoKey]
        /\ hand' = [hand EXCEPT ![t] = NULL]

CancelOneFree(t) ==
    /\ pc[t] = "free"
    /\ FreeHand(t)
    /\ pc' = [pc EXCEPT ![t] = "idle"]
    /\ UNCHANGED <<head, now, arg, dispatch>>

\* umac_timeoutq_deplete_timeout_protected, for a key it finds: the node is
\* unlinked, given the new deadline if that is sooner (the call returns 1, or
\* else 0) and enqueued again with the link it had.
Shortens(k, d) == TimeLt(TimePlus(now, d), abs[Queue[FirstMatch(Queue, k)]])

Deplete(t, k, d) ==
    LET i == FirstMatch(Queue, k)
        n == Queue[i]
        due == IF Shortens(k, d)
               THEN [abs EXCEPT ![n] = TimePlus(now, d)]
               ELSE abs
        l == Enqueued(Unlinked(Queue, i), RemoveAt(Queue, i), n, due)
    IN  /\ Ready(t)
        /\ Matches(Queue, k) # {}
        /\ abs' = due
        /\ next' = l.next
        /\ head' = l.head
        /\ UNCHANGED <<key, free, now, calls, dispatch>>

-----------------------------------------------------------------------------
(* umac_timeoutq_dispatch                                                  *)

DispatchBegin ==
    /\ loop = "outside"
    /\ pc[Loop] = "idle"
    /\ loop' = "dequeue"
    /\ time' = now
    /\ count' = 0
    /\ UNCHANGED <<pool, now, calls>>

\* umac_timeoutq_dequeue: the head, if it is due at the time read on entry.
Dequeue ==
    /\ loop = "dequeue"
    /\ count < MaxDispatch
    /\ head # NULL
    /\ ~TimeLt(time, abs[head])
    /\ hand' = [hand EXCEPT ![Loop] = head]
    /\ head' = next[head]
    /\ loop' = "fire"
    /\ UNCHANGED <<next, abs, key, free, now, pc, arg, time, count>>

\* umac_timeoutq_dispatch_timeout frees the node before it calls the handler.
Fire ==
    /\ loop = "fire"
    /\ FreeHand(Loop)
    /\ loop' = "handler"
    /\ UNCHANGED <<head, now, pc, arg, time, count>>

HandlerReturn ==
    /\ loop = "handler"
    /\ pc[Loop] = "idle"
    /\ loop' = "dequeue"
    /\ count' = count + 1
    /\ UNCHANGED <<pool, now, calls, time>>

DispatchEnd ==
    /\ loop = "dequeue"
    /\ \/ count = MaxDispatch
       \/ head = NULL
       \/ head # NULL /\ TimeLt(time, abs[head])
    /\ loop' = "outside"
    /\ time' = 0
    /\ count' = 0
    /\ UNCHANGED <<pool, now, calls>>

\* The nodes whose deadlines are in use.
Stamped ==
    ToSet(Queue) \cup { hand[t] : t \in { u \in Task : pc[u] \in {"peek", "link"} } }

Tick ==
    LET t == TimePlus(now, 1)
    IN  /\ \A n \in Stamped : Lateness(abs[n], t) <= MaxLate
        /\ loop # "outside" => TimeDiff(t, time) <= MaxLate
        /\ now' = t
        /\ UNCHANGED <<pool, calls, dispatch>>

-----------------------------------------------------------------------------
Registration(t) ==
    \/ \E k \in Key, d \in Deltas : RegAlloc(t, k, d)
    \/ RegStamp(t)
    \/ RegPeek(t)
    \/ RegLink(t)

Cancellation(t) ==
    \/ \E k \in Key : CancelAll(t, k) \/ CancelOne(t, k)
    \/ CancelOneFree(t)

\* The depletions after which the timeout is not last in the queue, or was
\* last before: the others leave its stale link in use.
KeepsLinks(k, d) ==
    LET q == Queue
        i == FirstMatch(q, k)
    IN  \/ Shortens(k, d)
        \/ i = Len(q)
        \/ TimeLt(abs[q[i]], abs[Last(q)])

Depletion(t) == \E k \in Key, d \in Deltas : Deplete(t, k, d)

SafeDepletion(t) ==
    \E k \in Key, d \in Deltas :
        Matches(Queue, k) # {} /\ KeepsLinks(k, d) /\ Deplete(t, k, d)

Dispatch == DispatchBegin \/ Dequeue \/ Fire \/ HandlerReturn \/ DispatchEnd

Next ==
    \/ \E t \in Task : Registration(t) \/ Cancellation(t) \/ Depletion(t)
    \/ Dispatch
    \/ Tick

Spec == Init /\ [][Next]_vars

\* The same with callers that deplete only where the links survive it.
SafeNext ==
    \/ \E t \in Task : Registration(t) \/ Cancellation(t) \/ SafeDepletion(t)
    \/ Dispatch
    \/ Tick

SafeSpec == Init /\ [][SafeNext]_vars

-----------------------------------------------------------------------------
(* Properties                                                              *)

TypeOK ==
    /\ next \in [Node -> Link]
    /\ abs \in [Node -> Time]
    /\ key \in [Node -> Key \cup {NoKey}]
    /\ head \in Link
    /\ free \in Link
    /\ now \in Time
    /\ pc \in [Task -> {"idle", "stamp", "peek", "link", "free"}]
    /\ hand \in [Task -> Link]
    /\ arg \in [Task -> [key : Key \cup {NoKey}, delta : Deltas \cup {0}]]
    /\ loop \in {"outside", "dequeue", "fire", "handler"}
    /\ time \in Time
    /\ count \in 0 .. MaxDispatch

\* No interleaving of register, cancel, deplete and dispatch leaks a node of
\* the pool, puts one on two chains, closes a chain on itself, or leaves one
\* on a chain while a task still holds it: the queue, the free list and the
\* tasks' hands hold every node exactly once (umac_timeout.c).
NodesConserved ==
    LET q == Queue
        f == Free
    IN  \A n \in Node :
            Cardinality({ i \in DOMAIN q : q[i] = n })
              + Cardinality({ i \in DOMAIN f : f[i] = n })
              + Cardinality({ t \in Task : hand[t] = n }) = 1

\* The queue stays ordered by deadline although deadlines are stamped before
\* they are linked, are moved ahead of an overdue head, and wrap: dispatch
\* and the loop's sleep look at the head alone.
SortedByDeadline ==
    LET q == Queue
    IN  \A i, j \in DOMAIN q : i < j => TimeLe(abs[q[i]], abs[q[j]])

\* What every operation on the pool relies on and leaves true, however the
\* critical sections of two tasks interleave: no node is lost or shared, and
\* the queue is sorted (umac_timeout.c).
PoolSound == TypeOK /\ NodesConserved /\ SortedByDeadline

\* A depletion that finds its timeout already due soon enough makes no
\* change (eloop_deplete_timeout, of which this is the implementation,
\* returns 0 "if no change is made"): the queue still holds the same timeouts.
DepletionWithoutChange ==
    [][\A t \in Task, k \in Key, d \in Deltas :
        /\ Matches(Queue, k) # {}
        /\ ~Shortens(k, d)
        /\ Deplete(t, k, d)
        => /\ Len(Queue') = Len(Queue)
           /\ ToSet(Queue') = ToSet(Queue)]_vars

\* The list of keys and deadlines the links stand for.
Armed ==
    LET q == Queue
    IN  [i \in DOMAIN q |-> [key |-> key[q[i]], at |-> abs[q[i]]]]

List == INSTANCE TimerList WITH armed <- Armed

\* The linked queue implements the list of timers: every step of every task
\* arms, cancels, brings forward or fires one timeout as TimerList says, and
\* nothing fires before its deadline (umac_timeout.c).
ImplementsTimerList == List!Spec
=============================================================================
