-------------------------- MODULE DriverTaskProofs --------------------------
(***************************************************************************)
(* The theorem about DriverTask, for any room in the chip, any length of   *)
(* a pause, and any number of packets, pauses and transfers that fail.     *)
(***************************************************************************)
EXTENDS DriverTask, FiniteSetTheorems, TLAPS

-----------------------------------------------------------------------------
(* The inductive invariant, in parts                                       *)

PsType == [wakers : SUBSET Wakers, suspended : BOOLEAN, bus : Nat]

\* A table of scheduled events.
Table(s) == DOMAIN s \subseteq Events /\ \A e \in DOMAIN s : s[e] \in Nat

Types ==
    /\ pend \subseteq Events
    /\ Table(sched)
    /\ semb \in BOOLEAN /\ active \in BOOLEAN
    /\ stopped \in BOOLEAN /\ paused \in BOOLEAN /\ full \in BOOLEAN
    /\ pc \in {"top", "events", "ps", "work", "rx", "tx", "end", "sleep"}
    /\ ps \in PsType
    /\ queue \in [Queues -> Nat] /\ held \in [Queues -> 0 .. Space]
    /\ status \in Nat
    /\ fc \in Seq(Packets \cup {"status"}) /\ irq \subseteq {"RX", "FREED"}
    /\ reads \in 0 .. MaxReads - 1
    /\ left \in [Bounded -> Nat]

\* Of every frame that the chip holds, and of every status that it has for the
\* host, the status is outstanding: it is never counted as read before it is.
Statuses(s) == { i \in 1 .. Len(s) : s[i] = "status" }

StatusDue == status >= held["MGMT"] + held["DATA"] + Cardinality(Statuses(fc))

\* What is in a queue has its event, data unless it is stopped.
Noticed(q) == q \in pend \/ q \in DOMAIN sched

Queued ==
    /\ \A q \in {"CMD", "MGMT"} : queue[q] > 0 => Noticed(q)
    /\ queue["DATA"] > 0 /\ Allowed(stopped, pend) => Noticed("DATA")

\* Whoever notifies a task that sleeps gives it its semaphore.
Roused == pc = "sleep" /\ ~semb => pend = {}

\* The chip is awake while there is work for it.
working == pc \in {"rx", "tx", "end"}

Working == ("PAGESET" \in ps.wakers <=> working) /\ (working => ~ps.suspended)

\* A chip that is let sleep has nothing to do but what an event that is pending
\* will wake it for.
Pin ==
    ps.suspended =>
        /\ ps.wakers # {} => "EVAL" \in pend
        /\ fc # <<>> => "ASYNC" \in pend
        /\ status = 0
        /\ \A q \in {"CMD", "MGMT"} : queue[q] > 0 => q \in pend
        /\ queue["DATA"] > 0 /\ Allowed(stopped, pend) => "DATA" \in pend

IInv == Types /\ StatusDue /\ Queued /\ Roused /\ Working /\ Pin

-----------------------------------------------------------------------------
(* Lemmas about the operators                                              *)

\* driver_task_schedule_notification_at and driver_task_drop_scheduled_event
LEMMA ScheduleTable ==
    ASSUME NEW s, Table(s), NEW e \in Events, NEW t \in Nat
    PROVE  /\ Table(Schedule(s, e, t))
           /\ DOMAIN Schedule(s, e, t) = DOMAIN s \cup {e}
           /\ DOMAIN s \subseteq DOMAIN Schedule(s, e, t)
  BY DEF Schedule, Table

LEMMA RestrictTable ==
    ASSUME NEW s, Table(s), NEW D \in SUBSET (DOMAIN s)
    PROVE  Table(Restrict(s, D)) /\ DOMAIN Restrict(s, D) = D
  BY DEF Restrict, Table

\* What is scheduled stays so, with what is left of the queues that were tried.
LEMMA RetryTable ==
    ASSUME NEW s, Table(s), NEW R \in SUBSET Queues, NEW qu \in [Queues -> Nat]
    PROVE  /\ Table(Retry(Restrict(qu, R), s))
           /\ DOMAIN Retry(Restrict(qu, R), s) = DOMAIN s \cup {q \in R : qu[q] > 0}
  <1>1. /\ DOMAIN Restrict(qu, R) = R
        /\ \A q \in R : Restrict(qu, R)[q] = qu[q]
    BY DEF Restrict
  <1>2. {q \in DOMAIN Restrict(qu, R) : Restrict(qu, R)[q] > 0} = {q \in R : qu[q] > 0}
    BY <1>1
  <1>3. DOMAIN Retry(Restrict(qu, R), s) = DOMAIN s \cup {q \in R : qu[q] > 0}
    BY <1>2 DEF Retry
  <1>4. {q \in R : qu[q] > 0} \subseteq Events
    BY DEF Events, Pageset, Queues
  <1>5. \A e \in DOMAIN Retry(Restrict(qu, R), s) : Retry(Restrict(qu, R), s)[e] \in Nat
    BY <1>2 DEF Retry, Table, CommandTime, FrameTime
  <1> QED
    BY <1>3, <1>4, <1>5 DEF Table

\* How the statuses that the chip has for the host change.
LEMMA StatusesFinite ==
    ASSUME NEW s, Len(s) \in Nat
    PROVE  IsFiniteSet(Statuses(s)) /\ Cardinality(Statuses(s)) \in Nat
  <1>1. IsFiniteSet(1 .. Len(s))
    BY FS_Interval
  <1>2. IsFiniteSet(Statuses(s))
    BY <1>1, FS_Subset DEF Statuses
  <1> QED
    BY <1>2, FS_CardinalityType

LEMMA StatusesAppend ==
    ASSUME NEW S, NEW s \in Seq(S), NEW p
    PROVE  Cardinality(Statuses(Append(s, p)))
             = Cardinality(Statuses(s)) + IF p = "status" THEN 1 ELSE 0
  <1>1. /\ Len(Append(s, p)) = Len(s) + 1 /\ Len(s) \in Nat
        /\ \A i \in 1 .. Len(s) : Append(s, p)[i] = s[i]
        /\ Append(s, p)[Len(s) + 1] = p
    OBVIOUS
  <1>2. IsFiniteSet(Statuses(s)) /\ Cardinality(Statuses(s)) \in Nat
    BY <1>1, StatusesFinite
  <1>3. Len(s) + 1 \notin Statuses(s)
    BY <1>1 DEF Statuses
  <1>4. CASE p = "status"
    <2>1. Statuses(Append(s, p)) = Statuses(s) \cup {Len(s) + 1}
      BY <1>1, <1>4 DEF Statuses
    <2>2. Cardinality(Statuses(s) \cup {Len(s) + 1}) = Cardinality(Statuses(s)) + 1
      BY <1>2, <1>3, FS_AddElement
    <2> QED
      BY <1>4, <2>1, <2>2
  <1>5. CASE p # "status"
    <2>1. Statuses(Append(s, p)) = Statuses(s)
      BY <1>1, <1>5 DEF Statuses
    <2> QED
      BY <1>2, <1>5, <2>1
  <1> QED
    BY <1>4, <1>5

LEMMA StatusesTail ==
    ASSUME NEW S, NEW s \in Seq(S), s # <<>>
    PROVE  Cardinality(Statuses(s))
             = Cardinality(Statuses(Tail(s))) + IF Head(s) = "status" THEN 1 ELSE 0
  <1>1. /\ Len(s) \in Nat /\ Len(s) >= 1 /\ Len(Tail(s)) = Len(s) - 1
        /\ \A i \in 1 .. Len(s) - 1 : Tail(s)[i] = s[i + 1]
        /\ Head(s) = s[1]
    OBVIOUS
  <1> DEFINE T == Statuses(Tail(s))
             R == Statuses(s) \ {1}
             f == [i \in T |-> i + 1]
  <1>2. IsFiniteSet(T) /\ IsFiniteSet(Statuses(s)) /\ Cardinality(Statuses(s)) \in Nat
        /\ Cardinality(T) \in Nat
    BY <1>1, StatusesFinite
  <1>3. f \in Bijection(T, R)
    <2>1. \A i \in T : i \in Nat /\ i + 1 \in R
      BY <1>1 DEF Statuses
    <2>2. \A k \in R : k - 1 \in T /\ f[k - 1] = k
      BY <1>1 DEF Statuses
    <2>3. f \in [T -> R]
      BY <2>1
    <2>4. \A a, b \in T : f[a] = f[b] => a = b
      BY <2>1
    <2> QED
      BY <2>2, <2>3, <2>4 DEF Bijection, Injection, Surjection, IsInjective
  <1>4. Cardinality(R) = Cardinality(T)
    BY <1>2, <1>3, FS_Bijection DEF ExistsBijection
  <1>5. 1 \in Statuses(s) <=> Head(s) = "status"
    BY <1>1 DEF Statuses
  <1>6. Cardinality(R) = IF 1 \in Statuses(s) THEN Cardinality(Statuses(s)) - 1
                         ELSE Cardinality(Statuses(s))
    BY <1>2, FS_RemoveElement
  <1> QED
    BY <1>2, <1>4, <1>5, <1>6

-----------------------------------------------------------------------------
(* Power save                                                              *)

\* A state of power save, with its schedule.
Power(x) ==
    /\ x = [ps |-> x.ps, sched |-> x.sched]
    /\ x.ps \in PsType
    /\ Table(x.sched)

\* y is x with more scheduled and the same wakers.
Follows(x, y) ==
    /\ Power(y)
    /\ y.ps.wakers = x.ps.wakers
    /\ DOMAIN x.sched \subseteq DOMAIN y.sched

LEMMA PowerOf ==
    ASSUME NEW P \in PsType, NEW T, Table(T)
    PROVE  Power([ps |-> P, sched |-> T])
  BY DEF Power

\* The bus is scheduled, until t.
LEMMA BusScheduled ==
    ASSUME NEW x, Power(x), NEW t \in Nat
    PROVE  Follows(x, [ps |-> x.ps, sched |-> Schedule(x.sched, "BUS", t)])
  <1>1. "BUS" \in Events
    BY DEF Events
  <1>2. Table(x.sched) /\ x.ps \in PsType
    BY DEF Power
  <1>3. /\ Table(Schedule(x.sched, "BUS", t))
        /\ DOMAIN x.sched \subseteq DOMAIN Schedule(x.sched, "BUS", t)
    BY <1>1, <1>2, ScheduleTable, Zenon
  <1> QED
    BY <1>2, <1>3 DEF Follows, Power

LEMMA PsChanges ==
    ASSUME NEW P \in PsType, NEW b \in BOOLEAN, NEW t \in Nat
    PROVE  /\ [P EXCEPT !.bus = t]
                = [wakers |-> P.wakers, suspended |-> P.suspended, bus |-> t]
           /\ [P EXCEPT !.suspended = b]
                = [wakers |-> P.wakers, suspended |-> b, bus |-> P.bus]
           /\ [P EXCEPT !.bus = t] \in PsType
           /\ [P EXCEPT !.suspended = b] \in PsType
  BY DEF PsType

LEMMA UpdateTimeoutFollows ==
    ASSUME NEW x, Power(x), NEW t \in Nat
    PROVE  /\ Follows(x, UpdateTimeout(x, t))
           /\ UpdateTimeout(x, t).ps.suspended = x.ps.suspended
  <1> DEFINE P == [x.ps EXCEPT !.bus = t]
             y == [ps |-> P, sched |-> Schedule(x.sched, "BUS", t)]
  <1>1. CASE x.ps.bus < t
    <2>1. /\ P \in PsType /\ P.wakers = x.ps.wakers
          /\ P.suspended = x.ps.suspended
      BY DEF Power, PsType
    <2>2. "BUS" \in Events /\ Table(x.sched)
      BY DEF Events, Power
    <2>3. /\ Table(Schedule(x.sched, "BUS", t))
          /\ DOMAIN x.sched \subseteq DOMAIN Schedule(x.sched, "BUS", t)
      BY <2>2, ScheduleTable, Zenon
    <2>4. UpdateTimeout(x, t) = y
      BY <1>1 DEF UpdateTimeout
    <2> HIDE DEF P
    <2>5. Follows(x, y) /\ y.ps.suspended = x.ps.suspended
      BY <2>1, <2>3 DEF Follows, Power
    <2> QED
      BY <2>4, <2>5
  <1>2. CASE ~(x.ps.bus < t)
    BY <1>2 DEF UpdateTimeout, Follows
  <1> QED
    BY <1>1, <1>2

\* The wake pin of a state of power save.
LEMMA PinChanges ==
    ASSUME NEW x, Power(x), NEW b \in BOOLEAN
    PROVE  /\ [x EXCEPT !.ps.suspended = b]
                = [ps |-> [x.ps EXCEPT !.suspended = b], sched |-> x.sched]
           /\ Follows(x, [x EXCEPT !.ps.suspended = b])
           /\ [x EXCEPT !.ps.suspended = b].ps.suspended = b
  <1> DEFINE P == [x.ps EXCEPT !.suspended = b]
             y == [ps |-> P, sched |-> x.sched]
  <1>1. [x EXCEPT !.ps.suspended = b] = y
    <2>1. x = [ps |-> x.ps, sched |-> x.sched]
      BY DEF Power
    <2> QED
      BY <2>1
  <1>2. P \in PsType /\ P.wakers = x.ps.wakers /\ P.suspended = b
    BY DEF Power, PsType
  <1> HIDE DEF P
  <1>3. Follows(x, y) /\ y.ps.suspended = b
    BY <1>2 DEF Follows, Power
  <1> QED
    BY <1>1, <1>3 DEF P

LEMMA WakeupFollows ==
    ASSUME NEW x, Power(x)
    PROVE  Follows(x, Wakeup(x)) /\ Wakeup(x).ps.suspended = FALSE
  <1>1. CASE x.ps.suspended
    <2> DEFINE y == [x EXCEPT !.ps.suspended = FALSE]
    <2>1. FALSE \in BOOLEAN /\ BusTime \in Nat
      BY DEF BusTime
    <2>2. Follows(x, y) /\ y.ps.suspended = FALSE
      BY <2>1, PinChanges, Zenon
    <2>3. Wakeup(x) = UpdateTimeout(y, BusTime)
      BY <1>1, Zenon DEF Wakeup
    <2> HIDE DEF y
    <2>4. Power(y)
      BY <2>2 DEF Follows
    <2>5. /\ Follows(y, UpdateTimeout(y, BusTime))
          /\ UpdateTimeout(y, BusTime).ps.suspended = FALSE
      BY <2>1, <2>2, <2>4, UpdateTimeoutFollows
    <2>6. Follows(x, UpdateTimeout(y, BusTime))
      BY <2>2, <2>5 DEF Follows
    <2> QED
      BY <2>3, <2>5, <2>6
  <1>2. CASE ~x.ps.suspended
    <2>1. Wakeup(x) = x
      BY <1>2, Zenon DEF Wakeup
    <2>2. x.ps.suspended \in BOOLEAN
      BY DEF Power, PsType
    <2> QED
      BY <1>2, <2>1, <2>2 DEF Follows
  <1> QED
    BY <1>1, <1>2

LEMMA BusAgain ==
    ASSUME NEW x, Power(x)
    PROVE  /\ Follows(x, [x EXCEPT !.sched = Schedule(@, "BUS", x.ps.bus)])
           /\ [x EXCEPT !.sched = Schedule(@, "BUS", x.ps.bus)].ps = x.ps
  <1>1. x.ps.bus \in Nat
    BY DEF Power, PsType
  <1> DEFINE T == Schedule(x.sched, "BUS", x.ps.bus)
             y == [ps |-> x.ps, sched |-> T]
  <1>2. Follows(x, y)
    BY <1>1, BusScheduled, Zenon
  <1>3. [x EXCEPT !.sched = T] = y
    <2>1. x = [ps |-> x.ps, sched |-> x.sched]
      BY DEF Power
    <2> HIDE DEF T
    <2> QED
      BY <2>1
  <1>4. y.ps = x.ps
    OBVIOUS
  <1> QED
    BY <1>2, <1>3, <1>4, Zenon

LEMMA FollowsTransitive ==
    ASSUME NEW x, NEW y, NEW z, Follows(x, y), Follows(y, z)
    PROVE  Follows(x, z)
  BY DEF Follows

\* morse_ps_evaluate: when it lets the chip sleep there is nothing to do, and
\* the chip has nothing for the host unless it was left asleep.
LEMMA EvaluateFollows ==
    ASSUME NEW x, Power(x), NEW p, NEW n \in Nat
    PROVE  /\ Follows(x, Evaluate(x, p, n))
           /\ Evaluate(x, p, n).ps.suspended =>
                 /\ x.ps.wakers = {} /\ p \cap Pageset = {} /\ n = 0
                 /\ fc = <<>> \/ x.ps.suspended
  <1> DEFINE busActive == Allowed(stopped, p) /\ x.ps.bus > 0
             y == IF busActive
                  THEN [x EXCEPT !.sched = Schedule(@, "BUS", x.ps.bus)] ELSE x
             needed == x.ps.wakers # {} \/ p \cap Pageset # {} \/ n > 0 \/ busActive
             z == IF needed THEN Wakeup(y)
                  ELSE IF Busy THEN UpdateTimeout(y, BusTime)
                  ELSE [y EXCEPT !.ps.suspended = TRUE]
  <1>1. Evaluate(x, p, n) = z
    BY Zenon DEF Evaluate
  <1>2. Follows(x, y) /\ y.ps = x.ps
    <2>1. CASE busActive
      BY <2>1, BusAgain, Zenon
    <2>2. CASE ~busActive
      BY <2>2 DEF Follows
    <2> QED
      BY <2>1, <2>2
  <1> HIDE DEF y, busActive
  <1>3. Power(y) /\ y.ps.suspended = x.ps.suspended
    BY <1>2 DEF Follows
  <1>4. CASE needed
    <2>1. z = Wakeup(y)
      BY <1>4
    <2>2. Follows(y, z) /\ z.ps.suspended = FALSE
      BY <1>3, <2>1, WakeupFollows, Zenon
    <2> HIDE DEF z
    <2>3. Follows(x, z)
      BY <1>2, <2>2, FollowsTransitive
    <2> QED
      BY <1>1, <2>2, <2>3
  <1>5. CASE ~needed
    <2>1. x.ps.wakers = {} /\ p \cap Pageset = {} /\ n = 0
      BY <1>5
    <2>2. CASE Busy
      <3>1. z = UpdateTimeout(y, BusTime)
        BY <1>5, <2>2
      <3>2. BusTime \in Nat
        BY DEF BusTime
      <3>3. Follows(y, z) /\ z.ps.suspended = y.ps.suspended
        BY <1>3, <3>1, <3>2, UpdateTimeoutFollows, Zenon
      <3> HIDE DEF z
      <3>4. Follows(x, z)
        BY <1>2, <3>3, FollowsTransitive
      <3> QED
        BY <1>1, <1>3, <2>1, <3>3, <3>4
    <2>3. CASE ~Busy
      <3>1. z = [y EXCEPT !.ps.suspended = TRUE]
        BY <1>5, <2>3
      <3>2. Follows(y, z)
        <4>1. TRUE \in BOOLEAN
          OBVIOUS
        <4>2. Follows(y, [y EXCEPT !.ps.suspended = TRUE])
          BY <1>3, <4>1, PinChanges, Zenon
        <4> QED
          BY <3>1, <4>2
      <3>3. fc = <<>>
        BY <2>3 DEF Busy
      <3> HIDE DEF z
      <3>4. Follows(x, z)
        BY <1>2, <3>2, FollowsTransitive
      <3> QED
        BY <1>1, <2>1, <3>3, <3>4
    <2> QED
      BY <2>2, <2>3
  <1> QED
    BY <1>4, <1>5

LEMMA WakersChange ==
    ASSUME NEW P \in PsType, NEW W \in SUBSET Wakers
    PROVE  /\ [P EXCEPT !.wakers = W] \in PsType
           /\ [P EXCEPT !.wakers = W].wakers = W
           /\ [P EXCEPT !.wakers = W].suspended = P.suspended
           /\ [P EXCEPT !.wakers = W].bus = P.bus
  BY DEF PsType

-----------------------------------------------------------------------------
(* Other threads                                                           *)

\* The budget of a behaviour is spent one at a time.
LEMMA SpendType ==
    ASSUME Types, NEW what \in Bounded, Spend(what)
    PROVE  left' \in [Bounded -> Nat]
  BY DEF Types, Spend

\* Notifying the task.
LEMMA NotifyType ==
    ASSUME Types, NEW es \in SUBSET Events, Notify(es)
    PROVE  pend' \subseteq Events /\ pend' = pend \cup es /\ semb' \in BOOLEAN /\ semb'
  BY Zenon DEF Types, Notify

\* morse_cmd_tx
LEMMA SendCommandKeeps ==
    ASSUME IInv, SendCommand
    PROVE  IInv'
  <1> USE DEF task, pause, chip, bounds
  <1>1. Types /\ StatusDue /\ Queued /\ Roused /\ Working /\ Pin
    BY DEF IInv
  <1>2. "CMD" \in Bounded /\ {"EVAL", "CMD"} \subseteq Events
        /\ ps.wakers \cup {"COMMAND"} \subseteq Wakers /\ ps \in PsType
    BY <1>1 DEF Bounded, Queues, Events, Pageset, Types, PsType, Wakers
  <1>3. left' \in [Bounded -> Nat]
    BY <1>1, <1>2, SpendType DEF SendCommand
  <1>4. pend' \subseteq Events /\ pend' = pend \cup {"EVAL", "CMD"}
        /\ semb' \in BOOLEAN /\ semb'
    BY <1>1, <1>2, NotifyType, Zenon DEF SendCommand
  <1>5. /\ ps' \in PsType /\ ps'.wakers = ps.wakers \cup {"COMMAND"}
        /\ ps'.suspended = ps.suspended
    BY <1>2, WakersChange, Zenon DEF SendCommand
  <1>6. /\ queue' \in [Queues -> Nat]
        /\ queue'["MGMT"] = queue["MGMT"] /\ queue'["DATA"] = queue["DATA"]
    BY <1>1 DEF SendCommand, Types, Queues
  <1>7. UNCHANGED <<sched, pc, active, status, stopped, paused, full, reads, chip>>
    BY DEF SendCommand
  <1>8. Types'
    BY <1>1, <1>3, <1>4, <1>5, <1>6, <1>7 DEF Types
  <1>9. StatusDue'
    BY <1>1, <1>7 DEF StatusDue
  <1>10. Queued' /\ Roused'
    BY <1>1, <1>4, <1>6, <1>7 DEF Queued, Roused, Noticed, Allowed
  <1>11. Working'
    BY <1>1, <1>5, <1>7 DEF Working, working
  <1>12. Pin'
    BY <1>1, <1>4, <1>5, <1>6, <1>7 DEF Pin, Allowed
  <1> QED
    BY <1>8, <1>9, <1>10, <1>11, <1>12 DEF IInv

\* The end of morse_cmd_tx
LEMMA EndCommandKeeps ==
    ASSUME IInv, EndCommand
    PROVE  IInv'
  <1> USE DEF task, pause, chip, bounds
  <1>1. Types /\ StatusDue /\ Queued /\ Roused /\ Working /\ Pin
    BY DEF IInv
  <1>2. {"EVAL"} \subseteq Events
        /\ ps.wakers \ {"COMMAND"} \subseteq Wakers /\ ps \in PsType
    BY <1>1 DEF Events, Types, PsType
  <1>4. pend' \subseteq Events /\ pend' = pend \cup {"EVAL"}
        /\ semb' \in BOOLEAN /\ semb'
    BY <1>1, <1>2, NotifyType, Zenon DEF EndCommand
  <1>5. /\ ps' \in PsType /\ ps'.wakers = ps.wakers \ {"COMMAND"}
        /\ ps'.suspended = ps.suspended
    BY <1>2, WakersChange, Zenon DEF EndCommand
  <1>6. /\ queue' \in [Queues -> Nat] /\ queue'["CMD"] = 0
        /\ queue'["MGMT"] = queue["MGMT"] /\ queue'["DATA"] = queue["DATA"]
    BY <1>1 DEF EndCommand, Types, Queues
  <1>7. UNCHANGED <<sched, pc, active, status, stopped, paused, full, reads, chip, left>>
    BY DEF EndCommand
  <1>8. Types'
    BY <1>1, <1>4, <1>5, <1>6, <1>7 DEF Types
  <1>9. StatusDue'
    BY <1>1, <1>7 DEF StatusDue
  <1>10. Queued' /\ Roused'
    BY <1>1, <1>4, <1>6, <1>7 DEF Queued, Roused, Noticed, Allowed
  <1>11. Working'
    BY <1>1, <1>5, <1>7 DEF Working, working
  <1>12. Pin'
    BY <1>1, <1>4, <1>5, <1>6, <1>7 DEF Pin, Allowed
  <1> QED
    BY <1>8, <1>9, <1>10, <1>11, <1>12 DEF IInv

\* morse_skbq_mmpkt_tx: data that is not notified is not allowed.
LEMMA SendFrameKeeps ==
    ASSUME IInv, NEW q \in {"MGMT", "DATA"}, SendFrame(q)
    PROVE  IInv'
  <1> USE DEF task, pause, chip, bounds
  <1>1. Types /\ StatusDue /\ Queued /\ Roused /\ Working /\ Pin
    BY DEF IInv
  <1>2. q \in Bounded /\ {q} \subseteq Events /\ q \in Queues
    BY DEF Bounded, Queues, Events, Pageset
  <1>3. left' \in [Bounded -> Nat]
    BY <1>1, <1>2, SpendType DEF SendFrame
  <1>4. CASE q = "MGMT" \/ Allowed(stopped, pend)
    <2>1. Notify({q})
      BY <1>4 DEF SendFrame
    <2> QED
      <3>4. pend' \subseteq Events /\ pend' = pend \cup {q}
            /\ semb' \in BOOLEAN /\ semb'
        BY <1>1, <1>2, <2>1, NotifyType, Zenon
      <3>6. /\ queue' \in [Queues -> Nat]
            /\ \A r \in Queues : r # q => queue'[r] = queue[r]
        BY <1>1, <1>2 DEF SendFrame, Types
      <3>7. UNCHANGED <<sched, pc, active, ps, status, stopped, paused, full, reads, chip>>
        BY DEF SendFrame
      <3>8. Types'
        BY <1>1, <1>3, <3>4, <3>6, <3>7 DEF Types
      <3>9. StatusDue' /\ Working'
        BY <1>1, <3>7 DEF StatusDue, Working, working
      <3>10. Queued' /\ Roused'
        BY <1>1, <1>4, <3>4, <3>6, <3>7 DEF Queued, Roused, Noticed, Allowed, Queues
      <3>12. Pin'
        BY <1>1, <3>4, <3>6, <3>7 DEF Pin, Allowed, Queues
      <3> QED
        BY <3>8, <3>9, <3>10, <3>12 DEF IInv
  <1>5. CASE ~(q = "MGMT" \/ Allowed(stopped, pend))
    <2>1. UNCHANGED <<sched, pc, active, ps, status, stopped, paused, full, reads, chip,
                      pend, semb>>
      BY <1>5 DEF SendFrame
    <2>2. /\ queue' \in [Queues -> Nat]
          /\ \A r \in Queues : r # q => queue'[r] = queue[r]
      BY <1>1, <1>2 DEF SendFrame, Types
    <2>3. Types'
      BY <1>1, <1>3, <2>1, <2>2 DEF Types
    <2>4. StatusDue' /\ Working' /\ Roused'
      BY <1>1, <2>1 DEF StatusDue, Working, working, Roused
    <2>5. Queued' /\ Pin'
      BY <1>1, <1>5, <2>1, <2>2 DEF Queued, Pin, Noticed, Allowed, Queues
    <2> QED
      BY <2>3, <2>4, <2>5 DEF IInv
  <1> QED
    BY <1>4, <1>5

\* mmdrv_set_wake_enabled
LEMMA UmacWakeKeeps ==
    ASSUME IInv, NEW on \in BOOLEAN, UmacWake(on)
    PROVE  IInv'
  <1> USE DEF task, pause, chip, bounds
  <1> DEFINE W == IF on THEN ps.wakers \cup {"UMAC"} ELSE ps.wakers \ {"UMAC"}
  <1>1. Types /\ StatusDue /\ Queued /\ Roused /\ Working /\ Pin
    BY DEF IInv
  <1>2. "wake" \in Bounded /\ {"EVAL"} \subseteq Events
        /\ W \subseteq Wakers /\ ps \in PsType
    BY <1>1 DEF Bounded, Events, Types, PsType, Wakers
  <1>3. left' \in [Bounded -> Nat]
    BY <1>1, <1>2, SpendType DEF UmacWake
  <1>4. pend' \subseteq Events /\ pend' = pend \cup {"EVAL"}
        /\ semb' \in BOOLEAN /\ semb'
    BY <1>1, <1>2, NotifyType, Zenon DEF UmacWake
  <1>5. /\ ps' \in PsType /\ ps'.wakers = W
        /\ ps'.suspended = ps.suspended
    <2>1. ps' = [ps EXCEPT !.wakers = W]
      BY DEF UmacWake
    <2> HIDE DEF W
    <2> QED
      BY <1>2, <2>1, WakersChange
  <1>6. "PAGESET" \in ps'.wakers <=> "PAGESET" \in ps.wakers
    BY <1>5
  <1>7. UNCHANGED <<sched, pc, active, status, stopped, paused, full, reads, chip, queue>>
    BY DEF UmacWake
  <1>8. Types'
    BY <1>1, <1>3, <1>4, <1>5, <1>7 DEF Types
  <1>9. StatusDue'
    BY <1>1, <1>7 DEF StatusDue
  <1>10. Queued' /\ Roused'
    BY <1>1, <1>4, <1>7 DEF Queued, Roused, Noticed, Allowed
  <1>11. Working'
    BY <1>1, <1>5, <1>6, <1>7 DEF Working, working
  <1>12. Pin'
    BY <1>1, <1>4, <1>5, <1>7 DEF Pin, Allowed
  <1> QED
    BY <1>8, <1>9, <1>10, <1>11, <1>12 DEF IInv

-----------------------------------------------------------------------------
(* The chip                                                                *)

\* The chip has something for the host, and the task has its event of it.
LEMMA ChipHasEvent ==
    ASSUME Types,
           NEW p \in Packets \cup {"status"}, fc' = Append(fc, p),
           IF fc = <<>> THEN Notify({"ASYNC"}) ELSE UNCHANGED <<pend, semb>>
    PROVE  /\ fc' \in Seq(Packets \cup {"status"})
           /\ pend' \subseteq Events /\ semb' \in BOOLEAN
           /\ pend' \subseteq pend \cup {"ASYNC"} /\ pend \subseteq pend'
           /\ fc = <<>> => "ASYNC" \in pend'
           /\ (semb' /\ pend' = pend \cup {"ASYNC"}) \/ (semb' = semb /\ pend' = pend)
  <1>1. fc' \in Seq(Packets \cup {"status"})
    BY DEF Types
  <1>2. CASE fc = <<>>
    <2>1. {"ASYNC"} \subseteq Events
      BY DEF Events
    <2>2. pend' \subseteq Events /\ pend' = pend \cup {"ASYNC"} /\ semb' \in BOOLEAN /\ semb'
      BY <1>2, <2>1, NotifyType, Zenon
    <2> QED
      BY <1>1, <2>2
  <1>3. CASE fc # <<>>
    BY <1>1, <1>3 DEF Types
  <1> QED
    BY <1>2, <1>3

LEMMA ChipSendsKeeps ==
    ASSUME IInv, NEW p \in Packets, ChipSends(p)
    PROVE  IInv'
  <1> USE DEF task, pause, chip, bounds
  <1>1. Types /\ StatusDue /\ Queued /\ Roused /\ Working /\ Pin
    BY DEF IInv
  <1>2. p \in Bounded /\ p # "status"
    BY DEF Bounded, Packets
  <1>3. left' \in [Bounded -> Nat]
    BY <1>1, <1>2, SpendType DEF ChipSends
  <1>4. /\ fc' = Append(fc, p)
        /\ irq' = irq \cup {"RX"}
        /\ IF fc = <<>> THEN Notify({"ASYNC"}) ELSE UNCHANGED <<pend, semb>>
    BY Zenon DEF ChipSends, ChipHas
  <1>5. /\ fc' \in Seq(Packets \cup {"status"})
        /\ pend' \subseteq Events /\ semb' \in BOOLEAN
        /\ pend' \subseteq pend \cup {"ASYNC"} /\ pend \subseteq pend'
        /\ fc = <<>> => "ASYNC" \in pend'
        /\ (semb' /\ pend' = pend \cup {"ASYNC"}) \/ (semb' = semb /\ pend' = pend)
    BY <1>1, <1>4, ChipHasEvent
  <1>6. fc \in Seq(Packets \cup {"status"}) /\ irq \subseteq {"RX", "FREED"}
    BY <1>1 DEF Types
  <1>7. UNCHANGED <<sched, pc, active, ps, queue, status, stopped, paused, full, reads, held>>
    BY DEF ChipSends
  <1>8. Types'
    <2>1. irq' \subseteq {"RX", "FREED"}
      BY <1>4, <1>6
    <2> QED
      BY <1>1, <1>3, <1>5, <1>7, <2>1 DEF Types
  <1>9. StatusDue'
    <2>1. Cardinality(Statuses(Append(fc, p))) = Cardinality(Statuses(fc)) + 0
      BY <1>2, <1>6, StatusesAppend
    <2>2. Cardinality(Statuses(fc)) \in Nat
      BY <1>6, StatusesFinite
    <2> QED
      BY <1>1, <1>4, <1>7, <2>1, <2>2 DEF StatusDue
  <1>10. Queued' /\ Roused'
    BY <1>1, <1>5, <1>7 DEF Queued, Roused, Noticed, Allowed
  <1>11. Working'
    BY <1>1, <1>7 DEF Working, working
  <1>12. Pin'
    BY <1>1, <1>5, <1>7 DEF Pin, Allowed
  <1> QED
    BY <1>8, <1>9, <1>10, <1>11, <1>12 DEF IInv

\* A frame that the chip is done with has its status: the chip was awake.
LEMMA ChipFreesKeeps ==
    ASSUME IInv, NEW q \in Queues, ChipFrees(q)
    PROVE  IInv'
  <1> USE DEF task, pause, chip, bounds
  <1>1. Types /\ StatusDue /\ Queued /\ Roused /\ Working /\ Pin
    BY DEF IInv
  <1>2. /\ held \in [Queues -> 0 .. Space] /\ Space \in Nat
        /\ fc \in Seq(Packets \cup {"status"}) /\ irq \subseteq {"RX", "FREED"}
    BY <1>1, DriverTaskAssumption DEF Types
  <1>3. UNCHANGED <<sched, pc, active, ps, queue, status, stopped, paused, full, reads, left>>
    BY DEF ChipFrees
  <1>4. /\ held' \in [Queues -> 0 .. Space] /\ held'[q] = held[q] - 1
        /\ \A r \in Queues : r # q => held'[r] = held[r]
    BY <1>2 DEF ChipFrees
  <1>5. CASE q = "CMD"
    <2>1. UNCHANGED <<fc, irq, pend, semb>>
      BY <1>5 DEF ChipFrees
    <2>2. Types'
      BY <1>1, <1>3, <1>4, <2>1 DEF Types
    <2>3. StatusDue'
      BY <1>1, <1>3, <1>4, <1>5, <2>1 DEF StatusDue, Queues
    <2>4. Queued' /\ Roused' /\ Working'
      BY <1>1, <1>3, <2>1 DEF Queued, Roused, Noticed, Allowed, Working, working
    <2>5. Pin'
      BY <1>1, <1>3, <2>1 DEF Pin, Allowed
    <2> QED
      BY <2>2, <2>3, <2>4, <2>5 DEF IInv
  <1>6. CASE q # "CMD"
    <2>1. /\ fc' = Append(fc, "status")
          /\ irq' = irq \cup {"RX"} \cup (IF q = "DATA" THEN {"FREED"} ELSE {})
          /\ IF fc = <<>> THEN Notify({"ASYNC"}) ELSE UNCHANGED <<pend, semb>>
      BY <1>6, Zenon DEF ChipFrees
    <2>2. /\ fc' \in Seq(Packets \cup {"status"})
          /\ pend' \subseteq Events /\ semb' \in BOOLEAN
          /\ pend' \subseteq pend \cup {"ASYNC"} /\ pend \subseteq pend'
          /\ fc = <<>> => "ASYNC" \in pend'
          /\ (semb' /\ pend' = pend \cup {"ASYNC"}) \/ (semb' = semb /\ pend' = pend)
      <3>1. "status" \in Packets \cup {"status"}
        OBVIOUS
      <3> QED
        BY <1>1, <2>1, <3>1, ChipHasEvent
    <2>3. irq' \subseteq {"RX", "FREED"}
      BY <1>2, <2>1
    <2>4. Types'
      BY <1>1, <1>3, <1>4, <2>2, <2>3 DEF Types
    <2>5. StatusDue'
      <3>1. Cardinality(Statuses(Append(fc, "status"))) = Cardinality(Statuses(fc)) + 1
        BY <1>2, StatusesAppend
      <3>2. Cardinality(Statuses(fc)) \in Nat
        BY <1>2, StatusesFinite
      <3>3. CASE q = "MGMT"
        BY <1>1, <1>2, <1>3, <1>4, <2>1, <3>1, <3>2, <3>3 DEF StatusDue, Queues
      <3>4. CASE q = "DATA"
        BY <1>1, <1>2, <1>3, <1>4, <2>1, <3>1, <3>2, <3>4 DEF StatusDue, Queues
      <3> QED
        BY <1>6, <3>3, <3>4 DEF Queues
    <2>6. Queued' /\ Roused' /\ Working'
      BY <1>1, <1>3, <2>2 DEF Queued, Roused, Noticed, Allowed, Working, working
    <2>7. Pin'
      BY <1>1, <1>3, <2>2 DEF Pin, Allowed
    <2> QED
      BY <2>4, <2>5, <2>6, <2>7 DEF IInv
  <1> QED
    BY <1>5, <1>6

\* yaps_irq_handler
LEMMA IrqKeeps ==
    ASSUME IInv, Irq
    PROVE  IInv'
  <1> USE DEF task, pause, chip, bounds
  <1>1. Types /\ StatusDue /\ Queued /\ Roused /\ Working /\ Pin
    BY DEF IInv
  <1>2. irq \subseteq Events
    BY <1>1 DEF Types, Events, Pageset
  <1>3. pend' \subseteq Events /\ pend' = pend \cup irq /\ semb' \in BOOLEAN /\ semb'
    BY <1>1, <1>2, NotifyType, Zenon DEF Irq
  <1>4. UNCHANGED <<sched, pc, active, ps, queue, status, stopped, paused, full, reads, held, fc,
                    left>> /\ irq' = {}
    BY DEF Irq
  <1>5. Types'
    BY <1>1, <1>3, <1>4 DEF Types
  <1>6. StatusDue' /\ Working'
    BY <1>1, <1>4 DEF StatusDue, Working, working
  <1>7. Queued' /\ Roused'
    BY <1>1, <1>3, <1>4 DEF Queued, Roused, Noticed, Allowed
  <1>8. Pin'
    BY <1>1, <1>3, <1>4 DEF Pin, Allowed
  <1> QED
    BY <1>5, <1>6, <1>7, <1>8 DEF IInv

\* Time takes nothing from the schedule.
LEMMA TickKeeps ==
    ASSUME IInv, Tick
    PROVE  IInv'
  <1> USE DEF task, pause, chip, bounds
  <1>1. Types /\ StatusDue /\ Queued /\ Roused /\ Working /\ Pin
    BY DEF IInv
  <1>2. UNCHANGED <<pend, semb, pc, active, queue, status, stopped, paused, full, reads, held, fc,
                    irq, left>>
    BY DEF Tick
  <1>3. DOMAIN sched' = DOMAIN sched /\ Table(sched')
    BY <1>1 DEF Tick, Types, Table
  <1>4. ps' \in PsType /\ ps'.wakers = ps.wakers /\ ps'.suspended = ps.suspended
    <2> DEFINE t == IF ps.bus > 0 THEN ps.bus - 1 ELSE 0
    <2>1. t \in Nat /\ ps \in PsType
      BY <1>1 DEF Types, PsType
    <2>2. ps' = [ps EXCEPT !.bus = t]
      BY DEF Tick
    <2> HIDE DEF t
    <2> QED
      BY <2>1, <2>2 DEF PsType
  <1>5. Types'
    BY <1>1, <1>2, <1>3, <1>4 DEF Types
  <1>6. StatusDue' /\ Roused'
    BY <1>1, <1>2 DEF StatusDue, Roused
  <1>7. Queued'
    BY <1>1, <1>2, <1>3 DEF Queued, Noticed, Allowed
  <1>8. Working' /\ Pin'
    BY <1>1, <1>2, <1>4 DEF Working, working, Pin, Allowed
  <1> QED
    BY <1>5, <1>6, <1>7, <1>8 DEF IInv

-----------------------------------------------------------------------------
(* The driver task                                                         *)

\* driver_task_process_scheduled_evts: an event leaves the schedule only when it
\* is pending.
LEMMA TopKeeps ==
    ASSUME IInv, Top
    PROVE  IInv'
  <1> USE DEF task, pause, chip, bounds
  <1>1. Types /\ StatusDue /\ Queued /\ Roused /\ Working /\ Pin
    BY DEF IInv
  <1>2. UNCHANGED <<semb, active, ps, queue, status, stopped, paused, full, reads, chip,
                    left>> /\ pc = "top" /\ pc' = "events"
    BY DEF Top
  <1>3. Table(sched) /\ Due(sched) \subseteq DOMAIN sched
    BY <1>1 DEF Types, Due
  <1>4. pend' = pend \cup Due(sched) /\ pend' \subseteq Events
    BY <1>1, <1>3 DEF Top, Types, Table
  <1>5. /\ Table(sched')
        /\ DOMAIN sched' = DOMAIN sched \ (Due(sched) \cup pend)
    BY <1>3, RestrictTable DEF Top
  <1>6. Types'
    BY <1>1, <1>2, <1>4, <1>5 DEF Types
  <1>7. StatusDue' /\ Roused' /\ Working'
    BY <1>1, <1>2 DEF StatusDue, Roused, Working, working
  <1>8. Queued'
    BY <1>1, <1>2, <1>4, <1>5 DEF Queued, Noticed, Allowed
  <1>9. Pin'
    BY <1>1, <1>2, <1>4 DEF Pin, Allowed
  <1> QED
    BY <1>6, <1>7, <1>8, <1>9 DEF IInv

\* The task goes to sleep with no event pending.
LEMMA EventLoopKeeps ==
    ASSUME IInv, EventLoop
    PROVE  IInv'
  <1> USE DEF task, pause, chip, bounds
  <1>1. Types /\ StatusDue /\ Queued /\ Roused /\ Working /\ Pin
    BY DEF IInv
  <1>2. UNCHANGED <<pend, sched, semb, active, ps, queue, status, stopped, paused, full, reads,
                    held, fc, irq, left>> /\ pc = "events"
    BY DEF EventLoop
  <1>3. pc' \in {"ps", "top", "sleep"} /\ (pc' = "sleep" => pend = {})
    BY DEF EventLoop
  <1>4. Types'
    BY <1>1, <1>2, <1>3 DEF Types
  <1>5. StatusDue' /\ Roused' /\ Working'
    BY <1>1, <1>2, <1>3 DEF StatusDue, Roused, Working, working
  <1>6. Queued' /\ Pin'
    BY <1>1, <1>2 DEF Queued, Noticed, Allowed, Pin
  <1> QED
    BY <1>4, <1>5, <1>6 DEF IInv

LEMMA SleepKeeps ==
    ASSUME IInv, Sleep
    PROVE  IInv'
  <1> USE DEF task, pause, chip, bounds
  <1>1. Types /\ StatusDue /\ Queued /\ Roused /\ Working /\ Pin
    BY DEF IInv
  <1>2. UNCHANGED <<pend, sched, active, ps, queue, status, stopped, paused, full, reads,
                    held, fc, irq, left>> /\ pc = "sleep" /\ pc' = "top"
    BY DEF Sleep
  <1>3. semb' \in BOOLEAN
    BY Zenon DEF Sleep
  <1>4. Types'
    BY <1>1, <1>2, <1>3 DEF Types
  <1>5. StatusDue' /\ Roused' /\ Working'
    BY <1>1, <1>2 DEF StatusDue, Roused, Working, working
  <1>6. Queued' /\ Pin'
    BY <1>1, <1>2 DEF Queued, Noticed, Allowed, Pin
  <1> QED
    BY <1>4, <1>5, <1>6 DEF IInv

\* The power save and the schedule that a step leaves.
LEMMA BecomeType ==
    ASSUME Types, NEW x, Power(x), Become(x)
    PROVE  /\ ps' = x.ps /\ ps' \in PsType
           /\ sched' = x.sched /\ Table(sched')
           /\ semb' \in BOOLEAN
  <1>1. ps' = x.ps /\ sched' = x.sched
    BY DEF Become
  <1>2. semb' \in BOOLEAN
    BY Zenon DEF Become
  <1> QED
    BY <1>1, <1>2 DEF Power

LEMMA NoneOfFour ==
    ASSUME NEW a \in Nat, NEW b \in Nat, NEW c \in Nat, NEW d \in Nat
    PROVE  /\ a + b + c + d \in Nat
           /\ a + b + c + d = 0 => a = 0 /\ b = 0 /\ c = 0 /\ d = 0
  OBVIOUS

\* skbq_get_tx_buffered_count
LEMMA BufferedNone ==
    ASSUME Types
    PROVE  /\ Buffered \in Nat
           /\ Buffered = 0 =>
                /\ status = 0 /\ queue["CMD"] = 0 /\ queue["MGMT"] = 0
                /\ Allowed(stopped, pend) => queue["DATA"] = 0
  <1>1. /\ status \in Nat /\ queue["CMD"] \in Nat /\ queue["MGMT"] \in Nat
        /\ queue["DATA"] \in Nat
    BY DEF Types, Queues
  <1> DEFINE d == IF Allowed(stopped, pend) THEN queue["DATA"] ELSE 0
  <1>2. d \in Nat /\ (d = 0 /\ Allowed(stopped, pend) => queue["DATA"] = 0)
    BY <1>1
  <1>3. Buffered = queue["CMD"] + queue["MGMT"] + status + d
    BY DEF Buffered
  <1> HIDE DEF d
  <1>4. /\ Buffered \in Nat
        /\ Buffered = 0 => /\ queue["CMD"] = 0 /\ queue["MGMT"] = 0
                           /\ status = 0 /\ d = 0
    <2> DEFINE sum == queue["CMD"] + queue["MGMT"] + status + d
    <2>1. /\ sum \in Nat
          /\ sum = 0 => queue["CMD"] = 0 /\ queue["MGMT"] = 0 /\ status = 0 /\ d = 0
      <3> DEFINE a == queue["CMD"]
                 b == queue["MGMT"]
      <3>1. {a, b, status, d} \subseteq Nat
        BY <1>1, <1>2
      <3> HIDE DEF a, b
      <3>2. /\ a + b + status + d \in Nat
            /\ a + b + status + d = 0 => a = 0 /\ b = 0 /\ status = 0 /\ d = 0
        BY <3>1, NoneOfFour
      <3> QED
        BY <3>2 DEF a, b
    <2>2. Buffered = sum
      BY <1>3
    <2> HIDE DEF sum
    <2> QED
      BY <2>1, <2>2
  <1> QED
    BY <1>2, <1>4

\* morse_ps_work: the chip is left asleep, or let sleep, only with nothing to do.
LEMMA PsWorkKeeps ==
    ASSUME IInv, PsWork
    PROVE  IInv'
  <1> USE DEF task, pause, chip, bounds
  <1> DEFINE x == [ps |-> ps, sched |-> sched]
             w == IF "ASYNC" \in pend THEN Wakeup(x) ELSE x
             b == IF "BUS" \in pend /\ w.ps.bus > 0
                  THEN [w EXCEPT !.sched = Schedule(@, "BUS", w.ps.bus)] ELSE w
             eval == "EVAL" \in pend \/ ("BUS" \in pend /\ w.ps.bus = 0)
             r == IF eval THEN Evaluate(b, pend', Buffered) ELSE b
  <1>1. Types /\ StatusDue /\ Queued /\ Roused /\ Working /\ Pin
    BY DEF IInv
  <1>2. /\ UNCHANGED <<active, queue, status, stopped, paused, full, reads, chip, left>>
        /\ pc = "ps" /\ pc' = "work" /\ pend' = pend \ {"ASYNC", "EVAL", "BUS"}
    BY DEF PsWork
  <1>3. Become(r)
    BY Zenon DEF PsWork
  <1>4. Power(x) /\ x.ps = ps /\ x.sched = sched
    BY <1>1, PowerOf DEF Types
  <1> HIDE DEF x
  <1>5. Follows(x, w) /\ (w.ps.suspended => x.ps.suspended /\ "ASYNC" \notin pend)
    <2>1. CASE "ASYNC" \in pend
      <3>1. w = Wakeup(x)
        BY <2>1
      <3> QED
        BY <1>4, <3>1, WakeupFollows
    <2>2. CASE "ASYNC" \notin pend
      BY <1>4, <2>2 DEF Follows
    <2> QED
      BY <2>1, <2>2
  <1> HIDE DEF w
  <1>6. Follows(x, b) /\ Power(b) /\ b.ps = w.ps
    <2>1. Power(w)
      BY <1>5 DEF Follows
    <2>2. CASE "BUS" \in pend /\ w.ps.bus > 0
      <3>1. Follows(w, b) /\ b.ps = w.ps
        BY <2>1, <2>2, BusAgain, Zenon
      <3>2. Follows(x, b)
        BY <1>5, <3>1, FollowsTransitive
      <3> QED
        BY <3>1, <3>2 DEF Follows
    <2>3. CASE ~("BUS" \in pend /\ w.ps.bus > 0)
      BY <1>5, <2>1, <2>3
    <2> QED
      BY <2>2, <2>3
  <1>7. b.ps.suspended => ps.suspended /\ "ASYNC" \notin pend
    BY <1>4, <1>5, <1>6
  <1>8. b.ps.wakers = ps.wakers
    BY <1>4, <1>6 DEF Follows
  <1> HIDE DEF b
  <1>9. Buffered \in Nat
    BY <1>1, BufferedNone
  <1>10. /\ Follows(x, r)
         /\ r.ps.suspended =>
              \/ /\ ps.wakers = {} /\ Buffered = 0
                 /\ fc = <<>> \/ (ps.suspended /\ "ASYNC" \notin pend)
              \/ ps.suspended /\ "ASYNC" \notin pend /\ "EVAL" \notin pend
    <2>1. CASE eval
      <3>1. r = Evaluate(b, pend', Buffered)
        BY <2>1
      <3>2. /\ Follows(b, r)
            /\ r.ps.suspended => /\ b.ps.wakers = {} /\ Buffered = 0
                                 /\ fc = <<>> \/ b.ps.suspended
        BY <1>6, <1>9, <3>1, EvaluateFollows
      <3> HIDE DEF r
      <3>3. Follows(x, r)
        BY <1>6, <3>2, FollowsTransitive
      <3> QED
        BY <1>7, <1>8, <3>2, <3>3
    <2>2. CASE ~eval
      BY <1>6, <1>7, <2>2
    <2> QED
      BY <2>1, <2>2
  <1> HIDE DEF r
  <1>11. /\ ps' \in PsType /\ ps'.wakers = ps.wakers /\ ps'.suspended = r.ps.suspended
         /\ Table(sched') /\ DOMAIN sched \subseteq DOMAIN sched' /\ semb' \in BOOLEAN
    <2>1. Power(r)
      BY <1>10 DEF Follows
    <2>2. /\ ps' = r.ps /\ ps' \in PsType /\ sched' = r.sched /\ Table(sched')
          /\ semb' \in BOOLEAN
      BY <1>1, <1>3, <2>1, BecomeType, Zenon
    <2> QED
      BY <1>4, <1>10, <2>2 DEF Follows
  <1>12. Types'
    BY <1>1, <1>2, <1>11 DEF Types
  <1>13. StatusDue' /\ Roused' /\ Working'
    BY <1>1, <1>2, <1>11 DEF StatusDue, Roused, Working, working
  <1>14. Queued'
    BY <1>1, <1>2, <1>11 DEF Queued, Noticed, Allowed
  <1>15. Pin'
    <2> SUFFICES ASSUME ps'.suspended PROVE Pin'
      BY DEF Pin
    <2>1. "PAUSE" \in pend' <=> "PAUSE" \in pend
      BY <1>2
    <2>2. CASE /\ ps.wakers = {} /\ Buffered = 0
               /\ fc = <<>> \/ (ps.suspended /\ "ASYNC" \notin pend)
      <3>1. fc = <<>>
        BY <1>1, <2>2 DEF Pin
      <3>2. /\ status = 0 /\ queue["CMD"] = 0 /\ queue["MGMT"] = 0
            /\ Allowed(stopped, pend) => queue["DATA"] = 0
        BY <1>1, <2>2, BufferedNone
      <3> QED
        BY <1>2, <1>11, <2>1, <2>2, <3>1, <3>2 DEF Pin, Allowed
    <2>3. CASE ps.suspended /\ "ASYNC" \notin pend /\ "EVAL" \notin pend
      BY <1>1, <1>2, <1>11, <2>1, <2>3 DEF Pin, Allowed
    <2> QED
      BY <1>10, <1>11, <2>2, <2>3
  <1> QED
    BY <1>12, <1>13, <1>14, <1>15 DEF IInv

\* The start of morse_yaps_work: it keeps the chip awake.
LEMMA BeginWorkKeeps ==
    ASSUME IInv, BeginWork
    PROVE  IInv'
  <1> USE DEF task, pause, chip, bounds
  <1>1. Types /\ StatusDue /\ Queued /\ Roused /\ Working /\ Pin
    BY DEF IInv
  <1>2. UNCHANGED <<queue, status, stopped, paused, full, reads, chip, left>>
        /\ pc = "work"
    BY DEF BeginWork
  <1>3. active' \in BOOLEAN
    BY Zenon DEF BeginWork
  <1>4. CASE pend \cap Pageset = {}
    <2>1. UNCHANGED <<pend, sched, semb, ps>> /\ pc' = "events"
      BY <1>4 DEF BeginWork
    <2>2. Types'
      BY <1>1, <1>2, <1>3, <2>1 DEF Types
    <2>3. StatusDue' /\ Roused' /\ Working'
      BY <1>1, <1>2, <2>1 DEF StatusDue, Roused, Working, working
    <2>4. Queued' /\ Pin'
      BY <1>1, <1>2, <2>1 DEF Queued, Noticed, Allowed, Pin
    <2> QED
      BY <2>2, <2>3, <2>4 DEF IInv
  <1>5. CASE pend \cap Pageset # {}
    <2> DEFINE W == ps.wakers \cup {"PAGESET"}
               P == [ps EXCEPT !.wakers = W]
               x == [ps |-> P, sched |-> sched]
               r == Evaluate(x, pend, Buffered)
    <2>1. /\ Become(r)
          /\ pend' = pend \ {"RX"} /\ pc' = IF "RX" \in pend THEN "rx" ELSE "tx"
      BY <1>5, Zenon DEF BeginWork
    <2>2. ps \in PsType /\ Table(sched) /\ W \subseteq Wakers
      BY <1>1 DEF Types, PsType, Wakers
    <2>3. P \in PsType /\ P.wakers = W
      BY <2>2, WakersChange, Zenon
    <2> HIDE DEF P
    <2>4. Power(x) /\ x.ps = P /\ x.sched = sched
      BY <2>2, <2>3, PowerOf
    <2> HIDE DEF x
    <2>5. Buffered \in Nat
      BY <1>1, BufferedNone
    <2>6. Follows(x, r) /\ (r.ps.suspended => x.ps.wakers = {})
      BY <2>4, <2>5, EvaluateFollows, Zenon
    <2> HIDE DEF r
    <2>7. Power(r) /\ r.ps.wakers = W /\ DOMAIN sched \subseteq DOMAIN r.sched
          /\ ~r.ps.suspended
      BY <2>3, <2>4, <2>6 DEF Follows
    <2>8. /\ ps' = r.ps /\ ps' \in PsType /\ sched' = r.sched /\ Table(sched')
          /\ semb' \in BOOLEAN
      BY <1>1, <2>1, <2>7, BecomeType, Zenon
    <2>9. pc' \in {"rx", "tx"} /\ pend' \subseteq Events
      BY <1>1, <2>1 DEF Types
    <2>10. Types'
      BY <1>1, <1>2, <1>3, <2>8, <2>9 DEF Types
    <2>11. StatusDue' /\ Roused'
      BY <1>1, <1>2, <2>9 DEF StatusDue, Roused
    <2>12. Working' /\ Pin'
      BY <2>7, <2>8, <2>9 DEF Working, working, Pin
    <2>13. Queued'
      BY <1>1, <1>2, <2>1, <2>7, <2>8 DEF Queued, Noticed, Allowed
    <2> QED
      BY <2>10, <2>11, <2>12, <2>13 DEF IInv
  <1> QED
    BY <1>4, <1>5

\* The end of morse_yaps_work: the chip, which was awake, is let sleep only with
\* nothing to do.
LEMMA EndWorkKeeps ==
    ASSUME IInv, EndWork
    PROVE  IInv'
  <1> USE DEF task, pause, chip, bounds
  <1>1. Types /\ StatusDue /\ Queued /\ Roused /\ Working /\ Pin
    BY DEF IInv
  <1>2. UNCHANGED <<pend, active, queue, status, stopped, paused, full, reads, chip, left>>
        /\ pc = "end" /\ pc' = "events"
    BY DEF EndWork
  <1> DEFINE x == [ps |-> ps, sched |-> sched]
             y == IF active THEN UpdateTimeout(x, BusTime) ELSE x
             z == [y EXCEPT !.ps.wakers = @ \ {"PAGESET"}]
             r == Evaluate(z, pend, Buffered)
  <1>3. Become(r)
    BY Zenon DEF EndWork
  <1>4. Power(x) /\ x.ps = ps /\ x.sched = sched /\ BusTime \in Nat
    BY <1>1, PowerOf DEF Types, BusTime
  <1> HIDE DEF x
  <1>5. ~x.ps.suspended
    BY <1>1, <1>2, <1>4 DEF Working, working
  <1>6. Follows(x, y) /\ ~y.ps.suspended
    <2>1. CASE active
      BY <1>4, <1>5, <2>1, UpdateTimeoutFollows, Zenon
    <2>2. CASE ~active
      BY <1>4, <1>5, <2>2 DEF Follows
    <2> QED
      BY <2>1, <2>2
  <1> HIDE DEF y
  <1>7. /\ Power(z) /\ z.ps.wakers = ps.wakers \ {"PAGESET"}
        /\ ~z.ps.suspended /\ DOMAIN sched \subseteq DOMAIN z.sched
    <2> DEFINE W == y.ps.wakers \ {"PAGESET"}
               P == [y.ps EXCEPT !.wakers = W]
    <2>1. y = [ps |-> y.ps, sched |-> y.sched] /\ y.ps \in PsType /\ Table(y.sched)
          /\ y.ps.wakers = ps.wakers /\ DOMAIN sched \subseteq DOMAIN y.sched
      BY <1>4, <1>6 DEF Follows, Power
    <2>2. z = [ps |-> P, sched |-> y.sched]
      BY <2>1
    <2>3. W \subseteq Wakers
      BY <2>1 DEF PsType
    <2>4. P \in PsType /\ P.wakers = W /\ P.suspended = y.ps.suspended
      BY <2>1, <2>3, WakersChange, Zenon
    <2> HIDE DEF P, z
    <2>5. Power(z) /\ z.ps = P /\ z.sched = y.sched
      BY <2>1, <2>2, <2>4, PowerOf
    <2> QED
      BY <1>6, <2>1, <2>4, <2>5
  <1> HIDE DEF z
  <1>8. Buffered \in Nat
    BY <1>1, BufferedNone
  <1>9. /\ Follows(z, r)
        /\ r.ps.suspended => /\ z.ps.wakers = {} /\ Buffered = 0
                             /\ fc = <<>> \/ z.ps.suspended
    BY <1>7, <1>8, EvaluateFollows, Zenon
  <1> HIDE DEF r
  <1>10. /\ Power(r) /\ r.ps.wakers = ps.wakers \ {"PAGESET"}
         /\ DOMAIN sched \subseteq DOMAIN r.sched
    BY <1>7, <1>9 DEF Follows
  <1>11. /\ ps' = r.ps /\ ps' \in PsType /\ sched' = r.sched /\ Table(sched')
         /\ semb' \in BOOLEAN
    BY <1>1, <1>3, <1>10, BecomeType, Zenon
  <1>12. Types'
    BY <1>1, <1>2, <1>11 DEF Types
  <1>13. StatusDue' /\ Roused' /\ Working'
    BY <1>1, <1>2, <1>10, <1>11 DEF StatusDue, Roused, Working, working
  <1>14. Queued'
    BY <1>1, <1>2, <1>10, <1>11 DEF Queued, Noticed, Allowed
  <1>15. Pin'
    <2> SUFFICES ASSUME ps'.suspended PROVE Pin'
      BY DEF Pin
    <2>1. /\ ps'.wakers = {} /\ Buffered = 0 /\ fc = <<>>
      BY <1>7, <1>9, <1>10, <1>11
    <2>2. /\ status = 0 /\ queue["CMD"] = 0 /\ queue["MGMT"] = 0
          /\ Allowed(stopped, pend) => queue["DATA"] = 0
      BY <1>1, <2>1, BufferedNone
    <2> QED
      BY <1>2, <2>1, <2>2 DEF Pin
  <1> QED
    BY <1>12, <1>13, <1>14, <1>15 DEF IInv

LEMMA OneLess ==
    ASSUME NEW a \in Nat, NEW b \in Nat, NEW c \in Nat, NEW s \in Nat,
           s >= a + b + (c + 1)
    PROVE  s - 1 >= a + b + c /\ s - 1 \in Nat /\ s >= a + b + c
  OBVIOUS

\* A status is read once, or lost.
LEMMA StatusRead ==
    ASSUME Types, StatusDue, fc # <<>>, fc' = Tail(fc), held' = held,
           \/ status' = IF Head(fc) = "status" THEN status - 1 ELSE status
           \/ status' = status
    PROVE  fc' \in Seq(Packets \cup {"status"}) /\ status' \in Nat /\ StatusDue'
  <1>1. /\ fc \in Seq(Packets \cup {"status"}) /\ status \in Nat
        /\ held["MGMT"] \in Nat /\ held["DATA"] \in Nat
    BY DriverTaskAssumption DEF Types, Queues
  <1>2. fc' \in Seq(Packets \cup {"status"})
    BY <1>1
  <1>3. Cardinality(Statuses(fc))
          = Cardinality(Statuses(fc')) + IF Head(fc) = "status" THEN 1 ELSE 0
    BY <1>1, StatusesTail
  <1>4. Cardinality(Statuses(fc)) \in Nat /\ Cardinality(Statuses(fc')) \in Nat
    BY <1>1, <1>2, StatusesFinite
  <1>5. CASE Head(fc) = "status"
    <2>1. status >= held["MGMT"] + held["DATA"] + (Cardinality(Statuses(fc')) + 1)
      BY <1>3, <1>4, <1>5 DEF StatusDue
    <2>2. /\ status - 1 >= held["MGMT"] + held["DATA"] + Cardinality(Statuses(fc'))
          /\ status - 1 \in Nat
          /\ status >= held["MGMT"] + held["DATA"] + Cardinality(Statuses(fc'))
      BY <1>1, <1>4, <2>1, OneLess
    <2>3. status' = status - 1 \/ status' = status
      BY <1>5
    <2>4. /\ status' >= held["MGMT"] + held["DATA"] + Cardinality(Statuses(fc'))
          /\ status' \in Nat
      BY <1>1, <2>2, <2>3
    <2> QED
      BY <1>2, <2>4 DEF StatusDue
  <1>6. CASE Head(fc) # "status"
    BY <1>1, <1>2, <1>3, <1>4, <1>6 DEF StatusDue
  <1> QED
    BY <1>5, <1>6

\* The loop of morse_yaps_rx_handler goes on, or leaves RX to the next round.
LEMMA ReadOnType ==
    ASSUME Types, NEW p \in SUBSET Events, NEW es \in SUBSET Events, ReadOn(p, es)
    PROVE  /\ pc' \in {"rx", "tx"} /\ reads' \in 0 .. MaxReads - 1
           /\ pend' \subseteq Events /\ p \subseteq pend' /\ es \subseteq pend'
           /\ semb' \in BOOLEAN
  <1> DEFINE limit == reads + 1 >= MaxReads
  <1>1. /\ pc' = IF limit THEN "tx" ELSE "rx"
        /\ reads' = IF limit THEN 0 ELSE reads + 1
        /\ pend' = p \cup es \cup (IF limit THEN {"RX"} ELSE {})
        /\ semb' = (semb \/ limit \/ es # {})
    BY Zenon DEF ReadOn
  <1>2. reads \in 0 .. MaxReads - 1 /\ MaxReads \in Nat \ {0}
    BY DriverTaskAssumption DEF Types
  <1>3. reads' \in 0 .. MaxReads - 1
    BY <1>1, <1>2
  <1> HIDE DEF limit
  <1>4. pc' \in {"rx", "tx"}
    BY <1>1
  <1>5. semb' \in BOOLEAN
    BY <1>1, Zenon
  <1>6. "RX" \in Events
    BY DEF Events, Pageset
  <1>7. pend' \subseteq Events /\ p \subseteq pend' /\ es \subseteq pend'
    BY <1>1, <1>6
  <1> QED
    BY <1>3, <1>4, <1>5, <1>7

\* What a step of the loop leaves of the events keeps what is in the queues
\* noticed.
LEMMA QueuedStays ==
    ASSUME Queued, UNCHANGED <<queue, stopped>>,
           pend \ {"PAUSE TIMEOUT"} \subseteq pend',
           DOMAIN sched \ {"PAUSE TIMEOUT"} \subseteq DOMAIN sched'
    PROVE  Queued'
  BY DEF Queued, Noticed, Allowed

\* morse_skbq_tx_status_process, handle_umac_traffic_control
LEMMA RxPacketKeeps ==
    ASSUME Types, StatusDue, Queued, RxPacket,
           UNCHANGED <<ps, queue, stopped, full, held, irq>>, active' \in BOOLEAN
    PROVE  Types' /\ StatusDue' /\ Queued' /\ pc' \in {"rx", "tx"}
  <1> USE DEF bounds
  <1> DEFINE p == IF Head(fc) = "resume" THEN pend \ {"PAUSE TIMEOUT"} ELSE pend
             es == Notified(Head(fc))
  <1>1. /\ fc # <<>> /\ fc' = Tail(fc) /\ left' = left
        /\ status' = IF Head(fc) = "status" THEN status - 1 ELSE status
        /\ sched' = IF Head(fc) = "pause" /\ PauseTime > 0
                    THEN Schedule(sched, "PAUSE TIMEOUT", PauseTime)
                    ELSE IF Head(fc) = "resume"
                    THEN Unschedule(sched, "PAUSE TIMEOUT") ELSE sched
    BY DEF RxPacket
  <1>2. ReadOn(p, es)
    BY Zenon DEF RxPacket
  <1>3. paused' \in BOOLEAN
    BY Zenon DEF RxPacket
  <1>4. p \in SUBSET Events /\ pend \ {"PAUSE TIMEOUT"} \subseteq p
    BY DEF Types
  <1>5. es \in SUBSET Events
    BY DEF Notified, Events, Pageset
  <1> HIDE DEF p, es
  <1>6. /\ pc' \in {"rx", "tx"} /\ reads' \in 0 .. MaxReads - 1
        /\ pend' \subseteq Events /\ p \subseteq pend' /\ semb' \in BOOLEAN
    BY <1>2, <1>4, <1>5, ReadOnType
  <1>7. fc' \in Seq(Packets \cup {"status"}) /\ status' \in Nat /\ StatusDue'
    BY <1>1, StatusRead
  <1>8. Table(sched') /\ DOMAIN sched \ {"PAUSE TIMEOUT"} \subseteq DOMAIN sched'
    <2>1. Table(sched) /\ PauseTime \in Nat /\ "PAUSE TIMEOUT" \in Events
      BY DriverTaskAssumption DEF Types, Events
    <2>2. CASE sched' = Schedule(sched, "PAUSE TIMEOUT", PauseTime)
      BY <2>1, <2>2, ScheduleTable
    <2>3. CASE sched' = Unschedule(sched, "PAUSE TIMEOUT")
      BY <2>1, <2>3, RestrictTable DEF Unschedule
    <2>4. CASE sched' = sched
      BY <2>1, <2>4
    <2> QED
      BY <1>1, <2>2, <2>3, <2>4
  <1>9. Types'
    BY <1>1, <1>3, <1>6, <1>7, <1>8 DEF Types
  <1>10. Queued'
    BY <1>4, <1>6, <1>8, QueuedStays
  <1> QED
    BY <1>6, <1>7, <1>9, <1>10

\* A transfer that fails
LEMMA RxFailsKeeps ==
    ASSUME Types, StatusDue, Queued, RxFails,
           UNCHANGED <<ps, queue, stopped, full, held, irq>>, active' \in BOOLEAN
    PROVE  Types' /\ StatusDue' /\ Queued' /\ pc' \in {"rx", "tx"}
  <1>1. /\ Spend("fault") /\ ReadOn(pend, {}) /\ UNCHANGED <<status, paused, sched>>
        /\ fc' = fc \/ (fc # <<>> /\ fc' = Tail(fc))
    BY Zenon DEF RxFails
  <1>2. left' \in [Bounded -> Nat]
    BY <1>1, SpendType DEF Bounded
  <1>3. /\ pc' \in {"rx", "tx"} /\ reads' \in 0 .. MaxReads - 1
        /\ pend' \subseteq Events /\ pend \subseteq pend' /\ semb' \in BOOLEAN
    <2>1. pend \in SUBSET Events /\ {} \in SUBSET Events
      BY DEF Types
    <2> QED
      BY <1>1, <2>1, ReadOnType
  <1>4. fc' \in Seq(Packets \cup {"status"}) /\ StatusDue'
    <2>1. CASE fc' = fc
      BY <1>1, <2>1 DEF Types, StatusDue
    <2>2. CASE fc # <<>> /\ fc' = Tail(fc)
      BY <1>1, <2>2, StatusRead
    <2> QED
      BY <1>1, <2>1, <2>2
  <1>5. Types'
    BY <1>1, <1>2, <1>3, <1>4 DEF Types
  <1>6. Queued'
    BY <1>1, <1>3, QueuedStays
  <1> QED
    BY <1>3, <1>4, <1>5, <1>6

\* The end of the loop, with nothing to read or a bad packet
LEMMA RxEndsKeeps ==
    ASSUME Types, StatusDue, Queued, RxEnds,
           UNCHANGED <<ps, queue, stopped, full, held, irq>>, active' \in BOOLEAN
    PROVE  Types' /\ StatusDue' /\ Queued' /\ pc' \in {"rx", "tx"}
  <1> USE DEF bounds
  <1>1. pc' = "tx" /\ reads' = 0 /\ UNCHANGED <<pend, sched, semb, status, paused>>
    BY DEF RxEnds
  <1>2. 0 \in 0 .. MaxReads - 1
    BY DriverTaskAssumption
  <1>3. CASE fc = <<>> /\ UNCHANGED <<fc, left>>
    <2>1. Types' /\ StatusDue'
      BY <1>1, <1>2, <1>3 DEF Types, StatusDue
    <2> QED
      BY <1>1, <2>1, QueuedStays
  <1>4. CASE fc # <<>> /\ Spend("fault") /\ fc' = Tail(fc)
    <2>1. left' \in [Bounded -> Nat]
      BY <1>4, SpendType DEF Bounded
    <2>2. fc' \in Seq(Packets \cup {"status"}) /\ StatusDue'
      BY <1>1, <1>4, StatusRead
    <2>3. Types'
      BY <1>1, <1>2, <2>1, <2>2 DEF Types
    <2> QED
      BY <1>1, <2>2, <2>3, QueuedStays
  <1> QED
    BY <1>3, <1>4 DEF RxEnds

\* morse_yaps_rx_handler
LEMMA RxHandlerKeeps ==
    ASSUME IInv, RxHandler
    PROVE  IInv'
  <1>1. Types /\ StatusDue /\ Queued /\ Roused /\ Working /\ Pin
    BY DEF IInv
  <1>2. UNCHANGED <<ps, queue, stopped, full, held, irq>> /\ pc = "rx"
    BY DEF RxHandler
  <1>3. active' \in BOOLEAN
    BY Zenon DEF RxHandler
  <1>4. Types' /\ StatusDue' /\ Queued' /\ pc' \in {"rx", "tx"}
    <2>1. RxPacket \/ RxFails \/ RxEnds
      BY DEF RxHandler
    <2> QED
      BY <1>1, <1>2, <1>3, <2>1, RxPacketKeeps, RxFailsKeeps, RxEndsKeeps
  <1>5. Working' /\ Roused' /\ Pin'
    BY <1>1, <1>2, <1>4 DEF Working, working, Roused, Pin
  <1> QED
    BY <1>4, <1>5 DEF IInv

LEMMA TxFailsKeeps ==
    ASSUME IInv, TxFails
    PROVE  IInv'
  <1> USE DEF task, pause, chip
  <1>1. Types /\ StatusDue /\ Queued /\ Roused /\ Working /\ Pin
    BY DEF IInv
  <1>2. UNCHANGED <<pend, sched, semb, ps, queue, status, stopped, paused, full, held, fc,
                    irq, reads>> /\ pc = "tx" /\ pc' = "end"
    BY DEF TxFails
  <1>3. active' \in BOOLEAN
    BY Zenon DEF TxFails
  <1>4. left' \in [Bounded -> Nat]
    BY <1>1, SpendType DEF TxFails, Bounded
  <1>5. Types'
    BY <1>1, <1>2, <1>3, <1>4 DEF Types
  <1>6. StatusDue' /\ Roused' /\ Working'
    BY <1>1, <1>2 DEF StatusDue, Roused, Working, working
  <1>7. Queued' /\ Pin'
    BY <1>1, <1>2 DEF Queued, Noticed, Allowed, Pin
  <1> QED
    BY <1>5, <1>6, <1>7 DEF IInv

\* morse_yaps_hw_get_num_pkts: what is sent leaves the queue and fits the chip.
LEMMA FitsBounds ==
    ASSUME Types, NEW q \in Queues
    PROVE  /\ Fits(q) \in Nat
           /\ queue[q] - Fits(q) \in Nat
           /\ held[q] + Fits(q) \in 0 .. Space
  <1>1. queue[q] \in Nat /\ held[q] \in 0 .. Space /\ Space \in Nat
    BY DriverTaskAssumption DEF Types
  <1> QED
    BY <1>1 DEF Fits

LEMMA SumsGrow ==
    ASSUME NEW a \in Nat, NEW b \in Nat, NEW c \in Nat, NEW s \in Nat,
           NEW x \in Nat, NEW y \in Nat, s >= a + b + c
    PROVE  s + x + y \in Nat /\ s + x + y >= (a + x) + (b + y) + c
  OBVIOUS

LEMMA LessFits ==
    ASSUME NEW S \in Nat, NEW h \in 0 .. S, NEW f \in Nat, NEW k \in Nat,
           h + f \in 0 .. S, k <= f
    PROVE  h + k \in 0 .. S
  OBVIOUS

\* What morse_yaps_work sends of what is ready
LEMMA Sent ==
    ASSUME Types, StatusDue, NEW R \in SUBSET Queues,
           NEW n, n = [q \in Queues |-> IF q \in R THEN Fits(q) ELSE 0],
           NEW sent \in [Queues -> 0 .. Space], \A q \in Queues : sent[q] <= n[q],
           queue' = [q \in Queues |-> queue[q] - n[q]],
           held' = [q \in Queues |-> held[q] + sent[q]],
           status' = status + sent["MGMT"] + sent["DATA"],
           fc' = fc
    PROVE  /\ queue' \in [Queues -> Nat]
           /\ \A q \in Queues \ R : queue'[q] = queue[q]
           /\ held' \in [Queues -> 0 .. Space]
           /\ status' \in Nat
           /\ StatusDue'
  <1>1. \A q \in Queues : /\ Fits(q) \in Nat
                          /\ queue[q] - Fits(q) \in Nat
                          /\ held[q] + Fits(q) \in 0 .. Space
    BY FitsBounds
  <1>2. /\ queue \in [Queues -> Nat] /\ held \in [Queues -> 0 .. Space]
        /\ Space \in Nat /\ status \in Nat
        /\ fc \in Seq(Packets \cup {"status"})
        /\ "MGMT" \in Queues /\ "DATA" \in Queues
    BY DriverTaskAssumption DEF Types, Queues
  <1>3. \A q \in Queues : /\ n[q] \in Nat
                          /\ q \in R => n[q] = Fits(q)
                          /\ q \notin R => n[q] = 0
    BY <1>1
  <1>4. \A q \in Queues : /\ queue[q] - n[q] \in Nat
                          /\ q \notin R => queue[q] - n[q] = queue[q]
                          /\ held[q] + sent[q] \in 0 .. Space
    <2> TAKE q \in Queues
    <2>1. /\ queue[q] \in Nat /\ held[q] \in 0 .. Space
          /\ sent[q] \in Nat /\ sent[q] <= n[q]
      BY <1>2
    <2>2. CASE q \in R
      <3> DEFINE f == Fits(q)
      <3>1. n[q] = f
        BY <1>3, <2>2
      <3>2. f \in Nat /\ queue[q] - f \in Nat /\ held[q] + f \in 0 .. Space
        BY <1>1
      <3> HIDE DEF f
      <3>3. sent[q] <= f
        BY <2>1, <3>1
      <3>4. held[q] + sent[q] \in 0 .. Space
        BY <1>2, <2>1, <3>2, <3>3, LessFits
      <3> QED
        BY <2>2, <3>1, <3>2, <3>4
    <2>3. CASE q \notin R
      <3>1. n[q] = 0
        BY <1>3, <2>3
      <3> QED
        BY <1>2, <2>1, <2>3, <3>1
    <2> QED
      BY <2>2, <2>3
  <1>5. queue' \in [Queues -> Nat] /\ \A q \in Queues \ R : queue'[q] = queue[q]
    BY <1>4
  <1>6. held' \in [Queues -> 0 .. Space]
    BY <1>4
  <1>7. status' \in Nat /\ StatusDue'
    <2> DEFINE a == held["MGMT"]
               b == held["DATA"]
               c == Cardinality(Statuses(fc))
               x == sent["MGMT"]
               y == sent["DATA"]
    <2>1. a \in Nat /\ b \in Nat /\ x \in Nat /\ y \in Nat
      BY <1>2
    <2>2. c \in Nat
      BY <1>2, StatusesFinite
    <2>3. status >= a + b + c
      BY DEF StatusDue
    <2>4. held'["MGMT"] = a + x /\ held'["DATA"] = b + y /\ status' = status + x + y
      BY <1>2
    <2>5. Cardinality(Statuses(fc')) = c
      OBVIOUS
    <2> HIDE DEF a, b, c, x, y
    <2>6. status + x + y \in Nat /\ status + x + y >= (a + x) + (b + y) + c
      BY <1>2, <2>1, <2>2, <2>3, SumsGrow
    <2> QED
      BY <2>4, <2>5, <2>6 DEF StatusDue
  <1> QED
    BY <1>5, <1>6, <1>7

\* The rest of morse_yaps_work: what is left of a queue that was ready is
\* scheduled, and data that was not ready keeps its event, is stopped, or had
\* none to lose.
LEMMA TxKeeps ==
    ASSUME IInv, Tx
    PROVE  IInv'
  <1> USE DEF task, pause, chip
  <1> DEFINE override == "PAUSE TIMEOUT" \in pend
             resume == override \/ "RESUME" \in pend
             freed  == IF "FREED" \in pend THEN FALSE ELSE full
             data   == ~freed /\ (resume \/ "DATA" \in pend)
             ready  == (pend \cap {"CMD", "MGMT"})
                          \cup (IF data /\ ~stopped' THEN {"DATA"} ELSE {})
  <1>1. Types /\ StatusDue /\ Queued /\ Roused /\ Working /\ Pin
    BY DEF IInv
  <1>2. UNCHANGED <<ps, fc, irq, reads>> /\ pc = "tx" /\ pc' = "end"
    BY DEF Tx
  <1>3. stopped' = IF resume THEN FALSE ELSE IF "PAUSE" \in pend THEN TRUE ELSE stopped
    BY Zenon DEF Tx
  <1>4. /\ stopped' \in BOOLEAN
        /\ ~stopped' /\ ~resume => ~stopped /\ "PAUSE" \notin pend
    <2>1. stopped \in BOOLEAN
      BY <1>1 DEF Types
    <2>2. CASE resume
      <3>1. stopped' = FALSE
        BY <1>3, <2>2, Zenon
      <3> QED
        BY <2>2, <3>1
    <2>3. CASE ~resume /\ "PAUSE" \in pend
      <3>1. stopped' = TRUE
        BY <1>3, <2>3, Zenon
      <3> QED
        BY <3>1
    <2>4. CASE ~resume /\ "PAUSE" \notin pend
      <3>1. stopped' = stopped
        BY <1>3, <2>4, Zenon
      <3> QED
        BY <2>1, <2>4, <3>1
    <2> QED
      BY <2>2, <2>3, <2>4
  <1>5. paused' \in BOOLEAN /\ active' \in BOOLEAN
    <2>1. paused \in BOOLEAN
      BY <1>1 DEF Types
    <2>2. paused' = IF override THEN FALSE ELSE paused
      BY Zenon DEF Tx
    <2>3. paused' \in BOOLEAN
      BY <2>1, <2>2, Zenon
    <2>4. active' = (active \/ "MGMT" \in pend \/ data)
      BY Zenon DEF Tx
    <2>5. active' \in BOOLEAN
      BY <2>4, Zenon
    <2> QED
      BY <2>3, <2>5
  <1> DEFINE n == [q \in Queues |-> IF q \in ready THEN Fits(q) ELSE 0]
  <1>6. PICK sent \in [Queues -> 0 .. Space], lastFails \in BOOLEAN :
          /\ \A q \in Queues : sent[q] <= n[q]
          /\ IF sent = n THEN UNCHANGED left ELSE Spend("fault")
          /\ held' = [q \in Queues |-> held[q] + sent[q]]
          /\ status' = status + sent["MGMT"] + sent["DATA"]
          /\ full' = (freed \/ lastFails)
    BY Zenon DEF Tx
  <1>7. /\ sched' = Retry(Restrict(queue', ready), sched)
        /\ pend' = (pend \ (Pageset \cup {"PAUSE TIMEOUT"}))
                     \cup (pend \cap {"RX"})
                     \cup (IF pend \cap Queues # {} /\ fc # <<>> THEN {"RX"} ELSE {})
                     \cup (IF freed /\ (resume \/ "DATA" \in pend) THEN {"DATA"} ELSE {})
    BY Zenon DEF Tx
  <1>8. semb' \in BOOLEAN
    <2>1. semb' = (semb \/ sched' # sched)
      BY Zenon DEF Tx
    <2> QED
      BY <2>1, Zenon
  <1>9. ready \subseteq Queues /\ (\A q \in {"CMD", "MGMT"} : q \in pend => q \in ready)
    BY DEF Queues
  <1>10. ~stopped' /\ "DATA" \notin ready =>
            \/ "DATA" \in pend'
            \/ ~stopped /\ "PAUSE" \notin pend /\ "DATA" \notin pend
    <2>1. CASE resume \/ "DATA" \in pend
      BY <1>7, <2>1
    <2>2. CASE ~(resume \/ "DATA" \in pend)
      BY <1>4, <2>2
    <2> QED
      BY <2>1, <2>2
  <1>11. pend' \subseteq Events /\ "PAUSE" \notin pend'
    BY <1>1, <1>7 DEF Types, Events, Pageset, Queues
  <1>12. full' \in BOOLEAN /\ left' \in [Bounded -> Nat]
    <2>1. full' \in BOOLEAN
      BY <1>6, Zenon
    <2>2. left' \in [Bounded -> Nat]
      BY <1>1, <1>6, SpendType DEF Bounded, Types
    <2> QED
      BY <2>1, <2>2
  <1> HIDE DEF ready
  <1>13. /\ queue' \in [Queues -> Nat]
         /\ \A q \in Queues \ ready : queue'[q] = queue[q]
         /\ held' \in [Queues -> 0 .. Space]
         /\ status' \in Nat
         /\ StatusDue'
    <2>1. queue' = [q \in Queues |-> queue[q] - n[q]]
      BY Zenon DEF Tx, ready
    <2>2. n = [q \in Queues |-> IF q \in ready THEN Fits(q) ELSE 0]
      OBVIOUS
    <2>3. /\ sent \in [Queues -> 0 .. Space] /\ \A q \in Queues : sent[q] <= n[q]
          /\ held' = [q \in Queues |-> held[q] + sent[q]]
          /\ status' = status + sent["MGMT"] + sent["DATA"]
      BY <1>6, Zenon
    <2> HIDE DEF n
    <2> QED
      BY <1>1, <1>2, <1>9, <2>1, <2>2, <2>3, Sent
  <1>14. /\ Table(sched')
         /\ DOMAIN sched' = DOMAIN sched \cup {q \in ready : queue'[q] > 0}
    <2>1. Table(sched)
      BY <1>1 DEF Types
    <2>2. sched' = Retry(Restrict(queue', ready), sched)
      BY <1>7
    <2>3. ready \in SUBSET Queues /\ queue' \in [Queues -> Nat]
      BY <1>9, <1>13
    <2>4. /\ Table(Retry(Restrict(queue', ready), sched))
          /\ DOMAIN Retry(Restrict(queue', ready), sched)
               = DOMAIN sched \cup {q \in ready : queue'[q] > 0}
      BY <2>1, <2>3, RetryTable
    <2> QED
      BY <2>2, <2>4
  <1>15. Types'
    BY <1>1, <1>2, <1>4, <1>5, <1>8, <1>11, <1>12, <1>13, <1>14 DEF Types
  <1>16. Roused' /\ Working' /\ Pin'
    BY <1>1, <1>2 DEF Roused, Working, working, Pin
  <1>17. Queued'
    <2>1. ASSUME NEW q \in {"CMD", "MGMT"}, queue'[q] > 0
          PROVE  q \in DOMAIN sched'
      <3>1. CASE q \in ready
        BY <1>14, <2>1, <3>1
      <3>2. CASE q \notin ready
        <4>1. queue[q] > 0 /\ q \notin pend
          BY <1>9, <1>13, <2>1, <3>2 DEF Queues
        <4> QED
          BY <1>1, <1>14, <4>1 DEF Queued, Noticed
      <3> QED
        BY <3>1, <3>2
    <2>2. ASSUME queue'["DATA"] > 0, ~stopped'
          PROVE  "DATA" \in pend' \/ "DATA" \in DOMAIN sched'
      <3>1. CASE "DATA" \in ready
        BY <1>14, <2>2, <3>1
      <3>2. CASE "DATA" \notin ready
        <4>1. queue["DATA"] > 0
          BY <1>13, <2>2, <3>2 DEF Queues
        <4> QED
          BY <1>1, <1>10, <1>14, <2>2, <3>2, <4>1 DEF Queued, Noticed, Allowed
      <3> QED
        BY <3>1, <3>2
    <2> QED
      BY <2>1, <2>2 DEF Queued, Noticed, Allowed
  <1> QED
    BY <1>13, <1>15, <1>16, <1>17 DEF IInv

-----------------------------------------------------------------------------
(* The theorem                                                             *)

LEMMA InitHolds ==
    ASSUME Init
    PROVE  IInv
  <1>1. /\ pend = {} /\ sched = <<>> /\ pc = "top"
        /\ ps = [wakers |-> {"UMAC"}, suspended |-> FALSE, bus |-> 0]
        /\ queue = [q \in Queues |-> 0] /\ status = 0
        /\ held = [q \in Queues |-> 0] /\ fc = <<>> /\ irq = {}
        /\ left \in Budgets /\ reads = 0
    BY DEF Init
  <1>2. /\ semb \in BOOLEAN /\ active \in BOOLEAN /\ stopped \in BOOLEAN
        /\ paused \in BOOLEAN /\ full \in BOOLEAN
    BY Zenon DEF Init
  <1>3. Table(sched)
    BY <1>1 DEF Table
  <1>4. ps \in PsType /\ ps.wakers = {"UMAC"} /\ ~ps.suspended
    <2>1. FALSE \in BOOLEAN /\ {"UMAC"} \subseteq Wakers
      BY DEF Wakers
    <2> QED
      BY <1>1, <2>1 DEF PsType
  <1>5. queue \in [Queues -> Nat] /\ held \in [Queues -> 0 .. Space]
    BY <1>1, DriverTaskAssumption
  <1>6. left \in [Bounded -> Nat] /\ reads \in 0 .. MaxReads - 1
    BY <1>1, DriverTaskAssumption
  <1>7. Types
    BY <1>1, <1>2, <1>3, <1>4, <1>5, <1>6 DEF Types
  <1>8. StatusDue
    <2>1. Statuses(fc) = {}
      BY <1>1 DEF Statuses
    <2>2. Cardinality(Statuses(fc)) = 0
      BY <2>1, FS_EmptySet
    <2> QED
      BY <1>1, <2>2 DEF StatusDue, Queues
  <1>9. Queued /\ Roused
    BY <1>1 DEF Queued, Roused, Queues
  <1>10. Working /\ Pin
    BY <1>1, <1>4 DEF Working, working, Pin
  <1> QED
    BY <1>7, <1>8, <1>9, <1>10 DEF IInv

LEMMA NextKeeps ==
    ASSUME IInv, [Next]_vars
    PROVE  IInv'
  <1>1. CASE Task
    BY <1>1, TopKeeps, EventLoopKeeps, SleepKeeps, PsWorkKeeps, BeginWorkKeeps,
       RxHandlerKeeps, TxFailsKeeps, TxKeeps, EndWorkKeeps DEF Task
  <1>2. CASE SendCommand \/ EndCommand \/ Irq \/ Tick
    BY <1>2, SendCommandKeeps, EndCommandKeeps, IrqKeeps, TickKeeps
  <1>3. CASE \E q \in {"MGMT", "DATA"} : SendFrame(q)
    BY <1>3, SendFrameKeeps
  <1>4. CASE \E on \in BOOLEAN : UmacWake(on)
    BY <1>4, UmacWakeKeeps
  <1>5. CASE \E p \in Packets : ChipSends(p)
    BY <1>5, ChipSendsKeeps
  <1>6. CASE \E q \in Queues : ChipFrees(q)
    BY <1>6, ChipFreesKeeps
  <1>7. CASE UNCHANGED vars
    <2> USE <1>7 DEF vars, task, pause, chip, bounds
    <2>1. Types /\ StatusDue /\ Queued /\ Roused /\ Working /\ Pin
      BY DEF IInv
    <2>2. Types'
      BY <2>1 DEF Types
    <2>3. StatusDue' /\ Roused' /\ Working'
      BY <2>1 DEF StatusDue, Roused, Working, working
    <2>4. Queued' /\ Pin'
      BY <2>1 DEF Queued, Noticed, Allowed, Pin
    <2> QED
      BY <2>2, <2>3, <2>4 DEF IInv
  <1> QED
    BY <1>1, <1>2, <1>3, <1>4, <1>5, <1>6, <1>7 DEF Next

LEMMA Invariant == Spec => []IInv
  <1>1. Init => IInv
    BY InitHolds
  <1>2. IInv /\ [Next]_vars => IInv'
    BY NextKeeps
  <1> QED
    BY <1>1, <1>2, PTL DEF Spec

\* A task that nothing but time will wake has no event pending: all that it has
\* to do is scheduled, and a chip that sleeps has nothing to do.
LEMMA AsleepIsSound ==
    ASSUME IInv
    PROVE  SleepSound
  <1>1. Types /\ Queued /\ Roused /\ Pin
    BY DEF IInv
  <1>2. TypeOK
    <2>1. Range(sched) \subseteq Nat
      BY <1>1 DEF Types, Table, Range
    <2> QED
      BY <1>1, <2>1 DEF TypeOK, Types, Table, PsType
  <1>3. asleep => pend = {}
    BY <1>1 DEF asleep, Roused
  <1>4. NothingStranded
    BY <1>1, <1>3 DEF NothingStranded, Queued, Noticed, Allowed
  <1>5. WakePinRight
    <2> SUFFICES ASSUME asleep, ps.suspended
                 PROVE  ps.wakers = {} /\ Buffered = 0 /\ fc = <<>>
      BY DEF WakePinRight
    <2>1. ps.wakers = {} /\ fc = <<>> /\ status = 0
      BY <1>1, <1>3 DEF Pin
    <2>2. /\ ~(queue["CMD"] > 0) /\ ~(queue["MGMT"] > 0)
          /\ ~(queue["DATA"] > 0 /\ Allowed(stopped, pend))
      BY <1>1, <1>3 DEF Pin
    <2>3. /\ queue["CMD"] \in Nat /\ queue["MGMT"] \in Nat /\ queue["DATA"] \in Nat
      BY <1>1 DEF Types, Queues
    <2>4. queue["CMD"] = 0 /\ queue["MGMT"] = 0
      BY <2>2, <2>3
    <2>5. (IF Allowed(stopped, pend) THEN queue["DATA"] ELSE 0) = 0
      BY <2>2, <2>3
    <2> QED
      BY <2>1, <2>4, <2>5 DEF Buffered
  <1> QED
    BY <1>2, <1>4, <1>5 DEF SleepSound

\* The task sleeps, and lets the chip sleep, only when it leaves no packet behind
\* on either side (driver_task_main, morse_yaps_work, morse_ps_evaluate): whatever
\* the room in the chip, the time of a pause, the number of packets and however
\* often the bus fails.
THEOREM SleepSoundness == Spec => []SleepSound
  <1>1. IInv => SleepSound
    BY AsleepIsSound
  <1> QED
    BY <1>1, Invariant, PTL
=============================================================================
