----------------------------- MODULE DriverTask -----------------------------
(***************************************************************************)
(* The driver task: its events and scheduled events (driver_task.c), the   *)
(* wake pin of the chip (morse_driver/ps.c), and the work it does on the   *)
(* queues of the chip interface (mm8108/yaps.c, skbq.c), with the pauses   *)
(* of data traffic that the chip asks for (event.c).                       *)
(*                                                                         *)
(* Other threads queue packets and hold the chip awake; the chip is        *)
(* external: it frees the packets it was given in its own time and has     *)
(* packets for the host: status of transmissions, pauses and resumptions   *)
(* of traffic.  Times are kept as what is left of them.                    *)
(***************************************************************************)
EXTENDS Integers, Sequences, SequencesExt, FiniteSets, Functions

CONSTANTS
    MaxScheduled,   \* MAX_SCHEDULED_EVTS: 4
    Space,          \* packets of each queue that the chip has room for
    MaxReads,       \* MAX_PKTS_PER_RX_TXN: 32
    PauseTime,      \* tx_max_pause_time_ms: 0 unless duty cycle mode is spread
    Budgets         \* bounds, of which a behaviour keeps to one: what is put into
                    \* each queue, what the chip has for the host besides status,
                    \* changes of the UMAC's need for the chip ("wake"), and
                    \* transfers over the bus that fail or bring what is no
                    \* packet ("fault")

\* periods after which a queue that is not empty is tried again, and after
\* which an idle bus is given up
CommandTime == 2
FrameTime   == 1
BusTime     == 1

Queues  == {"CMD", "MGMT", "DATA"}
Packets == {"pause", "resume", "frame"}
Bounded == Queues \cup Packets \cup {"wake", "fault"}

ASSUME DriverTaskAssumption ==
    /\ {MaxScheduled, Space, MaxReads} \subseteq Nat \ {0}
    /\ PauseTime \in Nat
    /\ Budgets \subseteq [Bounded -> Nat]

VARIABLES
    pend,       \* pending_evts
    sched,      \* scheduled_evts: event -> time left
    semb,       \* pending_semb is given
    pc,         \* where the task is
    ps,         \* [wakers, suspended, bus]: bus is the time left of the bus
    queue,      \* packets in each skbq
    status,     \* frames whose status is outstanding
    stopped,    \* MORSE_STATE_FLAG_DATA_TX_STOPPED
    paused,     \* the UMAC is paused for TRAFFIC_CTRL
    full,       \* chip_queue_full.is_full
    active,     \* network_activity of this round of work
    held,       \* packets of each queue that the chip holds
    fc,         \* packets that the chip has for the host
    irq,        \* interrupts of the chip that were not taken yet
    reads,      \* count of morse_yaps_rx_handler
    left,       \* what is left of the budget
    failed,     \* history: the chip was taken to be full after a failed write
    behind      \* history: packets that a bad one kept from being read

task  == <<pend, sched, semb, pc, active>>
pause == <<stopped, paused>>
chip  == <<held, fc, irq>>
bounds == <<left, failed, behind>>
vars == <<task, ps, queue, status, pause, full, chip, reads, bounds>>

Pageset == Queues \cup {"RX", "FREED", "PAUSE", "RESUME"}
Events  == Pageset \cup {"PAUSE TIMEOUT", "ASYNC", "EVAL", "BUS"}
Wakers  == {"UMAC", "COMMAND", "PAGESET"}

\* mmdrv_init: the UMAC keeps the chip awake.
Init ==
    /\ pend = {} /\ sched = <<>> /\ semb = FALSE
    /\ pc = "top" /\ active = FALSE
    /\ ps = [wakers |-> {"UMAC"}, suspended |-> FALSE, bus |-> 0]
    /\ queue = [q \in Queues |-> 0] /\ status = 0
    /\ stopped = FALSE /\ paused = FALSE /\ full = FALSE
    /\ held = [q \in Queues |-> 0] /\ fc = <<>> /\ irq = {}
    /\ reads = 0
    /\ left \in Budgets /\ failed = FALSE /\ behind = FALSE

Spend(what) == left[what] > 0 /\ left' = [left EXCEPT ![what] = @ - 1]

-----------------------------------------------------------------------------
(* Scheduled events                                                        *)

\* driver_task_schedule_notification_at: an event is scheduled once.  The
\* table asserts that it has room; that it does is ScheduleFits.
Schedule(s, e, t) == [x \in DOMAIN s \cup {e} |-> IF x = e THEN t ELSE s[x]]

\* driver_task_drop_scheduled_event
Unschedule(s, e) == Restrict(s, DOMAIN s \ {e})

Due(s) == {e \in DOMAIN s : s[e] = 0}

\* driver_is_data_tx_allowed
Allowed(stop, p) == ~stop /\ "PAUSE" \notin p

\* skbq_get_tx_buffered_count
Buffered ==
    queue["CMD"] + queue["MGMT"] + status
       + (IF Allowed(stopped, pend) THEN queue["DATA"] ELSE 0)

-----------------------------------------------------------------------------
(* Power save.  A state of it is [ps, sched].                              *)

\* morse_ps_update_timeout
UpdateTimeout(x, t) ==
    IF x.ps.bus < t
    THEN [ps |-> [x.ps EXCEPT !.bus = t], sched |-> Schedule(x.sched, "BUS", t)]
    ELSE x

\* morse_ps_wakeup.  The wait for the chip is not modelled.
Wakeup(x) ==
    IF x.ps.suspended
    THEN UpdateTimeout([x EXCEPT !.ps.suspended = FALSE], BusTime)
    ELSE x

\* mmhal_wlan_busy_is_asserted: the chip has something for the host
Busy == fc # <<>>

\* mutant of Evaluate: the chip is put to sleep though it is busy
EvaluateBlind(x, p, buffered) ==
    IF x.ps.wakers # {} \/ p \cap Pageset # {} \/ buffered > 0
         \/ (Allowed(stopped, p) /\ x.ps.bus > 0)
    THEN Wakeup(x)
    ELSE [x EXCEPT !.ps.suspended = TRUE]

\* morse_ps_evaluate
Evaluate(x, p, buffered) ==
    LET busActive == Allowed(stopped, p) /\ x.ps.bus > 0
        y == IF busActive
             THEN [x EXCEPT !.sched = Schedule(@, "BUS", x.ps.bus)] ELSE x
    IN  IF x.ps.wakers # {} \/ p \cap Pageset # {} \/ buffered > 0 \/ busActive
        THEN Wakeup(y)
        ELSE IF Busy THEN UpdateTimeout(y, BusTime)
        ELSE [y EXCEPT !.ps.suspended = TRUE]

\* A step of the task leaves power save and the schedule as `x'.
Become(x) ==
    /\ ps' = x.ps /\ sched' = x.sched
    /\ semb' = (semb \/ x.sched # sched)

\* morse_ps_work.  A bus that is still active is only scheduled again.
PsWork ==
    /\ pc = "ps"
    /\ pc' = "work"
    /\ pend' = pend \ {"ASYNC", "EVAL", "BUS"}
    /\ LET x == [ps |-> ps, sched |-> sched]
           w == IF "ASYNC" \in pend THEN Wakeup(x) ELSE x
           b == IF "BUS" \in pend /\ w.ps.bus > 0
                THEN [w EXCEPT !.sched = Schedule(@, "BUS", w.ps.bus)] ELSE w
           eval == "EVAL" \in pend \/ ("BUS" \in pend /\ w.ps.bus = 0)
       IN  Become(IF eval THEN Evaluate(b, pend', Buffered) ELSE b)
    /\ UNCHANGED <<active, queue, status, pause, full, chip, reads, bounds>>

-----------------------------------------------------------------------------
(* driver_task_main                                                        *)

\* driver_task_process_scheduled_evts: an event that is due is notified, one
\* that is pending anyway is dropped.
Top ==
    /\ pc = "top"
    /\ pc' = "events"
    /\ pend' = pend \cup Due(sched)
    /\ sched' = Restrict(sched, DOMAIN sched \ (Due(sched) \cup pend))
    /\ UNCHANGED <<semb, active, ps, queue, status, pause, full, chip, reads,
                   bounds>>

\* As long as events are pending there is work to do; otherwise the task
\* sleeps, unless something has become due.
EventLoop ==
    /\ pc = "events"
    /\ pc' = IF pend # {} THEN "ps"
             ELSE IF Due(sched) # {} THEN "top" ELSE "sleep"
    /\ UNCHANGED <<pend, sched, semb, active, ps, queue, status, pause, full,
                   chip, reads, bounds>>

Sleep ==
    /\ pc = "sleep"
    /\ semb \/ Due(sched) # {}
    /\ semb' = FALSE
    /\ pc' = "top"
    /\ UNCHANGED <<pend, sched, active, ps, queue, status, pause, full, chip,
                   reads, bounds>>

\* morse_yaps_work: the chip is kept awake while there is work for it.
BeginWork ==
    /\ pc = "work"
    /\ active' = FALSE
    /\ \/ /\ pend \cap Pageset = {}
          /\ pc' = "events"
          /\ UNCHANGED <<pend, sched, semb, ps, behind>>
       \/ /\ pend \cap Pageset # {}
          /\ Become(Evaluate([ps |-> [ps EXCEPT !.wakers = @ \cup {"PAGESET"}],
                              sched |-> sched], pend, Buffered))
          /\ pend' = pend \ {"RX"}
          /\ pc' = IF "RX" \in pend THEN "rx" ELSE "tx"
          /\ behind' = (behind /\ "RX" \notin pend)
    /\ UNCHANGED <<queue, status, pause, full, chip, reads, left, failed>>

\* morse_skbq_tx_status_process and handle_umac_traffic_control: the events
\* that a packet of the chip notifies.
Notified(p) ==
    CASE p = "status" -> IF Buffered = 1 THEN {"EVAL"} ELSE {}
      [] p = "pause"  -> {"PAUSE"}
      [] p = "resume" -> {"RESUME"}
      [] OTHER        -> {}

\* The loop of morse_yaps_rx_handler goes on, up to its limit, at which RX is
\* notified again: events es are added to those that are pending, p.
ReadOn(p, es) ==
    LET limit == reads + 1 >= MaxReads
    IN  /\ pc' = IF limit THEN "tx" ELSE "rx"
        /\ reads' = IF limit THEN 0 ELSE reads + 1
        /\ pend' = p \cup es \cup (IF limit THEN {"RX"} ELSE {})
        /\ semb' = (semb \/ limit \/ es # {})

RxPacket ==
    /\ fc # <<>>
    /\ fc' = Tail(fc)
    /\ status' = IF Head(fc) = "status" THEN status - 1 ELSE status
    /\ paused' = (Head(fc) = "pause" \/ (paused /\ Head(fc) # "resume"))
    /\ sched' = IF Head(fc) = "pause" /\ PauseTime > 0
                THEN Schedule(sched, "PAUSE TIMEOUT", PauseTime)
                ELSE IF Head(fc) = "resume"
                THEN Unschedule(sched, "PAUSE TIMEOUT") ELSE sched
    /\ ReadOn(IF Head(fc) = "resume" THEN pend \ {"PAUSE TIMEOUT"} ELSE pend,
              Notified(Head(fc)))
    /\ UNCHANGED bounds

\* The transfer fails, or there is no memory for the packet: it may be lost or
\* still be there, and there are taken to be more.
RxFails ==
    /\ Spend("fault")
    /\ fc' = fc \/ (fc # <<>> /\ fc' = Tail(fc))
    /\ ReadOn(pend, {})
    /\ UNCHANGED <<status, paused, sched, failed, behind>>

\* There is no packet, or one with a wrong sync value, checksum or channel: it
\* is dropped and no more are read, though there may be.
RxEnds ==
    /\ pc' = "tx" /\ reads' = 0
    /\ \/ fc = <<>> /\ UNCHANGED <<fc, bounds>>
       \/ /\ fc # <<>> /\ Spend("fault")
          /\ fc' = Tail(fc)
          /\ behind' = (fc' # <<>>)
          /\ UNCHANGED failed
    /\ UNCHANGED <<pend, sched, semb, status, paused>>

\* morse_yaps_rx_handler, a round of its loop at a time, with yaps_read_pkt
RxHandler ==
    /\ pc = "rx"
    /\ active' = TRUE
    /\ RxPacket \/ RxFails \/ RxEnds
    /\ UNCHANGED <<ps, queue, stopped, full, held, irq>>

\* morse_yaps_hw_get_num_pkts: what of a queue the chip has room for
Fits(q) ==
    IF queue[q] <= Space - held[q] THEN queue[q] ELSE Space - held[q]

\* What is left of a queue is tried again later.
Retry(rest, s) ==
    LET again == {q \in DOMAIN rest : rest[q] > 0}
    IN  [e \in DOMAIN s \cup again |->
            IF e \notin again THEN s[e]
            ELSE IF e = "CMD" THEN CommandTime ELSE FrameTime]

\* The bus fails when the state of the chip is read: nothing is sent, and
\* every event stays pending.
TxFails ==
    /\ pc = "tx" /\ pend \cap Queues # {} /\ Spend("fault")
    /\ pc' = "end"
    /\ active' = FALSE
    /\ UNCHANGED <<pend, sched, semb, ps, queue, status, pause, full, chip, reads,
                   failed, behind>>

\* The rest of morse_yaps_work: the state of the chip, which tells whether it
\* has packets, commands and management frames, pauses and resumptions, and
\* data unless the chip is full.  A packet that cannot be written is dropped;
\* if it is the last of the data the chip is taken to be full.
Tx ==
    /\ pc = "tx"
    /\ pc' = "end"
    /\ LET override == "PAUSE TIMEOUT" \in pend
           resume == override \/ "RESUME" \in pend
           freed  == IF "FREED" \in pend THEN FALSE ELSE full
           data   == ~freed /\ (resume \/ "DATA" \in pend)
           ready  == (pend \cap {"CMD", "MGMT"})
                        \cup (IF data /\ ~stopped' THEN {"DATA"} ELSE {})
           n == [q \in Queues |-> IF q \in ready THEN Fits(q) ELSE 0]
       IN  /\ stopped' = IF resume THEN FALSE
                         ELSE IF "PAUSE" \in pend THEN TRUE ELSE stopped
           /\ paused' = IF override THEN FALSE ELSE paused
           /\ queue' = [q \in Queues |-> queue[q] - n[q]]
           /\ \E sent \in [Queues -> 0 .. Space], lastFails \in BOOLEAN :
                 /\ \A q \in Queues : sent[q] <= n[q]
                 /\ IF lastFails THEN sent["DATA"] < n["DATA"]
                    ELSE sent["DATA"] > 0 \/ n["DATA"] = 0
                 /\ IF sent = n THEN UNCHANGED left ELSE Spend("fault")
                 /\ held' = [q \in Queues |-> held[q] + sent[q]]
                 /\ status' = status + sent["MGMT"] + sent["DATA"]
                 /\ full' = (freed \/ lastFails)
                 /\ failed' = (failed \/ lastFails)
           /\ sched' = Retry(Restrict(queue', ready), sched)
           /\ semb' = (semb \/ sched' # sched)
           /\ pend' = (pend \ (Pageset \cup {"PAUSE TIMEOUT"}))
                        \cup (pend \cap {"RX"})
                        \cup (IF pend \cap Queues # {} /\ fc # <<>>
                              THEN {"RX"} ELSE {})
                        \cup (IF freed /\ (resume \/ "DATA" \in pend)
                              THEN {"DATA"} ELSE {})
           /\ active' = (active \/ "MGMT" \in pend \/ data)
    /\ UNCHANGED <<ps, fc, irq, reads, behind>>

\* The end of the work: morse_ps_network_activity and morse_ps_enable.
EndWork ==
    /\ pc = "end"
    /\ pc' = "events"
    /\ LET x == [ps |-> ps, sched |-> sched]
           y == IF active THEN UpdateTimeout(x, BusTime) ELSE x
       IN  Become(Evaluate([y EXCEPT !.ps.wakers = @ \ {"PAGESET"}], pend,
                           Buffered))
    /\ UNCHANGED <<pend, active, queue, status, pause, full, chip, reads,
                   bounds>>

-----------------------------------------------------------------------------
(* Other threads                                                           *)

\* driver_task_notify_event
Notify(es) == pend' = pend \cup es /\ semb' = TRUE

\* morse_cmd_tx: it keeps the chip awake until the command is over.
SendCommand ==
    /\ "COMMAND" \notin ps.wakers /\ Spend("CMD")
    /\ ps' = [ps EXCEPT !.wakers = @ \cup {"COMMAND"}]
    /\ queue' = [queue EXCEPT !["CMD"] = @ + 1]
    /\ Notify({"EVAL", "CMD"})
    /\ UNCHANGED <<sched, pc, active, status, pause, full, chip, reads, failed,
                   behind>>

\* The end of morse_cmd_tx: its packet leaves the queue if it is still there.
EndCommand ==
    /\ "COMMAND" \in ps.wakers
    /\ ps' = [ps EXCEPT !.wakers = @ \ {"COMMAND"}]
    /\ queue' = [queue EXCEPT !["CMD"] = 0]
    /\ Notify({"EVAL"})
    /\ UNCHANGED <<sched, pc, active, status, pause, full, chip, reads, bounds>>

\* morse_skbq_mmpkt_tx of a frame: data is only notified if it is allowed.
\* The UMAC passes on no data while it is paused.
SendFrame(q) ==
    /\ Spend(q)
    /\ q = "DATA" => ~paused
    /\ queue' = [queue EXCEPT ![q] = @ + 1]
    /\ IF q = "MGMT" \/ Allowed(stopped, pend)
       THEN Notify({q}) ELSE UNCHANGED <<pend, semb>>
    /\ UNCHANGED <<sched, pc, active, ps, status, pause, full, chip, reads,
                   failed, behind>>

\* mmdrv_set_wake_enabled
UmacWake(on) ==
    /\ on # ("UMAC" \in ps.wakers)
    /\ Spend("wake")
    /\ ps' = [ps EXCEPT !.wakers = IF on THEN @ \cup {"UMAC"} ELSE @ \ {"UMAC"}]
    /\ Notify({"EVAL"})
    /\ UNCHANGED <<sched, pc, active, queue, status, pause, full, chip, reads,
                   failed, behind>>

-----------------------------------------------------------------------------
(* The chip                                                                *)

\* It has a packet for the host.  The busy pin goes up with the first one;
\* morse_ps_irq_handle notifies the task.
ChipHas(p) ==
    /\ fc' = Append(fc, p)
    /\ irq' = irq \cup {"RX"}
    /\ IF fc = <<>> THEN Notify({"ASYNC"}) ELSE UNCHANGED <<pend, semb>>

ChipSends(p) ==
    /\ Spend(p)
    /\ ChipHas(p)
    /\ UNCHANGED <<sched, pc, active, ps, queue, status, pause, full, held, reads,
                   failed, behind>>

\* It is done with a packet: a command is answered elsewhere, a frame has a
\* status, and data frees room.
ChipFrees(q) ==
    /\ held[q] > 0
    /\ held' = [held EXCEPT ![q] = @ - 1]
    /\ IF q = "CMD"
       THEN UNCHANGED <<fc, irq, pend, semb>>
       ELSE /\ fc' = Append(fc, "status")
            /\ irq' = irq \cup {"RX"} \cup (IF q = "DATA" THEN {"FREED"} ELSE {})
            /\ IF fc = <<>> THEN Notify({"ASYNC"}) ELSE UNCHANGED <<pend, semb>>
    /\ UNCHANGED <<sched, pc, active, ps, queue, status, pause, full, reads, bounds>>

\* mutant of Irq: one cause is served and both are cleared
IrqOneCause ==
    /\ irq # {} /\ ~ps.suspended
    /\ Notify(IF "FREED" \in irq THEN {"FREED"} ELSE irq)
    /\ irq' = {}
    /\ UNCHANGED <<sched, pc, active, ps, queue, status, pause, full, held, fc,
                   reads, bounds>>

\* yaps_irq_handler: the interrupts of the chip are enabled while it is awake.
Irq ==
    /\ irq # {} /\ ~ps.suspended
    /\ Notify(irq)
    /\ irq' = {}
    /\ UNCHANGED <<sched, pc, active, ps, queue, status, pause, full, held, fc,
                   reads, bounds>>

Tick ==
    /\ ps.bus > 0 \/ \E e \in DOMAIN sched : sched[e] > 0
    /\ ps' = [ps EXCEPT !.bus = IF @ > 0 THEN @ - 1 ELSE 0]
    /\ sched' = [e \in DOMAIN sched |-> IF sched[e] > 0 THEN sched[e] - 1 ELSE 0]
    /\ UNCHANGED <<pend, semb, pc, active, queue, status, pause, full, chip,
                   reads, bounds>>

-----------------------------------------------------------------------------

Task == Top \/ EventLoop \/ Sleep \/ PsWork \/ BeginWork \/ RxHandler
        \/ TxFails \/ Tx \/ EndWork

Next ==
    \/ Task
    \/ SendCommand \/ EndCommand
    \/ \E q \in {"MGMT", "DATA"} : SendFrame(q)
    \/ \E on \in BOOLEAN : UmacWake(on)
    \/ \E p \in Packets : ChipSends(p)
    \/ \E q \in Queues : ChipFrees(q)
    \/ Irq \/ Tick

Spec == Init /\ [][Next]_vars

\* The task has the highest priority, interrupts are taken, time passes and
\* the chip gets rid of what it was given.
FairSpec ==
    /\ Spec
    /\ WF_vars(Task) /\ WF_vars(Irq) /\ WF_vars(Tick)
    /\ \A q \in Queues : WF_vars(ChipFrees(q))

-----------------------------------------------------------------------------
(* Properties                                                              *)

\* Every variable keeps its range: in particular no status is counted twice
\* and the chip is never given more than it has room for.
TypeOK ==
    /\ pend \subseteq Events
    /\ DOMAIN sched \subseteq Events /\ Range(sched) \subseteq Nat
    /\ {semb, active, stopped, paused, full} \subseteq BOOLEAN
    /\ pc \in {"top", "events", "ps", "work", "rx", "tx", "end", "sleep"}
    /\ ps \in [wakers : SUBSET Wakers, suspended : BOOLEAN, bus : Nat]
    /\ queue \in [Queues -> Nat] /\ held \in [Queues -> 0 .. Space]
    /\ status \in Nat /\ reads \in 0 .. MaxReads - 1

asleep == pc = "sleep" /\ ~semb /\ Due(sched) = {}

\* When the task sleeps and nothing will wake it but time, every packet that
\* may be sent has a scheduled event or, for data, the end of a full chip to
\* come: no packet is left in a queue because its notification was consumed
\* by the round of work before it (yaps.c:461, skbq.c:378).
NothingStranded ==
    asleep =>
        /\ \A q \in {"CMD", "MGMT"} : queue[q] > 0 => q \in DOMAIN sched
        /\ queue["DATA"] > 0 /\ ~stopped => "DATA" \in DOMAIN sched

\* When the task sleeps the wake pin is as it should be: the chip is only
\* let sleep if nobody holds it awake, nothing waits to be sent or for its
\* status, and the chip has nothing for the host (ps.c:137).
WakePinRight ==
    asleep /\ ps.suspended =>
        ps.wakers = {} /\ Buffered = 0 /\ fc = <<>>

\* The task may sleep, and let the chip sleep, whenever it does: it leaves no
\* packet behind on either side (driver_task_main, morse_yaps_work,
\* morse_ps_evaluate).
SleepSound == TypeOK /\ NothingStranded /\ WakePinRight

\* There are packets to read or to write.  Those behind a bad packet wait
\* from when RX is due again.  Data waits while traffic is paused,
\* and a data frame that could not be written can leave the driver waiting for
\* room in a chip that holds nothing.
Waiting ==
    \/ fc # <<>> /\ (behind => "RX" \in irq \cup pend)
    \/ queue["CMD"] + queue["MGMT"] > 0
    \/ queue["DATA"] > 0 /\ ~paused /\ ~failed

\* What the chip has for the host is read and what the host has for the chip is
\* written (or given up by the sender of a command), however power save, retries,
\* pauses, failed transfers and a chip without room interleave: the task does not
\* fall asleep over either, but for what a bad packet or a failed write leaves.
\* (Packets are finitely many: when all have moved none is waiting.)
PacketsMove == Waiting ~> ~Waiting

-----------------------------------------------------------------------------
(* What a comment, an assertion or a log message says and the code does not *)
(* do: none of these holds (README, Deviations).                            *)

\* A table of four scheduled events is enough: driver_task.c:124 asserts it.
ScheduleFits == Cardinality(DOMAIN sched) <= MaxScheduled

\* When pauses and resumptions have been dealt with, data is stopped in the
\* driver exactly when the UMAC is paused (event.c:61 logs "paused by").
PauseAgrees == asleep => stopped = paused

\* A pause that the chip does not end is overridden (yaps.c:503 logs it).
PauseOverridden == ("PAUSE TIMEOUT" \in DOMAIN sched) ~> ~paused
=============================================================================
