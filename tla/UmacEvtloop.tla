----------------------------- MODULE UmacEvtloop ----------------------------
(***************************************************************************)
(* The UMAC event loop: its queue, its wake-up semaphore, its start and    *)
(* its stop (umac_evtloop.c, umac_evtq.c, and the API calls of umac.c that *)
(* start it, stop it, and wait for an event they queued).                  *)
(*                                                                         *)
(* Four kinds of task interleave: one application task that calls the API  *)
(* (mmwlan.h forbids concurrent calls), one that transmits (the exception  *)
(* mmwlan.h makes), the driver task, which exists while an interface is    *)
(* active, and the event loop.  The loop is a task per umac_core_start:    *)
(* that there is only one at a time is a property, not an assumption.      *)
(*                                                                         *)
(* Timeouts are in UmacTimeoutq; here a wait on the semaphore may time out *)
(* at any moment, and no property relies on it.                            *)
(***************************************************************************)
EXTENDS Naturals, Sequences, FiniteSets

CONSTANTS
    Loop,           \* bound: the event loop tasks there is room for
    NULL,
    PoolSize,       \* UMAC_EVTQ_MAXLEN
    MaxDispatch,    \* MAX_EVTS_DISPATCHED_AT_ONCE
    MaxDrvEvents,   \* bound: events the driver queues
    Assumed         \* what is taken for granted of the application and
                    \* of the scheduler, a subset of Assumable

Assumable ==
    { "PatientUp",  \* the application starts the station only once the last
                    \* will of an earlier loop, and with it the handler of a
                    \* fatal error, has run
      "LoneFatal" } \* a fatal error does not strike while a call starts the
                    \* station

ASSUME EvtloopAssumption ==
    /\ NULL \notin Loop \cup {"up", "down", "request", "restart"}
    /\ NULL \notin {"clear", "given", "deleted"}
    /\ PoolSize \in Nat \ {0}
    /\ MaxDispatch \in Nat \ {0}
    /\ MaxDrvEvents \in Nat
    /\ Assumed \subseteq Assumable

VARIABLES
    queue,          \* evtq
    work,           \* frames the data path can process
    task,           \* evtloop_task
    semb,           \* evtloop_semb: its state, NULL, or a dangling pointer
    shuttingDown,   \* evtloop_shutting_down
    hasFinished,    \* evtloop_has_finished
    iface,          \* umac_interface_is_active()
    fatalError,     \* umac_root_data.fatal_error
    pc,             \* where each loop task is
    evt,            \* evtloop_iteration: the event each loop task handles
    count,          \* its ii
    more,           \* its datapath_pending
    api,            \* the application's call
    tx,             \* the transmitting task
    drv,            \* the driver task
    drvEvents,      \* bound: events the driver may still queue
    fault,          \* a semaphore used that does not exist, or an assertion
    struck          \* history: there has been a fatal error

core == <<task, semb, shuttingDown, hasFinished>>
loops == <<pc, evt, count, more>>
others == <<api, tx, drv, drvEvents, struck>>
vars == <<queue, work, core, iface, fatalError, loops, others, fault>>

Call == {"up", "down", "request"}
Event == Call \cup {"restart"}

-----------------------------------------------------------------------------
Init ==
    /\ queue = <<>>
    /\ work = FALSE
    /\ task = NULL
    /\ semb = NULL
    /\ shuttingDown = FALSE
    /\ hasFinished = FALSE
    /\ iface = FALSE
    /\ fatalError = FALSE
    /\ pc = [l \in Loop |-> "none"]
    /\ evt = [l \in Loop |-> NULL]
    /\ count = [l \in Loop |-> 0]
    /\ more = [l \in Loop |-> FALSE]
    /\ api = [at |-> "idle", call |-> "request", done |-> FALSE, new |-> NULL]
    /\ tx = "idle"
    /\ drv = "idle"
    /\ drvEvents = MaxDrvEvents
    /\ fault = "NONE"
    /\ struck = FALSE

Running == fault = "NONE"

\* mmosal_semb_give(core->evtloop_semb)
Give(who) ==
    IF semb \in {"clear", "given"}
    THEN semb' = "given" /\ UNCHANGED fault
    ELSE fault' = who /\ UNCHANGED semb

\* The check at the head of umac_core_evt_queue and umac_core_evt_wake.
Refused == shuttingDown \/ task = NULL

\* The pool has a node for every event queued or being handled.
PoolEmpty ==
    Len(queue) + Cardinality({ l \in Loop : evt[l] # NULL }) >= PoolSize

-----------------------------------------------------------------------------
(* The application: mmwlan_sta_enable ("up"), mmwlan_shutdown ("down") and *)
(* every other call that queues an event and waits for it ("request")      *)

Api(at) == api' = [api EXCEPT !.at = at]

\* umac_core_start: nothing to do while evtloop_task is set.  The new task may
\* run before evtloop_task is.
ApiUp ==
    /\ Running
    /\ api.at = "idle"
    /\ "PatientUp" \in Assumed => ~fatalError /\ \A l \in Loop : pc[l] # "will"
    /\ \/ /\ task # NULL
          /\ api' = [at |-> "check", call |-> "up", done |-> FALSE, new |-> NULL]
          /\ UNCHANGED <<core, loops>>
       \/ /\ task = NULL
          /\ \E l \in Loop : pc[l] = "none"
          /\ LET l == CHOOSE l \in Loop : pc[l] = "none"   \* whichever, they are alike
             IN
               /\ pc' = [pc EXCEPT ![l] = "top"]
               /\ api' = [at |-> "created", call |-> "up", done |-> FALSE, new |-> l]
          /\ semb' = "clear"
          /\ shuttingDown' = FALSE
          /\ hasFinished' = FALSE
          /\ UNCHANGED <<task, evt, count, more>>
    /\ UNCHANGED <<queue, work, iface, fatalError, tx, drv, drvEvents, struck, fault>>

ApiCreated ==
    /\ Running
    /\ api.at = "created"
    /\ task' = api.new
    /\ api' = [api EXCEPT !.at = "check", !.new = NULL]
    /\ UNCHANGED <<queue, work, semb, shuttingDown, hasFinished, iface,
                   fatalError, loops, tx, drv, drvEvents, struck, fault>>

\* The other calls; mmwlan_shutdown returns at once if no loop is running.
ApiCall(c) ==
    /\ Running
    /\ api.at = "idle"
    /\ c = "down" => task # NULL
    /\ api' = [at |-> "check", call |-> c, done |-> FALSE, new |-> NULL]
    /\ UNCHANGED <<queue, work, core, iface, fatalError, loops, tx, drv,
                   drvEvents, struck, fault>>

\* umac_core_evt_queue, in its three steps.  When it fails mmwlan_shutdown
\* returns, the other calls go on.
Failed == IF api.call = "down" THEN "idle" ELSE "after"

ApiCheck ==
    /\ Running
    /\ api.at = "check"
    /\ Api(IF Refused THEN Failed ELSE "queue")
    /\ UNCHANGED <<queue, work, core, iface, fatalError, loops, tx, drv,
                   drvEvents, struck, fault>>

ApiQueue ==
    /\ Running
    /\ api.at = "queue"
    /\ IF PoolEmpty
       THEN Api("giveFailed") /\ UNCHANGED queue
       ELSE Api("give") /\ queue' = Append(queue, api.call)
    /\ UNCHANGED <<work, core, iface, fatalError, loops, tx, drv, drvEvents, struck,
                   fault>>

ApiGive ==
    /\ Running
    /\ api.at \in {"give", "giveFailed"}
    /\ Give("QUEUE")
    /\ Api(IF api.at = "give" THEN "wait" ELSE Failed)
    /\ UNCHANGED <<queue, work, task, shuttingDown, hasFinished, iface,
                   fatalError, loops, tx, drv, drvEvents, struck>>

\* UMAC_QUEUE_EVT_AND_WAIT waits without a timeout.
ApiWait ==
    /\ Running
    /\ api.at = "wait"
    /\ api.done
    /\ Api("after")
    /\ UNCHANGED <<queue, work, core, iface, fatalError, loops, tx, drv,
                   drvEvents, struck, fault>>

\* umac_stop_core_if_no_interface: umac_core_stop raises the flag, gives the
\* semaphore and waits for the loop to finish.
ApiAfter ==
    /\ Running
    /\ api.at = "after"
    /\ IF api.call = "request" \/ iface \/ shuttingDown
       THEN Api("idle") /\ UNCHANGED <<core, fault>>
       ELSE /\ shuttingDown' = TRUE
            /\ IF task = NULL
               THEN Api("idle") /\ UNCHANGED <<semb, fault>>
               ELSE Api("stop") /\ UNCHANGED <<semb, fault>>
            /\ UNCHANGED <<task, hasFinished>>
    /\ UNCHANGED <<queue, work, iface, fatalError, loops, tx, drv, drvEvents, struck>>

ApiStop ==
    /\ Running
    /\ api.at = "stop"
    /\ Give("STOP")
    /\ Api("join")
    /\ UNCHANGED <<queue, work, task, shuttingDown, hasFinished, iface,
                   fatalError, loops, tx, drv, drvEvents, struck>>

ApiJoin ==
    /\ Running
    /\ api.at = "join"
    /\ hasFinished
    /\ task' = NULL
    /\ Api("idle")
    /\ UNCHANGED <<queue, work, semb, shuttingDown, hasFinished, iface,
                   fatalError, loops, tx, drv, drvEvents, struck, fault>>

-----------------------------------------------------------------------------
(* mmwlan_tx: the frame is queued, then umac_core_evt_wake                 *)

TxQueue ==
    /\ Running
    /\ tx = "idle"
    /\ iface
    /\ work' = TRUE
    /\ tx' = "check"
    /\ UNCHANGED <<queue, core, iface, fatalError, loops, api, drv, drvEvents, struck,
                   fault>>

TxCheck ==
    /\ Running
    /\ tx = "check"
    /\ tx' = IF Refused THEN "idle" ELSE "give"
    /\ UNCHANGED <<queue, work, core, iface, fatalError, loops, api, drv,
                   drvEvents, struck, fault>>

TxGive ==
    /\ Running
    /\ tx = "give"
    /\ Give("TX")
    /\ tx' = "idle"
    /\ UNCHANGED <<queue, work, task, shuttingDown, hasFinished, iface,
                   fatalError, loops, api, drv, drvEvents, struck>>

-----------------------------------------------------------------------------
(* The driver task: mmdrv_host_hw_restart_required, which asserts that     *)
(* umac_core_evt_queue_at_start took the event, and the reports of frames  *)
(* received or sent, which queue the frame and then umac_core_evt_wake     *)

DrvCheck ==
    /\ Running
    /\ drv = "idle"
    /\ iface
    /\ drvEvents > 0
    /\ drvEvents' = drvEvents - 1
    /\ drv' = "queue"
    /\ fault' = IF Refused THEN "ASSERT" ELSE fault
    /\ UNCHANGED <<queue, work, core, iface, fatalError, loops, api, tx, struck>>

DrvQueue ==
    /\ Running
    /\ drv = "queue"
    /\ drv' = "give"
    /\ IF PoolEmpty
       THEN fault' = "ASSERT" /\ UNCHANGED queue
       ELSE queue' = <<"restart">> \o queue /\ UNCHANGED fault
    /\ UNCHANGED <<work, core, iface, fatalError, loops, api, tx, drvEvents, struck>>

DrvGive ==
    /\ Running
    /\ drv = "give"
    /\ Give("QUEUE")
    /\ drv' = "idle"
    /\ UNCHANGED <<queue, work, task, shuttingDown, hasFinished, iface,
                   fatalError, loops, api, tx, drvEvents, struck>>

\* Once driver_task_stop has notified DRV_EVT_SHUTDOWN the driver task handles
\* nothing but a stop notification of the chip.
DrvFrame ==
    /\ Running
    /\ drv = "idle"
    /\ iface
    /\ \A l \in Loop : evt[l] # "down"
    /\ work' = TRUE
    /\ drv' = "check"
    /\ UNCHANGED <<queue, core, iface, fatalError, loops, api, tx, drvEvents, struck,
                   fault>>

DrvWake ==
    /\ Running
    /\ drv = "check"
    /\ drv' = IF Refused THEN "idle" ELSE "give"
    /\ UNCHANGED <<queue, work, core, iface, fatalError, loops, api, tx,
                   drvEvents, struck, fault>>

-----------------------------------------------------------------------------
(* evtloop_main                                                            *)

Goto(l, to) == pc' = [pc EXCEPT ![l] = to]

LoopTop(l) ==
    /\ Running
    /\ pc[l] = "top"
    /\ Goto(l, IF shuttingDown THEN "delete" ELSE "datapath")
    /\ UNCHANGED <<queue, work, core, iface, fatalError, evt, count, more, others,
                   fault>>

\* evtloop_iteration begins with umac_datapath_process, which may leave some
\* of the work for the next iteration.
Datapath(l) ==
    /\ Running
    /\ pc[l] = "datapath"
    /\ work' \in {work, FALSE}
    /\ more' = [more EXCEPT ![l] = work']
    /\ count' = [count EXCEPT ![l] = 0]
    /\ Goto(l, "events")
    /\ UNCHANGED <<queue, core, iface, fatalError, evt, others, fault>>

\* evtloop_iteration takes at most MAX_EVTS_DISPATCHED_AT_ONCE events, so that
\* the data path and the timeouts get their turn.
Dequeue(l) ==
    /\ Running
    /\ pc[l] = "events"
    /\ count[l] < MaxDispatch
    /\ queue # <<>>
    /\ evt' = [evt EXCEPT ![l] = Head(queue)]
    /\ queue' = Tail(queue)
    /\ Goto(l, "handle")
    /\ UNCHANGED <<work, core, iface, fatalError, count, more, others, fault>>

\* The handler has returned and the event goes back to the pool.
Handled(l) ==
    /\ Running
    /\ pc[l] = "handle"
    /\ evt' = [evt EXCEPT ![l] = NULL]
    /\ count' = [count EXCEPT ![l] = @ + 1]
    /\ Goto(l, "events")
    /\ UNCHANGED more

\* The calls a handler answers: those of its event, and mmwlan_shutdown where
\* umac_interface_execute_inactive_cb is called.
Answer(calls) ==
    api' = IF api.call \in calls THEN [api EXCEPT !.done = TRUE] ELSE api

\* Mutant of HandleUp: a failure to start is not answered.
HandleUpSilent(l) ==
    /\ evt[l] = "up"
    /\ iface' \in BOOLEAN
    /\ iface /\ ~iface' => drv = "idle"
    /\ Handled(l)
    /\ IF iface' THEN Answer({"up"}) ELSE UNCHANGED api
    /\ UNCHANGED <<queue, work, core, fatalError, tx, drv, drvEvents, struck, fault>>

\* umac_connection_start_evt_handler adds the interface, fails to, or removes
\* the one it failed to reload.
HandleUp(l) ==
    /\ evt[l] = "up"
    /\ iface' \in BOOLEAN
    /\ iface /\ ~iface' => drv = "idle"
    /\ Handled(l)
    /\ Answer({"up"})
    /\ UNCHANGED <<queue, work, core, fatalError, tx, drv, drvEvents, struck, fault>>

\* Mutant of HandleDown: mmdrv_deinit does not wait for the driver task.
HandleDownAtOnce(l) ==
    /\ evt[l] = "down"
    /\ iface' = FALSE
    /\ Handled(l)
    /\ Answer({"down"})
    /\ UNCHANGED <<queue, work, core, fatalError, tx, drv, drvEvents, struck, fault>>

\* umac_shutdown_evt_handler removes the interface: mmdrv_deinit waits for the
\* driver task to finish what it is doing.
HandleDown(l) ==
    /\ evt[l] = "down"
    /\ drv = "idle"
    /\ iface' = FALSE
    /\ Handled(l)
    /\ Answer({"down"})
    /\ UNCHANGED <<queue, work, core, fatalError, tx, drv, drvEvents, struck, fault>>

HandleOther(l) ==
    /\ evt[l] \in {"request", "restart"}
    /\ Handled(l)
    /\ Answer({evt[l]})
    /\ UNCHANGED <<queue, work, core, iface, fatalError, tx, drv, drvEvents, struck,
                   fault>>

\* Mutant of HandleFatal: the loop that stops itself stays evtloop_task.
HandleFatalKeepsTask(l) ==
    /\ "LoneFatal" \in Assumed => api.at = "idle" \/ api.call # "up"
    /\ ~fatalError
    /\ evt[l] = "restart"
    /\ iface
    /\ drv = "idle"
    /\ iface' = FALSE
    /\ fatalError' = TRUE
    /\ Handled(l)
    /\ Answer({"down"})
    /\ shuttingDown' = TRUE
    /\ IF shuttingDown THEN UNCHANGED <<semb, fault>> ELSE Give("STOP")
    /\ struck' = TRUE
    /\ UNCHANGED <<task, hasFinished, queue, work, tx, drv, drvEvents>>

\* umac_fatal_error, unless it was called before: the shutdown handler, then
\* umac_core_stop from the loop itself, which does not wait for the loop to
\* finish.
HandleFatal(l) ==
    /\ "LoneFatal" \in Assumed => api.at = "idle" \/ api.call # "up"
    /\ ~fatalError
    /\ evt[l] = "restart"
    /\ iface
    /\ drv = "idle"
    /\ iface' = FALSE
    /\ fatalError' = TRUE
    /\ struck' = TRUE
    /\ Handled(l)
    /\ Answer({"down"})
    /\ IF task = l
       THEN /\ IF shuttingDown THEN UNCHANGED <<task, semb, fault>>
                               ELSE Give("STOP") /\ task' = NULL
            /\ shuttingDown' = TRUE
            /\ UNCHANGED hasFinished
       ELSE fault' = "ASSERT" /\ UNCHANGED core
    /\ UNCHANGED <<queue, work, tx, drv, drvEvents>>

\* Mutant of Decide: frames left for the next iteration are forgotten.
DecideForgetsFrames(l) ==
    /\ Running
    /\ pc[l] = "events"
    /\ count[l] = MaxDispatch \/ queue = <<>>
    /\ Goto(l, IF queue = <<>> THEN "wait" ELSE "top")
    /\ UNCHANGED <<queue, work, core, iface, fatalError, evt, count, more, others,
                   fault>>

\* The timeouts have fired: sleep, unless there are events.
Decide(l) ==
    /\ Running
    /\ pc[l] = "events"
    /\ count[l] = MaxDispatch \/ queue = <<>>
    /\ Goto(l, IF queue = <<>> /\ ~more[l] THEN "wait" ELSE "top")
    /\ UNCHANGED <<queue, work, core, iface, fatalError, evt, count, more, others,
                   fault>>

Wait(l) ==
    /\ Running
    /\ pc[l] = "wait"
    /\ semb # "clear"
    /\ semb' = IF semb = "given" THEN "clear" ELSE semb
    /\ fault' = IF semb = "given" THEN fault ELSE "LOOP"
    /\ Goto(l, "top")
    /\ UNCHANGED <<queue, work, task, shuttingDown, hasFinished, iface,
                   fatalError, evt, count, more, others>>

WaitTimeout(l) ==
    /\ Running
    /\ pc[l] = "wait"
    /\ semb = "clear"
    /\ Goto(l, "top")
    /\ UNCHANGED <<queue, work, core, iface, fatalError, evt, count, more, others,
                   fault>>

Delete(l) ==
    /\ Running
    /\ pc[l] = "delete"
    /\ IF semb \in {"clear", "given"}
       THEN semb' = "deleted" /\ UNCHANGED fault
       ELSE fault' = "LOOP" /\ UNCHANGED semb
    /\ Goto(l, "null")
    /\ UNCHANGED <<queue, work, task, shuttingDown, hasFinished, iface,
                   fatalError, evt, count, more, others>>

SetNull(l) ==
    /\ Running
    /\ pc[l] = "null"
    /\ semb' = NULL
    /\ Goto(l, "finish")
    /\ UNCHANGED <<queue, work, task, shuttingDown, hasFinished, iface,
                   fatalError, evt, count, more, others, fault>>

Finish(l) ==
    /\ Running
    /\ pc[l] = "finish"
    /\ hasFinished' = TRUE
    /\ Goto(l, "will")
    /\ UNCHANGED <<queue, work, task, semb, shuttingDown, iface, fatalError,
                   evt, count, more, others, fault>>

\* umac_last_will_and_testament calls the fatal error handler, and the task
\* ends.
LastWill(l) ==
    /\ Running
    /\ pc[l] = "will"
    /\ fatalError' = FALSE
    /\ Goto(l, "none")
    /\ UNCHANGED <<queue, work, core, iface, evt, count, more, others, fault>>

-----------------------------------------------------------------------------
ApiStep ==
    \/ ApiCreated \/ ApiCheck \/ ApiQueue \/ ApiGive
    \/ ApiWait \/ ApiAfter \/ ApiStop \/ ApiJoin

TxStep == TxCheck \/ TxGive

DrvStep == DrvQueue \/ DrvGive \/ DrvWake

LoopStep(l) ==
    \/ LoopTop(l) \/ Datapath(l) \/ Dequeue(l)
    \/ HandleUp(l) \/ HandleDown(l) \/ HandleOther(l) \/ HandleFatal(l)
    \/ Decide(l) \/ Wait(l)
    \/ Delete(l) \/ SetNull(l) \/ Finish(l) \/ LastWill(l)

Next ==
    \/ ApiUp
    \/ \E c \in {"down", "request"} : ApiCall(c)
    \/ ApiStep
    \/ TxQueue
    \/ TxStep
    \/ DrvCheck
    \/ DrvFrame
    \/ DrvStep
    \/ \E l \in Loop : LoopStep(l) \/ WaitTimeout(l)

Spec == Init /\ [][Next]_vars

\* Every task that is not waiting gets to run.  No fairness for the timeout of
\* the loop's wait: the wake-up has to come from the semaphore.
Fairness ==
    /\ WF_vars(ApiStep)
    /\ WF_vars(TxStep)
    /\ WF_vars(DrvStep)
    /\ \A l \in Loop : WF_vars(LoopStep(l))

FairSpec == Spec /\ Fairness

-----------------------------------------------------------------------------
(* Properties                                                              *)

TypeOK ==
    /\ queue \in Seq(Event) /\ Len(queue) <= PoolSize
    /\ work \in BOOLEAN
    /\ task \in Loop \cup {NULL}
    /\ semb \in {"clear", "given", "deleted", NULL}
    /\ shuttingDown \in BOOLEAN
    /\ hasFinished \in BOOLEAN
    /\ iface \in BOOLEAN
    /\ fatalError \in BOOLEAN
    /\ pc \in [Loop -> {"none", "top", "datapath", "events", "handle", "wait",
                        "delete", "null", "finish", "will"}]
    /\ evt \in [Loop -> Event \cup {NULL}]
    /\ count \in [Loop -> 0 .. MaxDispatch]
    /\ more \in [Loop -> BOOLEAN]
    /\ api \in [at : {"idle", "created", "check", "queue", "give", "giveFailed",
                      "wait", "after", "stop", "join"},
                call : Call, done : BOOLEAN, new : Loop \cup {NULL}]
    /\ tx \in {"idle", "check", "give"}
    /\ drv \in {"idle", "check", "queue", "give"}
    /\ drvEvents \in 0 .. MaxDrvEvents
    /\ struck \in BOOLEAN
    /\ fault \in {"NONE", "QUEUE", "TX", "STOP", "LOOP", "ASSERT"}

\* A wake-up is never lost: the loop blocks on its semaphore with an event in
\* the queue, frames to process or a stop to obey only while the task that
\* made the work still has to give the semaphore (evtloop_iteration,
\* umac_core_evt_queue, umac_core_evt_wake, umac_core_stop).
NoLostWakeup ==
    \A l \in Loop :
        /\ pc[l] = "wait"
        /\ semb = "clear"
        /\ queue # <<>> \/ work \/ shuttingDown
        => \/ api.at \in {"give", "stop"}
           \/ drv \in {"check", "give"}
           \/ tx \in {"check", "give"}

\* The core is never started while an earlier loop still uses its state
\* (umac_core_start, umac_core_stop).
SingleLoop == Cardinality({ l \in Loop : pc[l] # "none" }) <= 1

\* The loop, whoever starts, stops and wakes it: there is one at a time and no
\* wake-up for it is lost (evtloop_main, umac_core_start, umac_core_stop).
LoopSound == TypeOK /\ NoLostWakeup /\ SingleLoop

\* Before a fatal error no task waits on or deletes a semaphore that was deleted
\* or not yet created, no API call gives one, and the driver never has its
\* restart event refused (mmdrv_host_hw_restart_required asserts that it is
\* taken).  The exceptions are TxAnytime and CleanShutdown below.
NoFault == fault \in {"NONE", "TX", "STOP"} \/ struck

\* mmwlan.h, of the fatal error handler: "When the handler is called, MMWLAN
\* will be in a state equivalent to @c mmwlan_shutdown() having been invoked":
\* no interface, and no event loop but the one that makes the call.
ShutDownAtHandler ==
    \A l \in Loop : pc[l] = "will" /\ fatalError => task = NULL /\ ~iface

\* Every API call returns: its event is queued, woken for, handled and
\* answered, and stopping the core waits for a loop that does end.  (A fatal
\* error ends the loop with events in its queue; a fault ends the program.)
CallReturns == api.at # "idle" ~> (api.at = "idle" \/ struck \/ ~Running)

-----------------------------------------------------------------------------
(* What the documentation says and the code does not do: none of these is an *)
(* invariant (README, Deviations).                                           *)

\* mmwlan.h: the functions of the API "must not be called concurrently", but
\* "the exception to this is the TX API".
TxAnytime == fault # "TX"

\* mmwlan.h, of mmwlan_shutdown: "Perform a clean shutdown".
CleanShutdown == fault # "STOP"
=============================================================================
