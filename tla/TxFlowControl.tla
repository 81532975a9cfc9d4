---------------------------- MODULE TxFlowControl ---------------------------
(***************************************************************************)
(* Flow control of the transmit path: the packet memory, in both its       *)
(* implementations (mmpktmem_heap.c, mmpktmem_static.c), the mask of pause *)
(* sources in the UMAC data path and those that wait for it to clear       *)
(* (umac_datapath.c), and the flow control callback of the application.    *)
(*                                                                         *)
(* Application tasks, the event loop and the driver task interleave.  The  *)
(* packet memory on the heap is lock-free, with one atomic operation per   *)
(* step; the static one has critical sections.  Packets are counted, not   *)
(* told apart.  Allocations of management frames come from the data pool   *)
(* (MMPKTMEM_TX_MGMT_POOL_N_BLOCKS is 0 by default).                       *)
(***************************************************************************)
EXTENDS Integers, FiniteSets

CONSTANTS
    App,            \* the application tasks that transmit
    LOOP, DRV,      \* the event loop and the driver task
    BlocksOf,       \* MMPKTMEM_TX_POOL_N_BLOCKS, for each implementation
    EvtRoom,        \* INVOKE_TX_FC_CALLBACK events the queue has room for
    MaxReports,     \* bound: reports that wait for the event loop
    MaxPausesOf     \* bound, for each implementation: pauses by the chip, scans,
                    \* management frames, allocations that find no memory, EAPOL
                    \* frames and packets that are dropped

Task == App \cup {LOOP, DRV}

ASSUME FlowControlAssumption ==
    /\ LOOP # DRV /\ {LOOP, DRV} \cap App = {}
    /\ IsFiniteSet(App)
    /\ EvtRoom \in Nat \ {0}
    /\ MaxReports \in Nat
    /\ MaxPausesOf \in [{"heap", "static"} -> Nat]
    \* A heap of more blocks than tasks that can be in the middle of an
    \* allocation; of the others two have to be free to resume.
    /\ BlocksOf \in [{"heap", "static"} -> Nat]
    /\ BlocksOf["heap"] >= Cardinality(App) + 4
    /\ BlocksOf["static"] >= 2

VARIABLES
    memory,         \* the implementation of the packet memory
    allocated,      \* packets allocated; on the heap, also attempts to
    poolPaused,     \* tx_data_pool_tx_paused
    txPaused,       \* tx_paused: the set of sources
    sem,            \* tx_flowcontrol_sem
    semb,           \* evtloop_semb
    txq, statusq,   \* packets queued for the data path, packets reported
    drvq,           \* packets the driver has
    calls,          \* INVOKE_TX_FC_CALLBACK events in the queue
    job,            \* job[t]: what task t is doing, see Job
    told,           \* what the application's callback was told last
    pauses,         \* bound: how many there have been
    crowded         \* history: two tasks wait for tx_flowcontrol_sem, or one
                    \* that is left of them

pool == <<memory, allocated, poolPaused>>
queues == <<txq, statusq, drvq>>
events == <<calls, told>>
vars == <<pool, txPaused, sem, semb, queues, events, job, pauses, crowded>>

Source == {"PKTMEM", "TRAFFIC", "SCAN"}
State == {"READY", "PAUSED"}

\* at: the place in the code.  next: where to go on after a call to the packet
\* memory or to umac_datapath_update_tx_paused.  packet: whether the task holds
\* one.  source and value: the arguments of umac_datapath_update_tx_paused, of
\* which the packet memory is asked for the value.
Place == {"idle", "ready", "wait", "alloc", "undo", "examine", "pausing",
          "freed", "resuming", "update", "tell", "queue",
          "asleep", "status", "tx", "events"}
Job == [at : Place, next : Place, packet : BOOLEAN, source : Source,
        value : BOOLEAN]

-----------------------------------------------------------------------------
Init ==
    /\ memory \in {"heap", "static"}
    /\ allocated = 0
    /\ poolPaused = FALSE
    /\ txPaused = {}
    /\ sem = FALSE /\ semb = FALSE
    /\ txq = 0 /\ statusq = 0 /\ drvq = 0
    /\ calls = 0 /\ told = "READY"
    /\ job = [t \in Task |-> [at |-> IF t = LOOP THEN "asleep"
                                      ELSE IF t = DRV THEN "idle" ELSE "ready",
                              next |-> "idle", packet |-> FALSE,
                              source |-> "PKTMEM", value |-> FALSE]]
    /\ pauses = 0
    /\ crowded = FALSE

Blocks == BlocksOf[memory]
MaxPauses == MaxPausesOf[memory]

At(t, place) == job[t].at = place
Goto(t, place) == job' = [job EXCEPT ![t].at = place]

\* Job j where the call that it makes has returned, its arguments forgotten.
Returned(j) == [at |-> j.next, next |-> "idle", packet |-> j.packet,
                source |-> "PKTMEM", value |-> FALSE]
Return(t) == job' = [job EXCEPT ![t] = Returned(@)]

-----------------------------------------------------------------------------
(* The packet memory                                                       *)

\* update_tx_flow_control_state and mmhal_wlan_alloc_mmpkt_for_tx: too few left
TooFew == allocated >= IF memory = "heap" THEN Blocks ELSE Blocks - 1

\* tx_data_pool_pkt_free and _tx_data_free: enough left, with n allocated
Enough(n) == n <= IF memory = "heap" THEN Blocks - 3 ELSE Blocks - 2

\* On its way to pktmem_flow_control_handler, which passes on what the packet
\* memory says when it is asked.
Handler(t) == [job[t] EXCEPT !.at = "update"]

\* mmhal_wlan_alloc_mmpkt_for_tx: the packet is counted or taken from the free
\* list.  The heap may have no memory.
Alloc(t) ==
    /\ At(t, "alloc")
    /\ \/ /\ memory = "heap"
          /\ allocated' = allocated + 1
          /\ \/ /\ allocated < Blocks
                /\ job' = [job EXCEPT ![t].at = "examine", ![t].packet = TRUE]
                /\ UNCHANGED pauses
             \/ /\ Goto(t, "undo")
                /\ IF allocated < Blocks
                   THEN pauses < MaxPauses /\ pauses' = pauses + 1
                   ELSE UNCHANGED pauses
       \/ /\ memory = "static"
          /\ allocated' = IF allocated < Blocks THEN allocated + 1 ELSE allocated
          /\ job' = [job EXCEPT ![t].at = "examine", ![t].packet = allocated < Blocks]
          /\ UNCHANGED pauses
    /\ UNCHANGED <<memory, poolPaused, txPaused, sem, semb, queues, events, crowded>>

AllocUndo(t) ==
    /\ At(t, "undo")
    /\ allocated' = allocated - 1
    /\ Return(t)
    /\ UNCHANGED <<memory, poolPaused, txPaused, sem, semb, queues, events, pauses,
                   crowded>>

\* The heap only reads the counter here; the other one holds its lock.
AllocExamine(t) ==
    /\ At(t, "examine")
    /\ IF ~TooFew
       THEN Return(t) /\ UNCHANGED poolPaused
       ELSE IF memory = "heap"
       THEN Goto(t, "pausing") /\ UNCHANGED poolPaused
       ELSE /\ poolPaused' = TRUE
            /\ job' = [job EXCEPT ![t] = IF poolPaused
                                         THEN Returned(@)
                                         ELSE Handler(t)]
    /\ UNCHANGED <<memory, allocated, txPaused, sem, semb, queues, events, pauses,
                   crowded>>

AllocPause(t) ==
    /\ At(t, "pausing")
    /\ poolPaused' = TRUE
    /\ job' = [job EXCEPT ![t] = IF poolPaused
                                 THEN Returned(@)
                                 ELSE Handler(t)]
    /\ UNCHANGED <<memory, allocated, txPaused, sem, semb, queues, events, pauses,
                   crowded>>

\* tx_data_pool_pkt_free, tx_data_free
Free(t, next) ==
    LET freeing == [job[t] EXCEPT !.next = next, !.packet = FALSE]
        resume == memory = "static" /\ poolPaused /\ Enough(allocated - 1)
    IN
      /\ allocated' = allocated - 1
      /\ poolPaused' = IF resume THEN FALSE ELSE poolPaused
      /\ job' = [job EXCEPT ![t] =
                    IF memory = "heap" THEN [freeing EXCEPT !.at = "freed"]
                    ELSE IF resume THEN [freeing EXCEPT !.at = "update"]
                    ELSE Returned(freeing)]
      /\ UNCHANGED memory

OneMore == pauses < MaxPauses /\ pauses' = pauses + 1

\* A packet that is not sent is released by the task that has it.
Drop(t, next) == OneMore /\ Free(t, next)

FreeExamine(t) ==
    /\ At(t, "freed")
    /\ IF Enough(allocated) THEN Goto(t, "resuming") ELSE Return(t)
    /\ UNCHANGED <<pool, txPaused, sem, semb, queues, events, pauses, crowded>>

\* Mutant of FreeResume: nobody is told while another source pauses the path.
FreeResumeQuiet(t) ==
    /\ At(t, "resuming")
    /\ poolPaused' = FALSE
    /\ job' = [job EXCEPT ![t] = IF poolPaused /\ txPaused = {"PKTMEM"}
                                 THEN Handler(t)
                                 ELSE Returned(@)]
    /\ UNCHANGED <<memory, allocated, txPaused, sem, semb, queues, events, pauses,
                   crowded>>

FreeResume(t) ==
    /\ At(t, "resuming")
    /\ poolPaused' = FALSE
    /\ job' = [job EXCEPT ![t] = IF poolPaused
                                 THEN Handler(t)
                                 ELSE Returned(@)]
    /\ UNCHANGED <<memory, allocated, txPaused, sem, semb, queues, events, pauses,
                   crowded>>

-----------------------------------------------------------------------------
(* umac_datapath_update_tx_paused                                          *)

\* The critical section.  Only a change of the mask from or to zero counts.
Update(t) ==
    /\ At(t, "update")
    /\ LET src == job[t].source
           isPaused == IF src = "PKTMEM" THEN poolPaused ELSE job[t].value
           new == IF isPaused THEN txPaused \cup {src} ELSE txPaused \ {src}
           changed == (txPaused = {}) # (new = {})
       IN
         /\ txPaused' = new
         /\ job' = [job EXCEPT ![t] =
                IF ~changed THEN Returned(@)
                ELSE [@ EXCEPT !.at = "tell", !.value = isPaused]]
    /\ UNCHANGED <<pool, sem, semb, queues, events, pauses, crowded>>

\* After it: when the path is ready again, umac_core_evt_wake and the semaphore.
\* In the event loop the callback is called, other tasks queue an event for it.
Tell(t) ==
    /\ At(t, "tell")
    /\ sem' = (sem \/ ~job[t].value)
    /\ \/ /\ t = LOOP
          /\ told' = IF job[t].value THEN "PAUSED" ELSE "READY"
          /\ semb' = (semb \/ ~job[t].value)
          /\ UNCHANGED calls
       \/ /\ t # LOOP
          /\ calls' = IF calls < EvtRoom THEN calls + 1 ELSE calls
          /\ semb' = TRUE
          /\ UNCHANGED told
    /\ Return(t)
    /\ UNCHANGED <<pool, txPaused, queues, pauses, crowded>>

-----------------------------------------------------------------------------
(* umac_datapath_wait_for_tx_ready_: an application waits for all sources,  *)
(* a management frame for all but the packet memory.  Each has a timeout.   *)

Blocked(t) == (IF t = LOOP THEN txPaused \ {"PKTMEM"} ELSE txPaused) # {}

Waiting == { t \in Task : At(t, "wait") }

\* Mutant of WaitBegin: the semaphore is emptied after the path was looked at,
\* with a token that may have been given since.
WaitBeginAnew(t) ==
    /\ At(t, "ready")
    /\ t = LOOP => job[t].packet
    /\ Goto(t, "wait")
    /\ sem' = FALSE
    /\ crowded' = (Waiting \ {t} # {})
    /\ UNCHANGED <<pool, txPaused, semb, queues, events, pauses>>

WaitBegin(t) ==
    /\ At(t, "ready")
    /\ Blocked(t)
    /\ t = LOOP => job[t].packet
    /\ Goto(t, "wait")
    /\ crowded' = (Waiting \ {t} # {})
    /\ UNCHANGED <<pool, txPaused, sem, semb, queues, events, pauses>>

WaitEnd(t) ==
    /\ At(t, "wait")
    /\ sem
    /\ sem' = FALSE
    /\ Goto(t, "ready")
    /\ crowded' = (crowded /\ Waiting \ {t} # {})
    /\ UNCHANGED <<pool, txPaused, semb, queues, events, pauses>>

\* Mutant of WaitTimeout: the management frame is forgotten.
WaitTimeoutLeaks(t) ==
    /\ At(t, "wait")
    /\ ~sem
    /\ IF t = LOOP /\ Blocked(t)
       THEN job' = [job EXCEPT ![t].at = "events", ![t].packet = FALSE]
       ELSE Goto(t, "ready")
    /\ crowded' = (crowded /\ Waiting \ {t} # {})
    /\ UNCHANGED <<pool, txPaused, sem, semb, queues, events, pauses>>

\* The path is looked at once more.  mmwlan_tx then returns; a management frame
\* is released.
WaitTimeout(t) ==
    /\ At(t, "wait")
    /\ ~sem
    /\ IF t = LOOP /\ Blocked(t)
       THEN Free(t, "events")
       ELSE Goto(t, "ready") /\ UNCHANGED pool
    /\ crowded' = (crowded /\ Waiting \ {t} # {})
    /\ UNCHANGED <<txPaused, sem, semb, queues, events, pauses>>

-----------------------------------------------------------------------------
(* An application, which transmits whenever it can: mmwlan_tx              *)

AppReady(a) ==
    /\ At(a, "ready")
    /\ ~Blocked(a)
    /\ job' = [job EXCEPT ![a].at = "alloc", ![a].next = "queue"]
    /\ UNCHANGED <<pool, txPaused, sem, semb, queues, events, pauses, crowded>>

\* umac_datapath_tx_frame, when there is a packet.  It is queued for the event
\* loop, an EAPOL frame is passed on to the driver (mmdrv_tx_frame), and one that
\* is refused is dropped.
AppQueues(a) ==
    /\ At(a, "queue")
    /\ \/ /\ job' = [job EXCEPT ![a].at = "ready", ![a].packet = FALSE]
          /\ \/ ~job[a].packet /\ UNCHANGED <<txq, drvq, semb, pauses>>
             \/ /\ job[a].packet /\ txq' = txq + 1 /\ semb' = TRUE
                /\ UNCHANGED <<drvq, pauses>>
             \/ job[a].packet /\ OneMore /\ drvq' = drvq + 1 /\ UNCHANGED <<txq, semb>>
          /\ UNCHANGED pool
       \/ /\ job[a].packet /\ Drop(a, "ready")
          /\ UNCHANGED <<txq, drvq, semb>>
    /\ UNCHANGED <<txPaused, sem, statusq, events, crowded>>

-----------------------------------------------------------------------------
(* The driver task                                                         *)

\* The packet has been sent: mmdrv_host_process_tx_status, which queues it for
\* the event loop or, if it was not attempted, frees it.
DrvReports ==
    /\ At(DRV, "idle")
    /\ drvq > 0
    /\ drvq' = drvq - 1
    /\ \/ /\ statusq < MaxReports
          /\ statusq' = statusq + 1
          /\ semb' = TRUE
          /\ UNCHANGED <<pool, job>>
       \/ /\ Free(DRV, "idle")
          /\ UNCHANGED <<statusq, semb>>
    /\ UNCHANGED <<txPaused, sem, txq, events, pauses, crowded>>

SetPaused(t, source, value, next) ==
    job' = [job EXCEPT ![t] = [@ EXCEPT !.at = "update", !.source = source,
                                        !.value = value, !.next = next]]

\* handle_umac_traffic_control
TrafficPause ==
    /\ At(DRV, "idle")
    /\ pauses < MaxPauses
    /\ pauses' = pauses + 1
    /\ SetPaused(DRV, "TRAFFIC", TRUE, "idle")
    /\ UNCHANGED <<pool, txPaused, sem, semb, queues, events, crowded>>

TrafficResume ==
    /\ At(DRV, "idle")
    /\ "TRAFFIC" \in txPaused
    /\ SetPaused(DRV, "TRAFFIC", FALSE, "idle")
    /\ UNCHANGED <<pool, txPaused, sem, semb, queues, events, pauses, crowded>>

-----------------------------------------------------------------------------
(* The event loop                                                          *)

LoopWakes ==
    /\ At(LOOP, "asleep")
    /\ semb
    /\ semb' = FALSE
    /\ Goto(LOOP, "status")
    /\ UNCHANGED <<pool, txPaused, sem, queues, events, pauses, crowded>>

\* umac_datapath_process_tx_status_queue
LoopStatus ==
    /\ At(LOOP, "status")
    /\ IF statusq > 0
       THEN statusq' = statusq - 1 /\ Free(LOOP, "status")
       ELSE Goto(LOOP, "tx") /\ UNCHANGED <<statusq, pool>>
    /\ UNCHANGED <<txPaused, sem, semb, txq, drvq, events, pauses, crowded>>

\* Mutant of LoopTx: the packet memory stops the queue that would refill it.
LoopTxAllSources ==
    /\ At(LOOP, "tx")
    /\ \/ /\ txq = 0 \/ txPaused # {}
          /\ Goto(LOOP, "events") /\ UNCHANGED <<pool, txq, drvq, pauses>>
       \/ /\ txq > 0 /\ txPaused = {}
          /\ txq' = txq - 1
          /\ \/ drvq' = drvq + 1 /\ UNCHANGED <<pool, job, pauses>>
             \/ Drop(LOOP, "tx") /\ UNCHANGED drvq
    /\ UNCHANGED <<txPaused, sem, semb, statusq, events, crowded>>

\* umac_datapath_process_tx: each packet is passed on to the driver, or dropped
\* by umac_datapath_process_tx_frame or mmdrv_tx_frame.  Nothing it leaves behind
\* calls for another round unless it is not paused.
LoopTx ==
    /\ At(LOOP, "tx")
    /\ \/ /\ txq = 0 \/ Blocked(LOOP)
          /\ Goto(LOOP, "events") /\ UNCHANGED <<pool, txq, drvq, pauses>>
       \/ /\ txq > 0 /\ ~Blocked(LOOP)
          /\ txq' = txq - 1
          /\ \/ drvq' = drvq + 1 /\ UNCHANGED <<pool, job, pauses>>
             \/ Drop(LOOP, "tx") /\ UNCHANGED drvq
    /\ UNCHANGED <<txPaused, sem, semb, statusq, events, crowded>>

\* Mutant of LoopCalls: only the packet memory is looked at.
LoopCallsPool ==
    /\ At(LOOP, "events")
    /\ calls > 0
    /\ calls' = calls - 1
    /\ told' = IF poolPaused THEN "PAUSED" ELSE "READY"
    /\ UNCHANGED <<pool, txPaused, sem, semb, queues, job, pauses, crowded>>

\* umac_datapath_invoke_tx_fc_callback_handler
LoopCalls ==
    /\ At(LOOP, "events")
    /\ calls > 0
    /\ calls' = calls - 1
    /\ told' = IF txPaused = {} THEN "READY" ELSE "PAUSED"
    /\ UNCHANGED <<pool, txPaused, sem, semb, queues, job, pauses, crowded>>

\* The handler of an event of another kind: a scan begins or ends
\* (hw_scan_pause, hw_scan_resume), or a management frame is built.
LoopEvent(e) ==
    /\ At(LOOP, "events")
    /\ \/ /\ e = "scanEnd" /\ "SCAN" \in txPaused
          /\ SetPaused(LOOP, "SCAN", FALSE, "events")
          /\ UNCHANGED pauses
       \/ /\ e = "scan" /\ "SCAN" \notin txPaused
          /\ pauses < MaxPauses
          /\ pauses' = pauses + 1
          /\ SetPaused(LOOP, "SCAN", TRUE, "events")
       \/ /\ e = "mgmt"
          /\ pauses < MaxPauses
          /\ pauses' = pauses + 1
          /\ job' = [job EXCEPT ![LOOP].at = "alloc", ![LOOP].next = "ready"]
    /\ UNCHANGED <<pool, txPaused, sem, semb, queues, events, crowded>>

LoopSleeps ==
    /\ At(LOOP, "events")
    /\ calls = 0
    /\ Goto(LOOP, "asleep")
    /\ UNCHANGED <<pool, txPaused, sem, semb, queues, events, pauses, crowded>>

\* umac_datapath_tx_mgmt_frame, after its wait, or when there was no packet.  A
\* frame is dropped before it waits if there is no key for it, and after it if the
\* driver was stopped.
MgmtReady ==
    /\ At(LOOP, "ready")
    /\ \/ /\ job[LOOP].packet => ~Blocked(LOOP)
          /\ drvq' = IF job[LOOP].packet THEN drvq + 1 ELSE drvq
          /\ job' = [job EXCEPT ![LOOP].at = "events", ![LOOP].packet = FALSE]
          /\ UNCHANGED <<pool, pauses>>
       \/ /\ job[LOOP].packet /\ Drop(LOOP, "events")
          /\ UNCHANGED drvq
    /\ UNCHANGED <<txPaused, sem, semb, txq, statusq, events, crowded>>

\* A frame is received (umac_datapath_rx_frame: beacons come all the time), or
\* an event is queued.
\* While the loop is awake one makes it do another round at most.
Beacon ==
    /\ At(LOOP, "asleep")
    /\ ~semb
    /\ semb' = TRUE
    /\ UNCHANGED <<pool, txPaused, sem, queues, events, job, pauses, crowded>>

-----------------------------------------------------------------------------
\* The calls to the packet memory and to umac_datapath_update_tx_paused that
\* any of the tasks makes.
Call(t) ==
    \/ Alloc(t) \/ AllocUndo(t) \/ AllocExamine(t) \/ AllocPause(t)
    \/ FreeExamine(t) \/ FreeResume(t)
    \/ Update(t) \/ Tell(t)
    \/ WaitBegin(t) \/ WaitEnd(t)

AppStep(a) == Call(a) \/ AppReady(a) \/ AppQueues(a)

DrvStep == Call(DRV) \/ DrvReports

LoopStep ==
    \/ Call(LOOP) \/ LoopWakes \/ LoopStatus \/ LoopTx \/ LoopCalls
    \/ LoopSleeps \/ MgmtReady

Next ==
    \/ \E a \in App : AppStep(a)
    \/ DrvStep \/ TrafficPause \/ TrafficResume
    \/ LoopStep
    \/ \E e \in {"scan", "scanEnd", "mgmt"} : LoopEvent(e)
    \/ Beacon
    \/ \E t \in Task : WaitTimeout(t)

Spec == Init /\ [][Next]_vars

\* Every task runs, a wait times out, a pause by the chip and a scan end, and
\* beacons are received.
Fairness ==
    /\ \A a \in App : WF_vars(AppStep(a))
    /\ WF_vars(DrvStep)
    /\ WF_vars(LoopStep)
    /\ WF_vars(WaitTimeout(LOOP))
    /\ WF_vars(TrafficResume)
    /\ SF_vars(LoopEvent("scanEnd"))
    /\ WF_vars(Beacon)

FairSpec == Spec /\ Fairness

-----------------------------------------------------------------------------
(* Properties                                                              *)

TypeOK ==
    /\ memory \in {"heap", "static"}
    /\ allocated \in 0 .. Blocks + Cardinality(Task)
    /\ poolPaused \in BOOLEAN
    /\ txPaused \subseteq Source
    /\ {sem, semb, crowded} \subseteq BOOLEAN
    /\ {txq, statusq, drvq} \subseteq 0 .. Blocks
    /\ calls \in 0 .. EvtRoom
    /\ told \in State
    /\ job \in [Task -> Job]
    /\ pauses \in 0 .. MaxPauses

\* No packet leaks or is freed twice: what is counted as allocated is in a
\* queue, held by a task, or an attempt about to be taken back, whichever way
\* a transmission ends; and never more than there are blocks.
PacketsConserved ==
    LET held == Cardinality({ t \in Task : job[t].packet })
        packets == txq + statusq + drvq + held
    IN  /\ allocated = packets + Cardinality({ t \in Task : At(t, "undo") })
        /\ packets <= Blocks

\* The mask agrees with the packet memory, however pauses and resumptions by
\* several tasks overtake each other, unless one is on its way to bring it up
\* to date (umac_datapath_update_tx_paused asks within its critical section).
MaskFollowsPool ==
    \/ "PKTMEM" \in txPaused <=> poolPaused
    \/ \E t \in Task : At(t, "update") /\ job[t].source = "PKTMEM"

\* The path is never paused for want of packets without a packet whose release
\* will resume it.
PausedForReason ==
    poolPaused =>
        \/ allocated > Cardinality({ t \in Task : At(t, "undo") })
        \/ \E t \in Task : job[t].at \in {"freed", "resuming"}

\* The packet memory, whatever its users do at the same time: it loses no packet
\* and its pause ends with a packet to come (tx_data_pool_pkt_free,
\* mmhal_wlan_alloc_mmpkt_for_tx).
PacketsSound == TypeOK /\ PacketsConserved /\ PausedForReason

\* An application never sleeps on in umac_datapath_wait_for_tx_ready_ once the
\* path is ready, unless two tasks have waited together (EachWaiterWoken).
WaiterWoken ==
    \A a \in App : At(a, "wait") /\ txPaused = {} /\ ~crowded =>
        sem \/ \E t \in Task : At(t, "tell")

\* mmwlan.h, of the flow control callback: "invoked when the transmit data path
\* is paused and when unpaused": with no call of it outstanding the application
\* knows the state of the path.  (EvtRoom: at least one event for it is not
\* refused for events of other kinds.)
ToldTheState ==
    \/ told = IF txPaused = {} THEN "READY" ELSE "PAUSED"
    \/ calls > 0
    \/ \E t \in Task : At(t, "tell")

\* Transmission resumes: whenever the packet memory has paused the path it will
\* release it.
PoolResumes == poolPaused ~> ~poolPaused

-----------------------------------------------------------------------------
(* What the documentation says and the code does not do: none of these is a  *)
(* property of the specification (README, Deviations).                       *)

\* mmwlan.h, of mmwlan_tx_wait_until_ready: "Blocks until the transmit path is
\* ready for transmit".  One of two tasks that wait is woken.
EachWaiterWoken ==
    \A t \in Task : At(t, "wait") /\ ~Blocked(t) =>
        sem \/ \E u \in Task : At(u, "tell")

\* The event loop does not sleep while umac_datapath_process_tx would send what
\* is in the queue: it is not woken for the end of a pause while the packet
\* memory, with all its packets in that queue, still pauses the path.
QueueServed ==
    At(LOOP, "asleep") /\ ~semb /\ txq > 0 /\ ~Blocked(LOOP) =>
        \E t \in Task : job[t].at \in {"tell", "queue"}
=============================================================================
