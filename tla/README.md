# TLA+ models of the Morse Micro IoT stack

This directory holds the specifications kept beside the Morse Micro 802.11ah
("HaLow") station software: TLA+ modules for the parts of `morselib` and of
`mmagic` whose correctness depends on the order of events, configurations that
check them with TLC, and proofs checked with TLAPS. `PROJECT.json` is the index:
the components, the runs, the mutants, the source lines behind every definition,
the findings, the hazards and the theorems.

Contents: 1 the system, 2 the plan, 3 the modules, 4 the runs, 5 findings and
deviations, 6 the proofs, 7 mutants, 8 what is not modelled, 9 how to run.

## 1. The system

The repository is a CMSIS pack: the WLAN library `morselib`, an agent that
serves it to a host over a serial link (`mmagic`), utilities around them, board
support, examples and vendored libraries. The library's own documentation is in
its headers (`src/morselib/include/mmwlan.h`, `mmosal.h`, and the headers beside
each file); there are no unit tests in the pack. Most of the pack's lines are
vendored code (hostap, mbedtls, lwIP), firmware images and board support, which
this project leaves aside.

`morselib` runs as three kinds of task on FreeRTOS: the application's tasks,
which call `mmwlan_*`; the *event loop*, which runs nearly all of the upper MAC
(UMAC) to completion, one event, timeout or frame at a time; and the *driver
task*, which talks to the chip and calls back into the UMAC. The supplicant
(hostap) runs inside the event loop.

| component | state | operations | interacts with | module |
|---|---|---|---|---|
| event loop and queue (`umac/core/umac_evtloop.c`, `umac_evtq.c`) | static pool of events, queue, task, semaphore, shutting-down and finished flags | start, stop, queue, queue at start, wake, iteration, last will | API calls queue and wait; driver queues; datapath wakes; fatal error stops it from inside | `UmacEvtloop` |
| timeout queue (`umac/core/umac_timeout.c`) | pool, sorted list, free list | register, cancel, cancel one, deplete, dispatch | every module; the supplicant through `eloop.c` | `UmacTimeoutq`, `TimerList` |
| connection (`umac/connection`) | mode, `connection_fsm`, BSS configuration | start, stop, authenticate, associate, port open, deauthenticate, restore after restart | supplicant, driver, interface, power save, monitor, WNM sleep | `UmacSta` |
| connection monitor (`connection_mon_fsm`) | state, pending event, failed queries, timer | beacon loss, acknowledgement, check, disable | connection, supplicant | `UmacSta` |
| WNM sleep (`umac/wnm_sleep`) | `wnm_sleep_fsm`, waiting caller, retries, timer | request entry, request exit, confirmations, retry, connection lost, restart | API, supplicant, driver, datapath pause, health check veto, monitor | `UmacSta` |
| driver start/stop/restart (`driver/driver.c`, `umac_mmdrv_shim.c`) | started, what the chip knows | init, deinit, restart required, restart handler | event loop, interface, connection | `UmacSta`, `UmacEvtloop` |
| interface, power save, configuration | active interfaces, suspended flag, power-down flag | add, remove, suspend | connection, driver | `UmacSta` |
| scan (`umac/scan`) | active and pending request, `hw_scan_fsm`, pause, scan interface | request, abort, abort all, done, restart | application, supplicant, driver, datapath | `UmacScan` |
| block ack (`umac/ba`) | session per TID and direction, timers | request, response, teardown, timeout, reconnection | datapath, timeouts, peer | `BaOriginator`, `RxReorder` |
| receive path (`umac/datapath`) | reorder list of a station, expected numbers, duplicate detection, replay counter | receive, hold, flush, timer | block ack, keys, network stack | `RxReorder`, `OrderedDelivery` |
| transmit path and packet memory (`umac/datapath`, `mmpktmem`) | pool counter or free list, pause flag, mask of pause sources, semaphore, queues | allocate, free, wait until ready, queue, report, pause, unpause, callback | application, scan, chip, event loop | `TxFlowControl` |
| driver commands (`morse_driver/command.c`, `skbq.c`) | mutex, sequence number, pending identifiers, response, semaphore, queue and pending list | send, retry, time out, respond, stop, start | UMAC and application threads, driver task, chip | `MorseCommand` |
| driver task, chip power save, MM8108 interface (`driver_task.c`, `ps.c`, `yaps.c`, `event.c`) | pending and scheduled events, wakers, wake pin, bus timeout, queues, full and stopped flags | notify, schedule, work, evaluate, interrupt | commands, datapath, chip | `DriverTask` |
| mmagic link (`mmagic/controller`, `mmagic/agent`) | sequence numbers, sync token, stream queues, streams and tasks | call, sync, reset, receive, respond, event, boot | application of the host, data link | `MmagicLink` |
| SLIP and serial data link (`slip`, `m2m_datalink`) | decoder state, receive buffer | send, receive a character, hand up | `mmagic` link layer, UART | `SlipDatalink` |
| health check, TWT, keys, rate control, AP, relay | per-feature state | - | connection, driver | - |
| configuration store, IP glue, tools | small | - | - | - |

What is hard, and what makes each component correct:

* *Event loop.* The loop tests its queues and then waits on a binary semaphore;
  other tasks check flags and then use that semaphore; the loop deletes it when
  it stops. Correct means: no wake-up is lost, no dead semaphore is used, there
  is one loop at a time, every API call returns, and a fatal error leaves the
  system shut down.
* *Timeout queue.* Operations hold the lock for parts of their work only,
  handlers re-enter the queue, the clock wraps. Correct means: no node is lost
  or shared, the queue stays sorted, and it behaves as a list of timers.
* *Station.* Three state machines call each other from inside their entry and
  exit functions, under events of the AP, the application, the chip and timers
  in any order. Correct means: none of them gets an event it cannot take, and
  the effects each has on the others (monitor, data pause, health check veto,
  power save, driver, chip) begin and end together.
* *Scan.* Requests come from two sides, are aborted by either, and a restart or a
  failing command ends a scan at any point. Correct means: each request is
  in one place and is completed once, and nothing stays paused after the last.
* *Receive path.* Numbers wrap, frames are lost, repeated and reordered, one list
  serves all TIDs, sessions open and close under it. Correct means: delivery
  in the order of sending, and nothing held for ever.
* *Block ack requests.* Answers are late or missing and race their timers. Correct
  means: only a granted session aggregates, and every request ends.
* *Transmit path.* Three tasks allocate and free without a lock, pauses of several
  sources overtake each other. Correct means: no packet leaks, the mask and
  what the application was told agree with the truth, waiters are woken, and
  a pause of the pool always ends.
* *Commands.* Responses are late, lost or repeated, callers give up, and the driver
  is restarted under them. Correct means: a caller gets the answer to its own
  command, and returns.
* *Driver task.* Notifications are bits that are cleared before the work, retries
  are scheduled, and power save decides when the chip may sleep. Correct
  means: no packet on either side is slept over.
* *mmagic.* A link that loses and repeats packets, four-bit sequence numbers,
  queues of one entry, agents that restart. Correct means: a command is carried
  out at most once, an answer answers its own command, and calls and resets end.
* *SLIP.* A wire that loses and changes characters. Correct means: an intact
  packet after an intact packet gets through unchanged.

The list of what is hard to test, line by line, is `hazards` in `PROJECT.json`.

## 2. The plan

Done, in this order: `UmacTimeoutq` refining `TimerList`; `UmacSta` with its
inductive invariant and proof; `UmacEvtloop`; `SlipDatalink` and `MmagicLink`;
`RxReorder` refining `OrderedDelivery`, and `BaOriginator`; `UmacScan`;
`MorseCommand` and `DriverTask`; `TxFlowControl`.

Proofs, in this order: `UmacSta`, `UmacEvtloop`, `BaOriginator`, `UmacScan`,
`MorseCommand`, `TxFlowControl`, `DriverTask`, `MmagicLink` (section 6).

Left, in order of importance:

1. Of the connection: association comeback, bandwidth step-down, channel switch,
   failing starts, `mmwlan_sta_enable_nowait`; a composition of `UmacSta` with a
   bounded timeout pool and with the loop's fatal errors.
2. The health check with its vetoes, and TWT agreements.
3. The pager of the MM6108, the stale-frame timers of the queues, and the status of
   transmitted frames.

## 3. The modules

**`MmosalTime`** is the wrapping clock: a time has `TimeBits` bits (32 in the
code) and `mmosal_time_lt` is the sign of a difference.

**`TimerList`** is the abstract queue: a sequence of (key, deadline) pairs,
soonest first. **`UmacTimeoutq`** is the code: nodes of a static pool chained
through `next`, a head, a free list, and a hand per task for a node between two
chains. Each critical section is one action and the code between them is
separate: `register_timeout` is `RegAlloc`, `RegStamp`, `RegPeek`, `RegLink`.
The loop's dispatch takes the head, frees it, runs the handler (during which the
loop may call every operation) and goes on, at most `MaxDispatch` times.
`List == INSTANCE TimerList WITH armed <- Armed` is the refinement. A handler and
its two arguments are one value, the key.

**`UmacSta`** is `struct umac_data` reduced to a record `umacd` of what the control
flow reads, with each function of the code an operator from record to record
(`ActiveExit`, `Report`, `Disconnect`, ...) and each event, timeout or callback
one action that runs to completion, as the event loop runs it. The task inside
`mmwlan_set_wnm_sleep_enabled_ext` is the variable `api`; restart events waiting at
the front of the queue are counted in `restarts`. Frames and timeouts are
handled in any order with respect to the queue. An assertion that fails sets
`fault` and nothing happens after it: `"EVENT"` for the state machines' and the
handlers' own assertions, `"DRIVER"` for `mmdrv_deinit`'s. The supplicant, the
AP and the radio are external: they may do whatever their protocol allows in
the present state. The supplicant's answer to `umac_supp_process_deauth`, the
closing of the port, comes before the call returns, as in hostap.

**`UmacEvtloop`** has four kinds of task, interleaved at each access to shared
state: the application (`api`, one call at a time, as `mmwlan.h` requires), a
transmitter (`tx`, which `mmwlan.h` allows to be concurrent), the driver task
(`drv`, alive while an interface is), and the loop tasks (`pc`). There is room
for two loops, so that `SingleLoop` can fail. `fault` records the use of a
semaphore that does not exist, or a failed assertion, and `struck` whether there
has been a fatal error, after which `NoFault` and `CallReturns` promise nothing
(the loop ends with events in its queue). The constant `Assumed` is what a run
takes for granted of scheduler and application: `PatientUp`, the application
starts the station only after the last will of an earlier loop, and `LoneFatal`,
no fatal error strikes during a call that starts the station. Section 5 says
what happens without them.

**`SlipDatalink`** sends packets character by character through `slip_tx`, over a
wire that loses and changes characters and a transport that refuses them, into
`slip_rx` and the receive handler of the data link with its buffer. Real byte
values are used, since escaping is what the property is about; the checksum is
an external function of the payload.

**`MmagicLink`** composes the two link layers, the controller's calls, and the
agent's streams with their tasks. Both receive callbacks are steps that wait
until the queue they push to has room, as the code does; the agent's is split
where it has looked the stream up and not yet pushed. `mmagic_controller_agent_sync`
is split at each of its assignments, which race the receive callback. A
behaviour keeps to one of `Budgets`, the numbers of calls, syncs, resets, events,
losses, repetitions, crashes and timeouts there may be; so the faults can be
combined without multiplying all of them.

**`OrderedDelivery`** is the promise of a receiver: what is handed up of a TID is a
growing sequence in the order of sending. **`RxReorder`** is the code: duplicate
check, expected numbers, reorder list and timers of one station. The peer is
external and keeps a window of `Window` frames in the air, acknowledges each
or gives it up, and has nothing in the air when a session begins or ends. The
frames' numbers are taken modulo `SnMod`; their true order is known to the model
only. `Left` is the expected number that an earlier session left behind.

**`BaOriginator`** is the sending side of a session: the request, its backoff, the
bag of timeouts armed for it, answers that come late or never, teardown by the
peer and the end of the connection. `deaf` marks the known case in which an
answer that is ignored has cancelled the timeout.

**`UmacScan`** has the application's requests and aborts arriving through the event
queue, the supplicant's directly, and the state machine as operators on the
record `scan`. The chip runs a numbered scan, so that the model knows which
scan a completion belongs to, which the code does not.

**`MorseCommand`** splits `morse_cmd_tx` where other tasks can run: taking the mutex,
sending, waiting, taking the response, removing the packet, returning; and the
driver task's `morse_yaps_tx` where it moves the queue aside. `odd` records three
unlikely timings on which properties depend: a response between two tries of its
command (*gap*), a packet written after its caller stopped waiting (*overlap*), no
packet for a second try (*no room*).

**`DriverTask`** is the task's loop with its scheduled events and the work function in
its parts: read, transmit, end. Reading goes packet by packet, up to a limit
(`MaxReads`) at which it is due again: a packet is taken (`RxPacket`), cannot be
transferred (`RxFails`), or there is none or a bad one, with a wrong sync value,
checksum or channel, which ends the reading with what is behind it left in the chip
(`RxEnds`); `behind` records this until RX is handled again. A round of transmission
is atomic, whichever of its packets cannot be written; `failed` records that the last
of the data could not. Periods of timers keep their order and not their length
(commands are tried again after 2 units, frames after 1, the bus is given up after
1). Packets are counted. The chip is external: it has `Space` packets of room per queue, which it frees in
its own time, and something to say to the host: status, pauses, resumptions.

**`TxFlowControl`** has both packet memories: `memory` is chosen initially. On the heap
every atomic operation is a step (`Alloc`, `AllocUndo`, `AllocExamine`,
`AllocPause`; `Free`, `FreeExamine`, `FreeResume`), in static memory every critical
section. Each task has a job, the place in the code where it is and where it goes
on after a call. `crowded` records that two tasks wait for `tx_flowcontrol_sem`
together. A packet may be dropped wherever the code drops it (`Drop`): by the
application's call, by the loop that passes it on, as a management frame before its
wait or after it, and by a driver that is not started. An EAPOL frame passes the
queue by. An event of another kind, or a beacon, may wake the loop at any time
that it sleeps. `FlowControlAssumption` asks for a heap of four blocks more than
application tasks: with fewer, an allocation that fails and takes its count back
can hide the last release from `tx_data_pool_pkt_free`.

**`MC*`** modules give the instances for TLC (symmetry, a view, budgets).

## 4. The runs

A run's first property is usually a conjunction of the type invariant and the
structural invariants of the module, named `...Sound`; its parts are in the table
in brackets. The runs that check liveness use `FairSpec`.

| run | checks | instance |
|---|---|---|
| `timeoutq` | `PoolSound` (`TypeOK`, `NodesConserved`, `SortedByDeadline`), `ImplementsTimerList` | 3 nodes, 2 keys, 2 tasks, 3-bit clock, delays 0 and 1, at most 2 ticks late, 2 dispatches at once |
| `timeoutq_deplete` | `DepletionWithoutChange` fails | 2 nodes |
| `sta` | `TypeOK`, `NoEventFault`, `MonitorFollows`, `SleepFollows`, `RequestOwned`, `DriverFollows`, `PowerSaveFollows`, `EntrySuccessMeansAsleep`, `RequestAnswered` | 3 retries, 3 queries, 2 restarts queued, chip powered down or not |
| `evtloop` | `LoopSound` (`TypeOK`, `NoLostWakeup`, `SingleLoop`), `ShutDownAtHandler`, `NoFault`, `CallReturns` | 2 loops, pool of 3, 2 dispatches at once, 2 driver events, fatal errors; `PatientUp` and `LoneFatal` |
| `slip` | `ReceiverSound` (`TypeOK`, `Resynchronises`) | 3 frames of packets with every special character, with and without checksum, buffer of 4, 2 faults of wire, allocation or transport |
| `mmagic` | `LinkSound` (`TypeOK`, `OnlyRepetitionsDropped`, `NoDeadQueue`), `OwnAnswer`, `CarriedOutOnce`, `CallAnswered`, `ResetCompletes` | numbers modulo 4, two streams, six budgets of up to 4 calls with faults |
| `rx_reorder` | `ListSound` (`TypeOK`, `ListSorted`, `HeldHaveTimer`), `OutdatedWereOvertaken`, `DeliversInOrder`, `HeldAreReleased` | numbers modulo 16 from 13, window 2; 3 frames of one TID and 1 of another over 2 sessions, or 6 of one TID; one fault |
| `ba_originator` | `SessionSound` (`TypeOK`, `AmpduGranted`), `BackoffReached`, `RequestEnds` | 4 requests, 3 tokens, backoff up to 3, 2 failures, one reconnection |
| `scan` | `ScanSound` (`TypeOK`, `NothingLeftBehind`, `RequestInOnePlace`), `RequestCompletes` | 5 requests, 2 aborts, 2 restarts, 2 failing commands |
| `command` | `QueueSound` (`TypeOK`, `PacketFound`), `OwnResponse`, `CommandReturns` | 2 threads, 3 commands of 2 tries, numbers up to 2, one fault, one restart |
| `driver_task` | `SleepSound` (`TypeOK`, `NothingStranded`, `WakePinRight`), `PacketsMove` | room for one packet per queue, 2 packets read at a time; five budgets of packets, pauses and a fault of the bus |
| `flow_control` | `PacketsSound` (`TypeOK`, `PacketsConserved`, `PausedForReason`), `MaskFollowsPool`, `WaiterWoken`, `ToldTheState`, `PoolResumes` | one application, heap of 5 blocks or static pool of 3, one report waiting, 1 (heap) or 2 (static) pauses, scans, management frames, refusals, EAPOL frames or dropped packets |

*Bounds.* Three nodes let a timeout be first, in the middle and last, and let
two tasks hold a node each while one is queued. With 3 bits the clock wraps every
eight ticks; `MaxLate` plus the longest delay stays below half of that, which
`TimeoutqAssumption` states and which in the code is 2^31 ms. The view of
`MCTimeoutq` compares states relative to the clock: no guard and no property
looks at an absolute time. In `timeoutq` depletion is restricted to the cases in
which the links survive it (`SafeNext`, with the condition `KeepsLinks`);
`timeoutq_deplete` has it unrestricted. Three retries and queries give a first, a
middle and a last one of each. A pool of three events has room for
one of the application and two of the driver, which is what the driver's
assertion needs. Sequence numbers wrap within the bounds in `mmagic` (modulo 4,
with four calls), in `rx_reorder` (16, six frames from 13) and in `command`
(2, three commands). A window of two frames in the air makes them arrive in either
order, with a gap when one is given up, and six frames fill a list of four. Five
scan requests let an active, a pending and a following request of both sides
exist. In `flow_control` the applications transmit without end; only the pauses
by others are counted.

*Deadlock.* All runs say `CHECK_DEADLOCK FALSE`: the program halts on a failed
assertion, an idle system has nothing to do, and behaviours end when their
bounds are used up.

*Fairness.* The fairness assumed is that of the schedulers and of time:

* `UmacSta`: the event loop serves its queue and its timeouts (weak fairness of
  `HwRestart`, `WnmRetry`), a task whose semaphore was given continues
  (`ApiReturn`), and a queued request is served when it is at the front again and
  again (strong fairness of `SetWnmSleep`). `RequestAnswered` holds if the queue
  is free of restart events again and again: restarts go to the front, and a
  chip that keeps asking for them starves the call. AP, supplicant and application
  owe nothing.
* `UmacEvtloop`: every task that can run eventually does; the timeout of the
  loop's wait has no fairness, so that `CallReturns` holds by the semaphore
  alone, and starting a call, transmitting or receiving has none.
* `MmagicLink`: tasks and data links run; timeouts, losses, repetitions and
  restarts owe nothing, and calls need not be made.
* `RxReorder`: the clock advances and the event loop dispatches what is due.
* `BaOriginator`: the same, answers that arrived are handled, and the peer gets round
  to every request, to answer it or to ignore it.
* `UmacScan`: the event loop runs and a scan of the chip ends. The chip owes this
  only for a scan it is running.
* `MorseCommand`: threads and driver task run, and waits time out; nothing is asked of
  the chip.
* `DriverTask`: the task runs (it has the highest priority), interrupts are taken,
  time passes, and the chip gets rid of the packets it was given.
* `TxFlowControl`: the tasks run and waits of the event loop time out; a pause by the
  chip and a scan come to an end (the latter strongly, since its event is handled
  between others), and beacons are received, without which a loop asleep over a
  full queue (`QueueServed`, section 5) would not be woken.

The exceptions that liveness properties make are stated in their formulas and their
comments: `log.lost` and `log.late` of `MmagicLink`, `fails` of `RxReorder` and
`BaOriginator`, `Stranded` of `UmacScan`, `odd` of `MorseCommand`, `failed` and `behind`
of `DriverTask`, `struck` of `UmacEvtloop`. Each is a case in which the code does stop,
listed in section 5 or 8.

## 5. Findings and deviations

`timeoutq_deplete` shows `umac_timeoutq_deplete_timeout_protected` enqueue a node
with its old `next`: put last, it closes the list into a cycle. `findings` in
`PROJECT.json` quotes the lines.

The modules state further formulas that a header, a comment, an assertion or a log
message of the code suggests and that do not hold of it, at their ends, under a
heading of their own. None is used by a run; replacing the properties of the
configuration by the formula, with the constants given here, makes TLC show the
behaviour. They are kept because the properties above have to leave these cases
out, and to tell when a change of the code removes one.

| formula | configuration | what TLC shows | what the source says |
|---|---|---|---|
| `ChipAwake` | `MCSta` | leaving WNM sleep with the chip powered down runs the restart recovery while the state is still ACTIVE, which puts the rebooted chip into WNM sleep mode (`umac_wnm_sleep.c:281`) | `mmwlan.h:1471` "the chip will exit low power mode regardless of whether or not the exit request was successful" |
| `LostExitIsError` | `MCSta` | an exit that ends in the loss of the link is reported as success (`umac_wnm_sleep.c:328`) | `mmwlan.h:1475` "the station will bring down the connection and return @ref MMWLAN_ERROR" |
| `DriverStartedAtDeinit` | `MCSta` | a restart queued just before the chip is powered down finds the driver stopped (`umac_mmdrv_shim.c:88`) | `driver.c:382` `MMOSAL_ASSERT(driver_data.started)` |
| `CleanShutdown` | `MCEvtloop` | `umac_core_stop` gives a semaphore that the loop, which has seen the flag, has deleted (`umac_evtloop.c:132`) | `mmwlan.h:641` "Perform a clean shutdown" |
| `TxAnytime` | `MCEvtloop` | a transmission concurrent with a shutdown does the same (`umac_evtloop.c:222`) | `mmwlan.h:12` "The exception to this is the TX API" |
| `ShutDownAtHandler` | `MCEvtloop`, without `LoneFatal` | a start request queued behind the event that ends in a fatal error is still dispatched (`umac.c:1912`) | `mmwlan.h:2598` "in a state equivalent to @c mmwlan_shutdown() having been invoked" |
| `SingleLoop` | `MCEvtloop`, without `PatientUp` | a start while a loop is stopping itself begins a second one (`umac_evtloop.c:97`) | - |
| `NoFault` | `MCEvtloop`, `PoolSize = 2` | the driver's restart event is refused for want of an event | `umac_mmdrv_shim.c:109` asserts that it is taken |
| `CompleteMeansWhole` | `MCSlip`, `Oversize = TRUE` | a packet longer than the buffer is handed up cut off (`slip.c:21`) | `slip.h:84` "A complete packet with length > 0 has been received." |
| `TxErrorReported` | `MCSlip` | an error in an escape sequence leaves the switch and not the loop, and is forgotten (`slip.c:101`) | `slip.h:121` "0 on success, otherwise an error code as returned by @p transport_tx_fn" |
| `BufferLeftAlone` | `MCSlip` | when no new buffer can be had the decoder goes on writing to the one handed up (`mmagic_datalink_uart.c:136`) | `mmagic_datalink_agent.h:86` "The callback takes ownership of the buffer" |
| `OwnData` | `MCMmagic` | the late response to a call that timed out is returned as the data of the next call of the same command (`mmagic_controller.c:710`) | `mmagic_controller.h:632` "Waits for a response from the agent." |
| `SyncAnswered` | `MCMmagic` | a response that arrives before the status is preset is overwritten by a timeout (`mmagic_controller.c:1027`) | `mmagic_controller.c:215` "Final status must be set before clearing the sync token." |
| `SyncAgrees` | `MCMmagic` | a sync request uses a sequence number, so that the sync finds the sides out of step (`mmagic_controller.c:551`) | `mmagic_controller.c:73` "Does not increment the sequence number counter." |
| `QueueAlive` | `MCMmagic`, with the budget of 5 calls, a crash and 2 timeouts | after a restart and a call given up, the response to an OPEN of the agent's earlier life passes for the one to a later OPEN, so that the socket is used while its CLOSE is carried out and a command is pushed into its deleted queue (`mmagic_m2m_agent.c:294`) | `mmagic_m2m_agent.c:294` checks that the stream is there |
| `ReleasedOnce` | `MCMmagic` | a command for a stream that is not open has its buffer released by both layers (`mmagic_m2m_agent.c:297`) | `mmagic_llc_agent.h:150` "The callback takes ownership of the buffer and is responsible for releasing it." |
| `WalkNotNull` | `MCRxReorder`, `BufferSizes = {1}` | with a buffer of one frame the list is emptied before the walk over it (`umac_datapath.c:824`) | `MMOSAL_ASSERT(walk != NULL)` there |
| `ReplaysAreReplays` | `MCRxReorder`, `Protected = TRUE` | a frame held while a later one of another TID is delivered is dropped as a replay (`connection_keys.c:177`) | `mmwlan_stats.h:81` "dropped due to CCMP failures. (e.g., replay detection)" |
| `RepetitionsDropped` | `MCRxReorder`, `BufferSizes = {2}` | when the list is full, a frame equal to its next head is kept (`umac_datapath.c:785`) | `mmwlan_stats.h:105` "dropped due to repeated sequence control field value" |
| `OutdatedWereOvertaken` | `MCRxReorder`, `First = 0`, `Left = 5` | the starting number of an ADDBA request is not stored, and new frames are dropped as outdated (`umac_ba.c:286`) | `mmwlan_stats.h:102` "dropped due to outdated sequence control field value" |
| `NoneStranded` | `MCScan` | a scan that is aborted or cut by a restart leaves the pending request behind (`hw_scan.c:521`) | `mmwlan.h:908` "It may take some time for the request to be serviced." |
| `AbortFindsRequest` | `MCScan` | a scan that completes before the event of its abort fails an assertion | `umac_scan.c:83` `MMOSAL_ASSERT(false)` |
| `SuccessMeansScanned` | `MCScan` | the completion of a scan cut by a restart ends the next one with success (`umac_mmdrv_shim.c:108`) | `mmwlan.h:809` "Scan was successful and all channels were scanned." |
| `TrafficPasses` | `MCScan` | a scan that dwells on its home channel runs with traffic paused by the one before (`hw_scan.c:463`) | `mmwlan.h:849` "to allow traffic to still pass" |
| `RequestInOnePlace` | `MCScan`, `Refusable = {"event", "command"}` | a request that cannot be queued leaves its callback set, and every later one is refused (`umac.c:877`) | `mmwlan.h:911` "the complete callback will be invoked immediately with an error status" |
| `RequestCompletes` | `MCScan`, `Refusable = {"event", "command"}` | an event that cannot be queued, of a request or of the end of a scan (`umac_mmdrv_shim.c:208`), leaves its requester waiting | `umac_mmdrv_shim.c:211` logs "Failed to queue HW_SCAN_DONE event." |
| `TimeoutMeansWaited` | `MCMorseCommand` | a semaphore left given makes the next command time out without waiting (`command.c:140`) | `command.c:157` logs "timeout after %lu ms" |
| `OwnResponse`, `PacketFound` without `odd` | `MCMorseCommand` | a response between two tries is taken by the next command (`command.c:144`); a packet being written is looked for in the wrong list (`skbq.c:513`) | `command.c:178` and `mmpkt_list.c:146` assert it |
| `ScheduleFits` | `MCDriverTask`, `PauseTime = 3` and a budget of two packets per queue, a pause and a wake | five events are scheduled at once for a table of four | `driver_task.c:124` `MMOSAL_ASSERT(false)` |
| `PauseAgrees` | `MCDriverTask` | a resumption and a pause read together are handled in the wrong order (`yaps.c:493`) | `event.c:61` logs "UMAC Traffic control paused by" |
| `PauseOverridden` | `MCDriverTask`, `PauseTime = 1` | the event that overrides a pause does not count as work (`morse.h:87`) | `yaps.c:503` logs "Traffic pause override event fired" |
| `PacketsMove` without `failed` | `MCDriverTask` | a failed write marks the chip as full until it frees a packet it does not hold (`yaps.c:320`) | `yaps.c:43` defines an unused `CHIP_FULL_RECOVERY_TIMEOUT_MS` |
| `PacketsMove` without `behind` | `MCDriverTask` | a packet with a wrong sync value, checksum or channel ends the reading, and those behind it stay in the chip until the next interrupt or transmission (`yaps.c:146`, `yaps.c:441`) | `yaps.c:441` notifies RX again when more packets may be there |
| `EachWaiterWoken` | `MCTxFlowControl` | one give of `tx_flowcontrol_sem` wakes one of two waiters (`umac_datapath.c:86`) | `mmwlan.h:2344` "Blocks until the transmit path is ready for transmit" |
| `QueueServed` | `MCTxFlowControl` | the end of a pause by the chip does not wake the loop while the packet memory pauses, with all packets in the loop's queue (`umac_datapath.c:2514`) | - |

Each needs a particular interleaving or sequence; the passing runs state what
holds besides.

## 6. The proofs

Every theorem is `Spec => []P` (one is an action property) for a property `P` of a
run: TLC shows it on the instance of the run, TLAPS for every value of the
constants that the module's named assumption allows. Bounds on behaviours
(`MaxCommands`, `Budgets`, ...) are constants too, so that a theorem is about
behaviours of any length. Each inductive invariant `IInv` was checked by TLC on
the instance of its run (that of the link, `Inv`, on those named below) before it
was proved. All proof modules are laid out
alike: the parts of `IInv`; lemmas about the operators; one lemma per action that
the parts are kept; `Init` and `Next` together; the theorems.

| Module | Theorems | Besides the module's assumption |
| --- | --- | --- |
| `UmacStaProofs` | `TypeCorrect`, `StateMachinesAgree`, `MonitorFollowsAlways`, `SleepFollowsAlways`, `RequestOwnedAlways`, `DriverFollowsAlways`, `PowerSaveFollowsAlways`, `EntrySuccess` | - |
| `UmacEvtloopProofs` | `LoopSoundness`, `HandlerShutDown`, `FaultFree` | `Taken`: both assumptions of section 3 on scheduler and application; for `FaultFree` a pool of more events than the driver queues |
| `BaOriginatorProofs` | `SessionSoundness`, `BackoffKept` | - |
| `UmacScanProofs` | `ScanSoundness` | `EventsHad`: an event can be had for every request |
| `MorseCommandProofs` | `QueueSoundness`, `OwnResponseAlways` | - |
| `TxFlowControlProofs` | `PacketsSoundness`, `MaskFollows`, `LoneWaiterWoken`, `CallbackTold` | - |
| `DriverTaskProofs` | `SleepSoundness` | - |
| `MmagicLinkProofs` | `LinkSoundness`, `OwnAnswerAlways`, `CommandsOnce`, and the invariant itself, `LinkInvariant` | - |

The hypotheses of the third column are those under which the runs pass; section 5
says what happens without them.

**The station.** `IInv == TypeOK /\ Sound(umacd) /\ Owned(umacd, api)`. None of the
six safety invariants is inductive alone: that the monitor accepts a STOP needs
that it runs exactly while connected and awake; that needs that sleep and silence
of the monitor coincide; that the driver's commands work when power save is
resumed needs the driver to be up; and so on round. `Sound` and `Owned` are their
conjunction in equational form, as predicates of a record, so that they also can
be stated of the states *inside* a handler. There they do not hold as they are:
`Linked` describes a connected station and `Idle` one that is not, in the middle of
a handler, and the lemmas of the first part of `UmacStaProofs` say of each operator
from which of these to which it leads and which fields it leaves alone. The second
part uses them for each action and derives the theorems. A failed driver assertion
(`DriverStartedAtDeinit` in section 5) is not excluded by `IInv`: in such a state
nothing more happens, and the invariants hold there too.

**The event loop.** A state after a fault has no successor, so what the proof needs
is asked only of states that run (`Running => Core`). `Core` has: one loop at a time
(`OneLoop`); how the flags and the task pointer of `umac_core` follow the life of
the loop task (`Life`); where a call can find them (`Calls`); interface and driver
live inside it (`Interface`); the event of a call exists once and its caller waits
(`Owners`), which is what makes the wait end with the right event; what of the pool
is in use (`PoolUse`), which is why the driver's restart event is not refused; and
for every point of the loop after which it looks no more at the work, who still has
to give the semaphore (`Wakes`).

**Block ack.** A successful session has a token among the granted ones because every
answer on its way that grants a token was sent by a peer that granted it
(`Granting`). That no request is cut short needs that within a connection the bag
of timeouts has at most one, registered with the request: time waited and time left
add up to the backoff (`OwnTimer`).

**Scans.** `RequestInOnePlace` counts; the invariant says the same without counting: a
requester waits exactly if its request is queued, active or pending, it is at most
one of these (`Placed`), and in the queue once (`Once`). The lemmas give the effect of
every operator of the state machine, as for the station.

**Commands.** The holder of the mutex has the last command issued (`Holder`). Until a
packet is written after its caller stopped waiting, the three lists of the queue
hold at most one packet, that of the present try (`Lists`). The number of a packet
or response follows from its age modulo the range (`Numbers`), so that a response
younger than a whole round that carries the pending number is of the pending
command (`Answer`).

**Flow control.** `Placed` says of each task where it may be, where it goes on, and when
it holds a packet. `Conserved` counts packets by cardinality of the set of tasks that
hold one: every step moves one packet between two places, and a failed allocation
on the heap is in the counter until it is taken back. `Reason` is why a pause of the
memory ends, `Crowding` when two tasks wait, and `Woken` and `Told` sharpen
`WaiterWoken` and `ToldTheState`: a task at `tell` is not enough, as the value it tells
was read earlier. It is enough if the task is not the loop, which only queues a
call; the loop calls itself, with a value that must still be true. With the weaker
form the step in which the loop tells is not provable.

**The driver task.** The status of every frame in the chip, and every status on its
way, is outstanding (`StatusDue`; one that was lost stays so), so that a chip that may
sleep holds no frame. What is in a
queue is pending or scheduled (`Queued`), data unless it is stopped or a pause is
pending. Somebody who notifies a task that sleeps gives its semaphore (`Roused`), the
chip is awake during work (`Working`), and a sleeping chip has nothing to do but
what a pending event will wake it for (`Pin`). A task that nothing but time will wake
has no event pending, and the theorem follows. `Follows` and `EvaluateFollows` say
what power save may do to the schedule and when it lets the chip sleep.

**The mmagic link.** Packets of any number are on their way in both directions, and
sequence numbers wrap, so the proof has two levels. The lower one is about a queue
of packets alone and is used for both directions. `Wire(q)`: before a repetition
there is nothing but its original, a call's number occurs once besides repetitions,
and the numbers of neighbours follow each other. `HeadFollows` and `EndSent` place the
queue between the two ends: as long as fewer packets were lost in a row than there
are numbers, the head has the number after those lost, and the end that of the
sender. All three are statements about single places or neighbours, so that taking,
losing, repeating and appending a packet keep them without induction over the queue.
From them a packet dropped for its number is a repetition, which is
`OnlyRepetitionsDropped`. What the upper level sees of a queue is the set of its
*live* items: those that are not repetitions of the packet seen last. Receiving the
original makes its repetitions dead, and nothing makes an item live but sending it.

The upper level follows each command. `NumbersDown` and `NumbersUp`: its number is in
one place of command, receive callback, stream's queue, task and response, and is
taken from the task on; hence `CarriedOutOnce`, across restarts, as a restart empties
these places. `Own`: on a stream on which no call was given up, whatever is in one of
these places belongs to the call that waits; hence `OwnAnswer`. `Token` is for
`NoDeadQueue`: the right to use the socket passes from the OPEN's response to the
application, with the CLOSE to the agent's task, and from it to the task of the
stream that frees it; it is in one place (`OneOwner`), and every use of the socket is
before the CLOSE on the way (`UseBeforeClose`). `NobodyOwns` while the agent has no such
stream ties the two sides together; a restart breaks the tie, and then `Own` of the
control stream takes its place, which is why the exception of `NoDeadQueue` needs both
a restart and a call given up. Without the exception the step `TaskResponds` is not
provable, and TLC shows why (`QueueAlive` in section 5). Every part of the invariant was
checked by TLC on budgets like those of the run, and one of 5 calls, a crash and 2
timeouts, before it was proved.

Writing the proofs changed the modules in these places, none of which changes a
behaviour: arms of `CASE` that were not exclusive (`StatusAfter` in `BaOriginator`,
`EventLoop` in `DriverTask`, `LoseUp` in `MmagicLink`) are, since overlapping arms leave
the value to TLC; `Without` in `MorseCommand` and `Schedule` and `Retry` in `DriverTask`
are explicit functions, since the provers know no `SelectSeq` with a `LAMBDA` and no
`@@`; `EvtloopAssumption` says that `NULL` is none of the values it stands beside;
`LinkAssumption` says that the invalid sequence number is none; the history of
`MmagicLink` counts the packets lost in a row up to the one the receive callback takes
off the data link, no longer to the end of the callback. One property changed:
`NoDeadQueue` has its exception, which the budgets of the run do not reach.

Only model-checked:

* liveness (`RequestAnswered`, `CallReturns`, `CallAnswered`, `ResetCompletes`,
  `HeldAreReleased`, `RequestEnds`, `RequestCompletes`, `CommandReturns`, `PacketsMove`,
  `PoolResumes`): the prover does not reason about fairness;
* what rests on walking chains or sequences of any length, an induction over data:
  `PoolSound` of `UmacTimeoutq` and its refinement of `TimerList`, `ReceiverSound` of
  `SlipDatalink`, `ListSound` and `OutdatedWereOvertaken` of `RxReorder` and its
  refinement of `OrderedDelivery`.

## 7. Mutants

Every property of a passing run has a mutant: an operator next to the one it
replaces, with the same parameters, that makes a plausible mistake (a head not
advanced, a timer not cancelled, a state not looked at, a wait left out). With
it TLC finds the property violated. Mutants are marked as such in the comments
and used by nothing else.

## 8. What is not modelled

* Frame contents, crypto, formatting, logging, statistics.
* `UmacTimeoutq`: the extra pool and its release, the read-only queries. That a
  handler which always registers a zero timeout starves overdue ones
  (`umac_timeout.c:446`) is not stated.
* `UmacSta`: access point and DPP modes, failing starts (`umac_connection.c:140`
  leaves the mode STA without an interface), failing commands to a started driver
  during the recovery (`umac_connection.c:1690`), a retry timeout that cannot be
  registered, roaming, association comeback, channel switch, the other users of
  timers. A WNM request while a driver is stopped cannot be confirmed by the AP,
  so `WnmConfirmed` needs the driver started.
* `UmacEvtloop`: the sleep callback, allocation failures of task and semaphores, the
  `nowait` calls, the registration of the inactive callback of `mmwlan_shutdown`,
  the timeouts (a wait may time out at any moment instead).
* `SlipDatalink`: deep sleep and deinit of the data link; sending by the agent, which
  adds the checksum and then uses the same codec.
* `MmagicLink`: what the commands do, malformed packets, deep sleep, deinit of either
  side; packets out of order, which a serial line does not produce.
* `RxReorder`: fragments, and sessions closed by the test mode; the pool that the
  timers come from (several timers may be armed at once and none is cancelled).
* `BaOriginator`: one TID; the choice of when to ask is left to the peer's traffic.
* `UmacScan`: the scan command and the results; `umac_scan_deinit`, which asserts that
  nothing is pending.
* `MorseCommand`: malformed responses; a caller that waits for the mutex while it is
  deleted (a call begins only while the driver is started).
* `DriverTask`: the beacon queue; the timer of stale status, without which a status
  that is lost keeps the chip of the model awake; the health check that failures in a
  row ask for; the wait for the chip to wake up, shutdown; the MM6108's pager. Rounds
  of transmission are atomic: a sender's step comes before or after one, not between
  the clearing of a notification, the dequeueing and the count.
* `TxFlowControl`: the command pool, which falls back on the data pool, the management
  pool, empty by default, and the receive pools; the sources HW_RESTART, WNM_SLEEP,
  STANDBY and ECSA of the mask, which are set and cleared in the event loop as SCAN
  is (the first also by the driver, where the completion of one restart clears the
  pause of the next, `umac_mmdrv_shim.c:105`); `EvtRoom` keeps a place for an event
  of the callback, so that the event queue is never full of other kinds. A probe
  request waits for one source less (`umac_datapath.c:2174`); nothing but an
  application's own `mmwlan_tx_mgmt_frame`, which is not modelled, sends one this way.
* The components listed as `not_modelled` in `PROJECT.json`: planned ones in
  section 2, the others are vendored, board specific, numerical heuristics, or
  pure input and output.

## 9. How to run

    tlc -workers 2 -config MCSta.cfg MCSta
    tlapm UmacStaProofs.tla

and likewise for the other configurations and proof modules.

With two workers most runs take less than a minute; the longest, `flow_control`,
takes about three. The proofs take about fifteen minutes from nothing, the longest
module, `MmagicLinkProofs`, about four.
