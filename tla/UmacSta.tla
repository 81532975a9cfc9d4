------------------------------ MODULE UmacSta -------------------------------
(***************************************************************************)
(* The station side of the UMAC: the connection state machine, the         *)
(* connection monitor, the WNM sleep supervisor, and what they do to the   *)
(* driver and the chip when one of them moves.                             *)
(*                                                                         *)
(* umacd is struct umac_data (and the global driver_data) reduced to what  *)
(* the control flow reads.  The code's functions are operators from umacd  *)
(* to umacd; an action is one event, timeout or callback that the event    *)
(* loop runs to completion, or a step of the application or of the driver  *)
(* task.  A failed assertion stops the program: it is recorded in fault,   *)
(* and nothing happens after it.                                           *)
(*                                                                         *)
(* The supplicant, the AP and the radio are external: they may make any    *)
(* call that the supplicant's own protocol allows in the present state.    *)
(***************************************************************************)
EXTENDS Naturals

CONSTANTS
    MaxRetry,       \* WNM_SLEEP_MAX_RETRY_REQ
    MaxQueries,     \* UMAC_CONNECTION_DEAUTH_THRESHOLD_AP_QUERIES
    MaxRestarts,    \* bound: hardware restart events in the event queue
    Powerdown       \* the chip_powerdown_enabled values applications use

ASSUME StaAssumption ==
    /\ MaxRetry \in Nat
    /\ MaxQueries \in Nat \ {0}
    /\ MaxRestarts \in Nat
    /\ Powerdown \subseteq BOOLEAN

VARIABLES
    umacd,
    api,            \* the task inside mmwlan_set_wnm_sleep_enabled_ext
    restarts        \* hw_restart_evt_handler events queued

vars == <<umacd, api, restarts>>

Mode == {"NONE", "STA"}
ConnState == {"DISABLED", "DISCONNECTED", "AUTHENTICATING", "CONNECTING",
              "CONNECTED"}
MonState == {"DISABLED", "STABLE", "UNSTABLE", "LOST"}
MonEvent == {"START", "STOP", "ACKED", "BEACON_LOSS", "UNRESPONSIVE"}
WnmState == {"IDLE", "ENTRY_REQUESTED", "ACTIVE", "EXIT_REQUESTED"}
Status == {"SUCCESS", "ERROR", "TIMED_OUT", "UNAVAILABLE"}
ChipSta == {"NONE", "AUTHENTICATED", "AUTHORIZED"}
Fault == {"NONE", "DRIVER", "EVENT"}

Umac ==
    [ mode : Mode,                      \* umac_connection_data.mode
      conn : ConnState,                 \* conn_fsm.current_state
      suspended : BOOLEAN,              \* umac_ps_data.suspended
      mon : MonState,                   \* conn_mon.fsm.current_state
      inMon : BOOLEAN,                  \* conn_mon.fsm.in_event_handler
      pending : MonEvent \cup {"NONE"}, \* conn_mon.fsm.pending_event
      monOff : BOOLEAN,                 \* conn_mon.disabled
      failed : Nat,                     \* conn_mon.failed_ap_queries
      monTimer : BOOLEAN,               \* umac_connection_monitor_check armed
      wnm : WnmState,                   \* wnm_sleep fsm_inst.current_state
      callback : BOOLEAN,               \* umac_wnm_sleep_data.callback set
      reply : Status \cup {"NONE"},     \* *status, once its semb is given
      retry : Nat,                      \* retry_counter
      wnmTimer : BOOLEAN,               \* umac_wnm_sleep_retry_request armed
      powerdown : BOOLEAN,              \* umac_config chip_powerdown_enabled
      paused : BOOLEAN,                 \* datapath paused by WNM sleep
      veto : BOOLEAN,                   \* health check vetoed by WNM sleep
      started : BOOLEAN,                \* driver_data.started
      chipWnm : BOOLEAN,                \* the chip's WNM sleep mode
      chipSta : ChipSta,                \* the station as the chip knows it
      fault : Fault ]                   \* the assertion that failed

\* MMOSAL_ASSERT and MMOSAL_DEV_ASSERT.
Check(s, cond) == IF cond THEN s ELSE [s EXCEPT !.fault = "EVENT"]

-----------------------------------------------------------------------------
(* The driver                                                              *)

\* mmdrv_init boots the firmware anew.
DrvInit(s) ==
    [s EXCEPT !.started = TRUE, !.chipWnm = FALSE, !.chipSta = "NONE"]

\* mmdrv_deinit asserts that the driver is started.
DrvDeinit(s) ==
    IF s.started
    THEN [s EXCEPT !.started = FALSE, !.chipWnm = FALSE, !.chipSta = "NONE"]
    ELSE [s EXCEPT !.fault = "DRIVER"]

\* Commands to a driver that is not started fail and change nothing.
DrvSetWnm(s, on) == IF s.started THEN [s EXCEPT !.chipWnm = on] ELSE s
DrvSetSta(s, st) == IF s.started THEN [s EXCEPT !.chipSta = st] ELSE s

\* umac_ps_set_suspended, with power save on: asserts that the command works.
SetSuspended(s, on) ==
    IF s.suspended = on
    THEN s
    ELSE [Check(s, s.started) EXCEPT !.suspended = on]

-----------------------------------------------------------------------------
(* The connection monitor: connection_mon_fsm                              *)

\* connection_mon_fsm_table; "ERROR" where there is no row.
MonNext(st, e) ==
    CASE e = "STOP" /\ st \in {"LOST", "STABLE", "UNSTABLE"} -> "DISABLED"
      [] e = "ACKED" /\ st \in {"STABLE", "UNSTABLE"} -> "STABLE"
      [] e = "BEACON_LOSS" /\ st \in {"STABLE", "UNSTABLE"} -> "UNSTABLE"
      [] e = "START" /\ st = "DISABLED" -> "STABLE"
      [] e = "UNRESPONSIVE" /\ st = "UNSTABLE" -> "LOST"
      [] OTHER -> "ERROR"

\* Leaving UNSTABLE cancels the check and entering it arms it; entering STABLE
\* forgets the failed queries.
TimerAfter(st, to, armed) ==
    IF "UNSTABLE" \in {st, to} THEN to = "UNSTABLE" ELSE armed

FailedAfter(to, failed) == IF to = "STABLE" THEN 0 ELSE failed

\* connection_mon_fsm_handle_event_internal, but for the entry to LOST.
MonStep(s, e) ==
    LET to == MonNext(s.mon, e)
    IN  IF to = "ERROR"
        THEN Check(s, FALSE)
        ELSE [s EXCEPT !.mon = to,
                       !.monTimer = TimerAfter(s.mon, to, @),
                       !.failed = FailedAfter(to, @)]

\* connection_mon_fsm_handle_event for an event that cannot lead to LOST.
\* While another event is handled, one more waits; a second is an error.
MonHandle(s, e) ==
    IF ~s.inMon
    THEN MonStep(s, e)
    ELSE [Check(s, s.pending = "NONE") EXCEPT !.pending = e]

\* umac_connection_set_monitor_disable
SetMonitorDisable(s, off) ==
    CASE s.monOff = off ->
           s
      [] s.monOff # off /\ s.conn # "CONNECTED" ->
           [Check(s, s.mon = "DISABLED") EXCEPT !.monOff = off]
      [] OTHER ->
           [MonHandle(s, IF off THEN "STOP" ELSE "START") EXCEPT !.monOff = off]

-----------------------------------------------------------------------------
(* WNM sleep: umac_wnm_sleep.c and wnm_sleep_fsm                           *)

\* data->callback(umacd, status, data->arg); data->callback = NULL
Answer(s, status) ==
    IF s.callback THEN [s EXCEPT !.callback = FALSE, !.reply = status] ELSE s

\* Mutant of HandleHwRestarted: a connected station is not restored.
HandleHwRestartedForgets(s) ==
    IF s.mode = "STA" THEN DrvSetSta(s, "NONE") ELSE s

\* umac_connection_handle_hw_restarted, with the WNM_SLEEP_EVENT_HW_RESTARTED
\* report it makes while connected.
HandleHwRestarted(s) ==
    LET none == DrvSetSta(s, "NONE")
        auth == DrvSetSta(none, "AUTHORIZED")
    IN  CASE s.mode # "STA" -> s
          [] s.mode = "STA" /\ s.conn # "CONNECTED" -> none
          [] s.mode = "STA" /\ s.conn = "CONNECTED" /\ s.wnm # "ACTIVE" -> auth
          [] OTHER -> DrvSetWnm([auth EXCEPT !.veto = TRUE], TRUE)

\* Mutant of ExitStatus: a lost connection ends every request with success.
ExitStatusLostIsSuccess(st, e) ==
    CASE e \in {"ENTRY_CONFIRMED", "EXIT_CONFIRMED", "CONNECTION_LOST"} ->
           "SUCCESS"
      [] e = "RETRIES_EXHAUSTED" -> "TIMED_OUT"
      [] OTHER -> "ERROR"

\* The status that leaving a *_REQUESTED state gives the waiting caller.
ExitStatus(st, e) ==
    CASE st = "ENTRY_REQUESTED" /\ e = "ENTRY_CONFIRMED" -> "SUCCESS"
      [] st = "EXIT_REQUESTED" /\ e \in {"EXIT_CONFIRMED", "CONNECTION_LOST"} ->
           "SUCCESS"
      [] e = "RETRIES_EXHAUSTED" -> "TIMED_OUT"
      [] OTHER -> "ERROR"

\* Mutant of RequestedExit: the retry timeout is not cancelled.
RequestedExitTimerArmed(s, e) ==
    IF e = "RETRY_REQUEST" THEN s ELSE Answer(s, ExitStatus(s.wnm, e))

\* wnm_sleep_fsm_entry_requested_exit and wnm_sleep_fsm_exit_requested_exit
RequestedExit(s, e) ==
    LET quiet == [s EXCEPT !.wnmTimer = FALSE]
    IN  IF e = "RETRY_REQUEST" THEN quiet ELSE Answer(quiet, ExitStatus(s.wnm, e))

\* wnm_sleep_fsm_entry_requested_entry and wnm_sleep_fsm_exit_requested_entry
RequestedEntry(s) == [s EXCEPT !.wnmTimer = TRUE]

\* wnm_sleep_fsm_active_entry
ActiveEntry(s) ==
    LET low == IF s.powerdown THEN DrvDeinit(s) ELSE DrvSetWnm(s, TRUE)
    IN  SetMonitorDisable([low EXCEPT !.paused = TRUE, !.veto = TRUE], TRUE)

\* Mutant of ActiveExit: a powered down station stays paused.
ActiveExitPaused(s) ==
    LET up == IF s.powerdown
              THEN [HandleHwRestarted(DrvInit(s)) EXCEPT !.powerdown = FALSE]
              ELSE [DrvSetWnm(s, FALSE) EXCEPT !.paused = FALSE]
    IN  SetMonitorDisable([up EXCEPT !.veto = FALSE], FALSE)

\* wnm_sleep_fsm_active_exit
ActiveExit(s) ==
    LET up == IF s.powerdown
              THEN [HandleHwRestarted(DrvInit(s)) EXCEPT !.powerdown = FALSE]
              ELSE DrvSetWnm(s, FALSE)
    IN  SetMonitorDisable([up EXCEPT !.paused = FALSE, !.veto = FALSE], FALSE)

\* wnm_sleep_fsm_table; "ERROR" where there is no row.
WnmNext(st, e) ==
    CASE e = "CONNECTION_LOST" /\ st # "IDLE" -> "IDLE"
      [] e = "EXIT_CONFIRMED" /\ st = "EXIT_REQUESTED" -> "IDLE"
      [] e = "RETRIES_EXHAUSTED"
           /\ st \in {"ENTRY_REQUESTED", "EXIT_REQUESTED"} -> "IDLE"
      [] e = "ENABLE" /\ st \in {"EXIT_REQUESTED", "IDLE"} -> "ENTRY_REQUESTED"
      [] e = "DISABLE" /\ st \in {"ACTIVE", "ENTRY_REQUESTED"} ->
           "EXIT_REQUESTED"
      [] e = "ENTRY_CONFIRMED" /\ st = "ENTRY_REQUESTED" -> "ACTIVE"
      [] e = "RETRY_REQUEST"
           /\ st \in {"ENTRY_REQUESTED", "EXIT_REQUESTED"} -> st
      [] OTHER -> "ERROR"

WnmLeave(s, e) ==
    CASE s.wnm \in {"ENTRY_REQUESTED", "EXIT_REQUESTED"} -> RequestedExit(s, e)
      [] s.wnm = "ACTIVE" -> ActiveExit(s)
      [] OTHER -> s

WnmEnter(s) ==
    CASE s.wnm \in {"ENTRY_REQUESTED", "EXIT_REQUESTED"} -> RequestedEntry(s)
      [] s.wnm = "ACTIVE" -> ActiveEntry(s)
      [] OTHER -> s

\* wnm_sleep_fsm_handle_event
WnmHandle(s, e) ==
    LET to == WnmNext(s.wnm, e)
    IN  IF to = "ERROR"
        THEN Check(s, FALSE)
        ELSE WnmEnter([WnmLeave(s, e) EXCEPT !.wnm = to])

\* The states in which umac_wnm_sleep_report_event passes an event on.
Expects(e) ==
    CASE e = "ENABLE" -> {"IDLE", "EXIT_REQUESTED"}
      [] e = "DISABLE" -> {"ACTIVE", "ENTRY_REQUESTED"}
      [] e = "ENTRY_CONFIRMED" -> {"ENTRY_REQUESTED"}
      [] e = "EXIT_CONFIRMED" -> {"EXIT_REQUESTED"}
      [] OTHER -> WnmState \ {"IDLE"}

\* umac_wnm_sleep_report_event: asserts that the station is connected; turns
\* down a request that its state has no use for and ignores other events.
Report(s, e) ==
    LET c == Check(s, s.mode = "STA" /\ s.conn = "CONNECTED")
    IN  CASE s.wnm \in Expects(e) -> WnmHandle(c, e)
          [] s.wnm \notin Expects(e) /\ e \in {"ENABLE", "DISABLE"} ->
               Answer(c, "UNAVAILABLE")
          [] OTHER -> c

-----------------------------------------------------------------------------
(* The connection: connection_fsm                                          *)

\* Mutant of ConnectedExit: the monitor is not stopped.
ConnectedExitMonitorOn(s) == Report(s, "CONNECTION_LOST")

\* connection_fsm_connected_exit
ConnectedExit(s) ==
    LET awake == Report(s, "CONNECTION_LOST")
    IN  IF awake.monOff THEN awake ELSE MonHandle(awake, "STOP")

\* Mutant of DisconnectedEntry: power save stays suspended.
DisconnectedEntrySuspended(s) == DrvSetSta(s, "NONE")

\* The entry to DISCONNECTED, from which every state can be left for it.
DisconnectedEntry(s) == SetSuspended(DrvSetSta(s, "NONE"), FALSE)

\* CONNECTION_FSM_EVENT_DISCONNECT
Disconnect(s) ==
    LET left == IF s.conn = "CONNECTED" THEN ConnectedExit(s) ELSE s
        down == [left EXCEPT !.conn = "DISCONNECTED"]
    IN  IF s.conn = "DISCONNECTED" THEN s ELSE DisconnectedEntry(down)

\* CONNECTION_FSM_EVENT_AUTH_REQUEST
Authenticating(s) == SetSuspended([s EXCEPT !.conn = "AUTHENTICATING"], TRUE)

\* CONNECTION_FSM_EVENT_ASSOC_REQUEST
Connecting(s) == DrvSetSta([s EXCEPT !.conn = "CONNECTING"], "AUTHENTICATED")

\* CONNECTION_FSM_EVENT_SUPP_PORT_OPEN
Connected(s) ==
    LET up == DrvSetSta(SetSuspended([s EXCEPT !.conn = "CONNECTED"], FALSE),
                        "AUTHORIZED")
    IN  IF up.monOff THEN up ELSE MonHandle(up, "START")

\* connection_mon_fsm_handle_event for UNRESPONSIVE: the entry to LOST calls
\* umac_supp_process_deauth, through which the supplicant closes the port, and
\* the event that this leaves pending is handled before the call returns.
MonUnresponsive(s) ==
    LET lost == MonStep([s EXCEPT !.inMon = TRUE], "UNRESPONSIVE")
        shut == Disconnect(lost)
        last == IF shut.pending = "NONE" THEN shut ELSE MonStep(shut, shut.pending)
    IN  [last EXCEPT !.pending = "NONE", !.inMon = FALSE]

\* umac_connection_process_failed_ap_query
FailedApQuery(s) ==
    LET f == [s EXCEPT !.failed = @ + 1]
    IN  IF f.failed >= MaxQueries THEN MonUnresponsive(f) ELSE f

-----------------------------------------------------------------------------
Init ==
    /\ umacd = [ mode |-> "NONE", conn |-> "DISABLED", suspended |-> FALSE,
                 mon |-> "DISABLED", inMon |-> FALSE, pending |-> "NONE",
                 monOff |-> FALSE, failed |-> 0, monTimer |-> FALSE,
                 wnm |-> "IDLE", callback |-> FALSE, reply |-> "NONE",
                 retry |-> 0, wnmTimer |-> FALSE, powerdown |-> FALSE,
                 paused |-> FALSE, veto |-> FALSE, started |-> FALSE,
                 chipWnm |-> FALSE, chipSta |-> "NONE", fault |-> "NONE" ]
    /\ api = [phase |-> "idle", enabled |-> FALSE, powerdown |-> FALSE]
    /\ restarts = 0

Running == umacd.fault = "NONE"

\* A hardware restart is queued ahead of the other events of the queue
\* (umac_core_evt_queue_at_start), but not ahead of frames and timeouts.
FrontOfQueue == restarts = 0

\* One handler of the event loop, run to completion.
Handle(s) ==
    /\ Running
    /\ umacd' = s
    /\ UNCHANGED <<api, restarts>>

-----------------------------------------------------------------------------
(* Starting and stopping the station                                       *)

\* umac_connection_start: the first interface boots the driver, and adding the
\* supplicant's interface closes the port.  For a station already started it
\* reloads the supplicant, which disconnects.
Start ==
    /\ api.phase = "idle"
    /\ FrontOfQueue
    /\ IF umacd.mode = "NONE"
       THEN Handle(Disconnect([DrvInit(umacd) EXCEPT !.mode = "STA"]))
       ELSE Handle(Disconnect(umacd))

\* umac_connection_stop, of which the application and a fatal error are the
\* callers: disconnect, then remove the interface, the last of which takes the
\* driver down and resets power save.
Stop ==
    /\ umacd.mode = "STA"
    /\ LET off == DrvDeinit(Disconnect(umacd))
       IN  Handle([off EXCEPT !.mode = "NONE", !.suspended = FALSE])

-----------------------------------------------------------------------------
(* The supplicant                                                          *)

\* mmwpas_authenticate: umac_connection_process_auth_req
AuthRequest ==
    /\ umacd.mode = "STA"
    /\ umacd.conn \in {"DISCONNECTED", "AUTHENTICATING", "CONNECTING"}
    /\ Handle(Authenticating(umacd))

\* mmwpas_associate: umac_connection_process_assoc_req
AssocRequest ==
    /\ umacd.mode = "STA"
    /\ umacd.conn = "AUTHENTICATING"
    /\ Handle(Connecting(umacd))

\* mmwpas_set_supp_port(1): umac_connection_handle_port_state
PortOpen ==
    /\ umacd.mode = "STA"
    /\ umacd.conn = "CONNECTING"
    /\ Handle(Connected(umacd))

\* mmwpas_deauthenticate: umac_connection_process_deauth_tx, and the port
\* closing, also after a deauthentication or disassociation was received.
Deauth ==
    /\ umacd.mode = "STA"
    /\ Handle(Disconnect(umacd))

\* mmwpas_wnm_oper: the supplicant reports an answer of the AP.
WnmConfirmed(e) ==
    /\ umacd.mode = "STA"
    /\ umacd.conn = "CONNECTED"
    /\ umacd.started
    /\ Handle(Report(umacd, e))

-----------------------------------------------------------------------------
(* The connection monitor                                                  *)

\* Mutant of BeaconLoss: the state of the monitor is not looked at.
BeaconLossUnchecked ==
    /\ FrontOfQueue
    /\ ~umacd.monOff
    /\ Handle(MonHandle(umacd, "BEACON_LOSS"))

\* beacon_loss_evt_handler: umac_connection_handle_beacon_loss
BeaconLoss ==
    /\ FrontOfQueue
    /\ umacd.mon \in {"STABLE", "UNSTABLE"}
    /\ ~umacd.monOff
    /\ Handle(MonHandle(umacd, "BEACON_LOSS"))

\* umac_connection_handle_ack_status, for a frame that was acknowledged and
\* for a null frame that was not.
FrameAcked ==
    /\ umacd.mon = "UNSTABLE"
    /\ ~umacd.monOff
    /\ Handle(MonHandle(umacd, "ACKED"))

NullFrameLost ==
    /\ umacd.mon = "UNSTABLE"
    /\ ~umacd.monOff
    /\ Handle(FailedApQuery(umacd))

\* umac_connection_monitor_check: the timeout has fired; in UNSTABLE it is
\* armed again and a null frame is sent.
MonitorCheck(sent) ==
    LET s == [umacd EXCEPT !.monTimer = FALSE]
        again == [s EXCEPT !.monTimer = TRUE]
    IN  /\ umacd.monTimer
        /\ Handle(CASE s.mon # "UNSTABLE" -> s
                    [] s.mon = "UNSTABLE" /\ sent -> again
                    [] OTHER -> FailedApQuery(again))

-----------------------------------------------------------------------------
(* WNM sleep requests                                                      *)

\* mmwlan_set_wnm_sleep_enabled_ext queues its event and waits.
ApiRequest(enabled, powerdown) ==
    /\ Running
    /\ api.phase = "idle"
    /\ api' = [phase |-> "queued", enabled |-> enabled, powerdown |-> powerdown]
    /\ UNCHANGED <<umacd, restarts>>

\* umac_wnm_sleep_register_semb
RegisterSemb(s) == [s EXCEPT !.callback = TRUE, !.retry = 0]

\* umac_wnm_sleep_set_chip_powerdown
SetChipPowerdown(s, on) ==
    IF s.wnm \in {"ENTRY_REQUESTED", "ACTIVE"}
    THEN s
    ELSE [s EXCEPT !.powerdown = on]

\* umac_set_wnm_sleep_evt_handler
SetWnmSleep ==
    LET s == RegisterSemb(umacd)
        refused == [umacd EXCEPT !.reply = "UNAVAILABLE"]
    IN  /\ Running
        /\ api.phase = "queued"
        /\ FrontOfQueue
        /\ api' = [api EXCEPT !.phase = "waiting"]
        /\ umacd' =
             CASE umacd.mode # "STA" \/ umacd.conn # "CONNECTED" -> refused
               [] umacd.mode = "STA" /\ umacd.conn = "CONNECTED"
                    /\ umacd.callback -> refused
               [] OTHER ->
                    IF api.enabled
                    THEN Report(SetChipPowerdown(s, api.powerdown), "ENABLE")
                    ELSE Report(s, "DISABLE")
        /\ UNCHANGED restarts

\* The semaphore was given: the call returns the status.
ApiReturn ==
    /\ Running
    /\ api.phase = "waiting"
    /\ umacd.reply # "NONE"
    /\ api' = [phase |-> "idle", enabled |-> FALSE, powerdown |-> FALSE]
    /\ umacd' = [umacd EXCEPT !.reply = "NONE"]
    /\ UNCHANGED restarts

\* Mutant of WnmRetry: retries are not counted.
WnmRetryUncounted ==
    LET s == [umacd EXCEPT !.wnmTimer = FALSE]
    IN  /\ umacd.wnmTimer
        /\ IF s.retry < MaxRetry
           THEN Handle(WnmHandle(s, "RETRY_REQUEST"))
           ELSE Handle(WnmHandle(s, "RETRIES_EXHAUSTED"))

\* umac_wnm_sleep_retry_request
WnmRetry ==
    LET s == [umacd EXCEPT !.wnmTimer = FALSE]
    IN  /\ umacd.wnmTimer
        /\ IF s.retry < MaxRetry
           THEN Handle(WnmHandle([s EXCEPT !.retry = @ + 1], "RETRY_REQUEST"))
           ELSE Handle(WnmHandle(s, "RETRIES_EXHAUSTED"))

-----------------------------------------------------------------------------
(* Hardware restart                                                        *)

\* Mutant of RestartRequired: the event is queued twice.
RestartRequiredTwice ==
    /\ Running
    /\ umacd.started
    /\ restarts < MaxRestarts
    /\ restarts' = restarts + 2
    /\ UNCHANGED <<umacd, api>>

\* mmdrv_host_hw_restart_required, from the driver task on a stop notification
\* of the chip or from a failed health check.
RestartRequired ==
    /\ Running
    /\ umacd.started
    /\ restarts < MaxRestarts
    /\ restarts' = restarts + 1
    /\ UNCHANGED <<umacd, api>>

\* hw_restart_evt_handler
HwRestart ==
    LET off == DrvDeinit(umacd)
    IN  /\ Running
        /\ restarts > 0
        /\ restarts' = restarts - 1
        /\ umacd' = CASE umacd.mode = "NONE" -> umacd
                      [] umacd.mode = "STA" /\ ~umacd.started -> off
                      [] OTHER -> HandleHwRestarted(DrvInit(off))
        /\ UNCHANGED api

-----------------------------------------------------------------------------
Supplicant ==
    \/ AuthRequest
    \/ AssocRequest
    \/ PortOpen
    \/ Deauth
    \/ WnmConfirmed("ENTRY_CONFIRMED")
    \/ WnmConfirmed("EXIT_CONFIRMED")

Monitor ==
    \/ BeaconLoss
    \/ FrameAcked
    \/ NullFrameLost
    \/ \E sent \in BOOLEAN : MonitorCheck(sent)

Sleep ==
    \/ \E on \in BOOLEAN, p \in Powerdown : ApiRequest(on, p)
    \/ SetWnmSleep
    \/ ApiReturn
    \/ WnmRetry

Next ==
    \/ Start
    \/ Stop
    \/ Supplicant
    \/ Monitor
    \/ Sleep
    \/ RestartRequired
    \/ HwRestart

Spec == Init /\ [][Next]_vars

\* The event loop serves its queue and its timeouts, and a task whose
\* semaphore was given goes on.  Strong fairness for the queued request says
\* that the chip does not demand a restart before every single dequeue.  The
\* supplicant, the AP and the application owe nothing.
Fairness ==
    /\ SF_vars(SetWnmSleep)
    /\ WF_vars(HwRestart)
    /\ WF_vars(WnmRetry)
    /\ WF_vars(ApiReturn)

FairSpec == Spec /\ Fairness

-----------------------------------------------------------------------------
(* Properties                                                              *)

TypeOK ==
    /\ umacd \in Umac
    /\ api \in [phase : {"idle", "queued", "waiting"},
               enabled : BOOLEAN,
               powerdown : BOOLEAN]
    /\ restarts \in 0 .. MaxRestarts

\* However the three state machines call each other, none of them gets an
\* event it has no row for, none is re-entered with an event already pending,
\* and no development assertion of the handlers fails.
NoEventFault == umacd.fault # "EVENT"

\* Between two handlers the monitor runs exactly while the station is
\* connected and not asleep, it is never left in LOST or with an event
\* pending, and its timeout is armed exactly while it is UNSTABLE
\* (umac_connection.c).
MonitorFollows ==
    /\ umacd.mon # "DISABLED" <=> umacd.conn = "CONNECTED" /\ ~umacd.monOff
    /\ umacd.mon # "LOST"
    /\ ~umacd.inMon
    /\ umacd.pending = "NONE"
    /\ umacd.monTimer <=> umacd.mon = "UNSTABLE"

\* The pause of the data path, the veto on health checks and the silencing of
\* the monitor start and end with WNM sleep, on every path out of it, and
\* WNM sleep never outlives the connection (umac_wnm_sleep.c).
SleepFollows ==
    /\ umacd.paused <=> umacd.wnm = "ACTIVE"
    /\ umacd.veto <=> umacd.wnm = "ACTIVE"
    /\ umacd.monOff <=> umacd.wnm = "ACTIVE"
    /\ umacd.wnm # "IDLE" => umacd.mode = "STA" /\ umacd.conn = "CONNECTED"

\* A WNM sleep request is owned by exactly one caller until it is answered: a
\* negotiation is under way exactly while a caller waits for its answer, in
\* the direction that caller asked for, and exactly then the retry timeout
\* that bounds the wait is armed.
RequestOwned ==
    LET negotiating == umacd.wnm \in {"ENTRY_REQUESTED", "EXIT_REQUESTED"}
    IN  /\ umacd.callback <=> negotiating
        /\ umacd.wnmTimer <=> negotiating
        /\ umacd.callback <=> api.phase = "waiting" /\ umacd.reply = "NONE"
        /\ umacd.reply # "NONE" => api.phase = "waiting"
        /\ umacd.callback => (api.enabled <=> umacd.wnm = "ENTRY_REQUESTED")
        /\ umacd.retry <= MaxRetry

\* The driver is up exactly while the station is, but for WNM sleep with the
\* chip powered down; after every restart of the chip it knows the station as
\* authorised if that is connected, and sleeps if that is asleep.  A stopped
\* station is never left in the middle of a connection.
DriverFollows ==
    /\ umacd.started <=>
         umacd.mode = "STA" /\ ~(umacd.wnm = "ACTIVE" /\ umacd.powerdown)
    /\ umacd.started /\ umacd.conn = "CONNECTED" => umacd.chipSta = "AUTHORIZED"
    /\ umacd.started /\ umacd.wnm = "ACTIVE" => umacd.chipWnm
    /\ umacd.conn = "DISCONNECTED" => umacd.chipSta = "NONE"
    /\ umacd.mode = "STA" => umacd.conn # "DISABLED"
    /\ umacd.mode = "NONE" => umacd.conn \in {"DISABLED", "DISCONNECTED"}

\* Power save is suspended exactly from the authentication request until the
\* connection is up or given up (connection_fsm_*_entry).
PowerSaveFollows ==
    umacd.suspended <=> umacd.conn \in {"AUTHENTICATING", "CONNECTING"}

\* A request to enter WNM sleep succeeds only by entering it: no stale
\* confirmation, retry or loss of the link is reported as success.
EntrySuccessMeansAsleep ==
    [][ /\ umacd.reply = "NONE"
        /\ umacd'.reply = "SUCCESS"
        /\ api'.enabled
        => umacd.wnm = "ENTRY_REQUESTED" /\ umacd'.wnm = "ACTIVE" ]_vars

\* Whatever the AP and the supplicant do or fail to do, a call of
\* mmwlan_set_wnm_sleep_enabled_ext returns (unless the program asserted):
\* retries are counted, and the last one gives up.  A chip that asks for restart
\* after restart, each before the last is done with, starves the call: its
\* requests go to the front of the event queue.
RequestAnswered ==
    []<>(restarts = 0) =>
        (api.phase = "queued" ~> api.phase = "idle" \/ umacd.fault # "NONE")

-----------------------------------------------------------------------------
(* What the documentation says and the code does not do: none of these is a  *)
(* property of the specification (README, Deviations).                       *)

\* mmwlan.h, of a request to leave WNM sleep: "the chip will exit low power
\* mode regardless of whether or not the exit request was successful".
ChipAwake == umacd.wnm = "EXIT_REQUESTED" => ~umacd.chipWnm

\* mmwlan.h, of an exit request that the AP answers by deauthenticating: "the
\* station will bring down the connection and return @ref MMWLAN_ERROR".
LostExitIsError ==
    [][ /\ umacd.wnm = "EXIT_REQUESTED"
        /\ umacd'.mode = "STA"
        /\ umacd'.conn # "CONNECTED"
        => umacd'.reply = "ERROR" ]_vars

\* driver.c: MMOSAL_ASSERT(driver_data.started) in mmdrv_deinit.
DriverStartedAtDeinit == umacd.fault # "DRIVER"
=============================================================================
