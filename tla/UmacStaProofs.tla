--------------------------- MODULE UmacStaProofs ----------------------------
(***************************************************************************)
(* The inductive invariant of UmacSta, that every handler of the station   *)
(* preserves it, and the theorems that follow, for every number of         *)
(* retries, of failed queries and of pending hardware restarts.  A handler *)
(* is an operator from the station's record to the record it leaves.       *)
(*                                                                         *)
(* The first part is about the operators alone: which fields of the        *)
(* record each of them changes, to what, and which it leaves alone.  Each  *)
(* lemma is about one function of the code in the states in which the      *)
(* handlers call it, and says that no assertion of that function fails     *)
(* there.                                                                  *)
(***************************************************************************)
EXTENDS UmacSta, TLAPS

-----------------------------------------------------------------------------
(* Frames, and updates of single fields                                    *)

\* The groups of fields that an operator may leave alone.
SameConn(s, t) ==
    /\ t.mode = s.mode /\ t.conn = s.conn /\ t.suspended = s.suspended

SameMonitor(s, t) ==
    /\ t.mon = s.mon /\ t.inMon = s.inMon /\ t.pending = s.pending
    /\ t.monOff = s.monOff /\ t.failed = s.failed /\ t.monTimer = s.monTimer

SameRequest(s, t) ==
    /\ t.wnm = s.wnm /\ t.callback = s.callback /\ t.reply = s.reply
    /\ t.retry = s.retry /\ t.wnmTimer = s.wnmTimer /\ t.powerdown = s.powerdown

SameSleep(s, t) ==
    /\ t.paused = s.paused /\ t.veto = s.veto

SameDriver(s, t) ==
    /\ t.started = s.started /\ t.chipWnm = s.chipWnm /\ t.chipSta = s.chipSta

SameFault(s, t) ==
    /\ t.fault = s.fault

\* mode alone, as umac_connection_start writes it.
LEMMA SetMode ==
    ASSUME NEW s \in Umac, NEW t,
           NEW v \in Mode,
           t = [s EXCEPT !.mode = v]
    PROVE  /\ t \in Umac
           /\ t.mode = v /\ t.conn = s.conn /\ t.suspended = s.suspended
           /\ SameMonitor(s, t) /\ SameRequest(s, t) /\ SameSleep(s, t)
           /\ SameDriver(s, t) /\ SameFault(s, t)
  BY DEF Umac, SameMonitor, SameRequest, SameSleep, SameDriver, SameFault

\* conn_fsm.current_state alone.
LEMMA SetConn ==
    ASSUME NEW s \in Umac, NEW t,
           NEW v \in ConnState,
           t = [s EXCEPT !.conn = v]
    PROVE  /\ t \in Umac
           /\ t.mode = s.mode /\ t.conn = v /\ t.suspended = s.suspended
           /\ SameMonitor(s, t) /\ SameRequest(s, t) /\ SameSleep(s, t)
           /\ SameDriver(s, t) /\ SameFault(s, t)
  BY DEF Umac, SameMonitor, SameRequest, SameSleep, SameDriver, SameFault

\* umac_ps_data.suspended alone.
LEMMA SetPs ==
    ASSUME NEW s \in Umac, NEW t,
           NEW v \in BOOLEAN,
           t = [s EXCEPT !.suspended = v]
    PROVE  /\ t \in Umac
           /\ t.mode = s.mode /\ t.conn = s.conn /\ t.suspended = v
           /\ SameMonitor(s, t) /\ SameRequest(s, t) /\ SameSleep(s, t)
           /\ SameDriver(s, t) /\ SameFault(s, t)
  BY DEF Umac, SameMonitor, SameRequest, SameSleep, SameDriver, SameFault

\* in_event_handler alone, as connection_mon_fsm_handle_event raises it.
LEMMA SetInMon ==
    ASSUME NEW s \in Umac, NEW t,
           NEW v \in BOOLEAN,
           t = [s EXCEPT !.inMon = v]
    PROVE  /\ t \in Umac
           /\ t.mon = s.mon /\ t.inMon = v /\ t.pending = s.pending
           /\ t.monOff = s.monOff /\ t.failed = s.failed
           /\ t.monTimer = s.monTimer
           /\ SameConn(s, t) /\ SameRequest(s, t) /\ SameSleep(s, t)
           /\ SameDriver(s, t) /\ SameFault(s, t)
  BY DEF Umac, SameConn, SameRequest, SameSleep, SameDriver, SameFault

\* pending_event alone, as a re-entrant event leaves it.
LEMMA SetPending ==
    ASSUME NEW s \in Umac, NEW t,
           NEW v \in MonEvent \cup {"NONE"},
           t = [s EXCEPT !.pending = v]
    PROVE  /\ t \in Umac
           /\ t.mon = s.mon /\ t.inMon = s.inMon /\ t.pending = v
           /\ t.monOff = s.monOff /\ t.failed = s.failed
           /\ t.monTimer = s.monTimer
           /\ SameConn(s, t) /\ SameRequest(s, t) /\ SameSleep(s, t)
           /\ SameDriver(s, t) /\ SameFault(s, t)
  BY DEF Umac, SameConn, SameRequest, SameSleep, SameDriver, SameFault

\* failed_ap_queries alone.
LEMMA SetFailed ==
    ASSUME NEW s \in Umac, NEW t,
           NEW v \in Nat,
           t = [s EXCEPT !.failed = v]
    PROVE  /\ t \in Umac
           /\ t.mon = s.mon /\ t.inMon = s.inMon /\ t.pending = s.pending
           /\ t.monOff = s.monOff /\ t.failed = v /\ t.monTimer = s.monTimer
           /\ SameConn(s, t) /\ SameRequest(s, t) /\ SameSleep(s, t)
           /\ SameDriver(s, t) /\ SameFault(s, t)
  BY DEF Umac, SameConn, SameRequest, SameSleep, SameDriver, SameFault

\* wnm_sleep fsm_inst.current_state alone.
LEMMA SetWnm ==
    ASSUME NEW s \in Umac, NEW t,
           NEW v \in WnmState,
           t = [s EXCEPT !.wnm = v]
    PROVE  /\ t \in Umac
           /\ t.wnm = v /\ t.callback = s.callback /\ t.reply = s.reply
           /\ t.retry = s.retry /\ t.wnmTimer = s.wnmTimer
           /\ t.powerdown = s.powerdown
           /\ SameConn(s, t) /\ SameMonitor(s, t) /\ SameSleep(s, t)
           /\ SameDriver(s, t) /\ SameFault(s, t)
  BY DEF Umac, SameConn, SameMonitor, SameSleep, SameDriver, SameFault

\* *status alone, as umac_set_wnm_sleep_evt_handler refuses a request.
LEMMA SetReply ==
    ASSUME NEW s \in Umac, NEW t,
           NEW v \in Status \cup {"NONE"},
           t = [s EXCEPT !.reply = v]
    PROVE  /\ t \in Umac
           /\ t.wnm = s.wnm /\ t.callback = s.callback /\ t.reply = v
           /\ t.retry = s.retry /\ t.wnmTimer = s.wnmTimer
           /\ t.powerdown = s.powerdown
           /\ SameConn(s, t) /\ SameMonitor(s, t) /\ SameSleep(s, t)
           /\ SameDriver(s, t) /\ SameFault(s, t)
  BY DEF Umac, SameConn, SameMonitor, SameSleep, SameDriver, SameFault

\* retry_counter alone.
LEMMA SetRetry ==
    ASSUME NEW s \in Umac, NEW t,
           NEW v \in Nat,
           t = [s EXCEPT !.retry = v]
    PROVE  /\ t \in Umac
           /\ t.wnm = s.wnm /\ t.callback = s.callback /\ t.reply = s.reply
           /\ t.retry = v /\ t.wnmTimer = s.wnmTimer
           /\ t.powerdown = s.powerdown
           /\ SameConn(s, t) /\ SameMonitor(s, t) /\ SameSleep(s, t)
           /\ SameDriver(s, t) /\ SameFault(s, t)
  BY DEF Umac, SameConn, SameMonitor, SameSleep, SameDriver, SameFault

\* chip_powerdown_enabled alone.
LEMMA SetPowerdown ==
    ASSUME NEW s \in Umac, NEW t,
           NEW v \in BOOLEAN,
           t = [s EXCEPT !.powerdown = v]
    PROVE  /\ t \in Umac
           /\ t.wnm = s.wnm /\ t.callback = s.callback /\ t.reply = s.reply
           /\ t.retry = s.retry /\ t.wnmTimer = s.wnmTimer /\ t.powerdown = v
           /\ SameConn(s, t) /\ SameMonitor(s, t) /\ SameSleep(s, t)
           /\ SameDriver(s, t) /\ SameFault(s, t)
  BY DEF Umac, SameConn, SameMonitor, SameSleep, SameDriver, SameFault

\* The driver and the chip, as mmdrv_init and mmdrv_deinit leave them.
LEMMA SetDriver ==
    ASSUME NEW s \in Umac, NEW t,
           NEW v1 \in BOOLEAN,
           NEW v2 \in BOOLEAN,
           NEW v3 \in ChipSta,
           t = [s EXCEPT !.started = v1, !.chipWnm = v2, !.chipSta = v3]
    PROVE  /\ t \in Umac
           /\ t.started = v1 /\ t.chipWnm = v2 /\ t.chipSta = v3
           /\ SameConn(s, t) /\ SameMonitor(s, t) /\ SameRequest(s, t)
           /\ SameSleep(s, t) /\ SameFault(s, t)
  BY DEF Umac, SameConn, SameMonitor, SameRequest, SameSleep, SameFault

\* The WNM sleep mode of the chip alone.
LEMMA SetChipWnm ==
    ASSUME NEW s \in Umac, NEW t,
           NEW v \in BOOLEAN,
           t = [s EXCEPT !.chipWnm = v]
    PROVE  /\ t \in Umac
           /\ t.started = s.started /\ t.chipWnm = v /\ t.chipSta = s.chipSta
           /\ SameConn(s, t) /\ SameMonitor(s, t) /\ SameRequest(s, t)
           /\ SameSleep(s, t) /\ SameFault(s, t)
  BY DEF Umac, SameConn, SameMonitor, SameRequest, SameSleep, SameFault

\* The station as the chip knows it, alone.
LEMMA SetChipSta ==
    ASSUME NEW s \in Umac, NEW t,
           NEW v \in ChipSta,
           t = [s EXCEPT !.chipSta = v]
    PROVE  /\ t \in Umac
           /\ t.started = s.started /\ t.chipWnm = s.chipWnm /\ t.chipSta = v
           /\ SameConn(s, t) /\ SameMonitor(s, t) /\ SameRequest(s, t)
           /\ SameSleep(s, t) /\ SameFault(s, t)
  BY DEF Umac, SameConn, SameMonitor, SameRequest, SameSleep, SameFault

-----------------------------------------------------------------------------
(* The driver, the chip and power save                                     *)

\* mmdrv_init starts the driver and touches nothing of the UMAC.
LEMMA DrvInitEffect ==
    ASSUME NEW s \in Umac
    PROVE  LET t == DrvInit(s) IN
           /\ t \in Umac
           /\ t.started = TRUE /\ t.chipWnm = FALSE /\ t.chipSta = "NONE"
           /\ SameConn(s, t) /\ SameMonitor(s, t) /\ SameRequest(s, t)
           /\ SameSleep(s, t) /\ SameFault(s, t)
  BY SetDriver DEF DrvInit, ChipSta

\* mmdrv_deinit of a started driver does not assert and touches nothing of
\* the UMAC.
LEMMA DrvDeinitEffect ==
    ASSUME NEW s \in Umac, s.started = TRUE
    PROVE  LET t == DrvDeinit(s) IN
           /\ t \in Umac
           /\ t.started = FALSE /\ t.chipWnm = FALSE /\ t.chipSta = "NONE"
           /\ SameConn(s, t) /\ SameMonitor(s, t) /\ SameRequest(s, t)
           /\ SameSleep(s, t) /\ SameFault(s, t)
  BY SetDriver DEF DrvDeinit, ChipSta

\* mmdrv_set_wnm_sleep_enabled on a started driver.
LEMMA DrvSetWnmEffect ==
    ASSUME NEW s \in Umac, NEW on \in BOOLEAN, s.started = TRUE
    PROVE  LET t == DrvSetWnm(s, on) IN
           /\ t \in Umac
           /\ t.started = TRUE /\ t.chipWnm = on /\ t.chipSta = s.chipSta
           /\ SameConn(s, t) /\ SameMonitor(s, t) /\ SameRequest(s, t)
           /\ SameSleep(s, t) /\ SameFault(s, t)
  BY SetChipWnm DEF DrvSetWnm

\* mmdrv_update_sta_state on a started driver.
LEMMA DrvSetStaEffect ==
    ASSUME NEW s \in Umac, NEW st \in ChipSta, s.started = TRUE
    PROVE  LET t == DrvSetSta(s, st) IN
           /\ t \in Umac
           /\ t.started = TRUE /\ t.chipWnm = s.chipWnm /\ t.chipSta = st
           /\ SameConn(s, t) /\ SameMonitor(s, t) /\ SameRequest(s, t)
           /\ SameSleep(s, t) /\ SameFault(s, t)
  BY SetChipSta DEF DrvSetSta

\* umac_ps_set_suspended on a started driver does not assert.
LEMMA SetSuspendedEffect ==
    ASSUME NEW s \in Umac, NEW on \in BOOLEAN, s.started = TRUE
    PROVE  LET t == SetSuspended(s, on) IN
           /\ t \in Umac
           /\ t.mode = s.mode /\ t.conn = s.conn /\ t.suspended = on
           /\ SameMonitor(s, t) /\ SameRequest(s, t) /\ SameSleep(s, t)
           /\ SameDriver(s, t) /\ SameFault(s, t)
  <1>1. CASE s.suspended = on
    BY <1>1 DEF SetSuspended, SameMonitor, SameRequest, SameSleep, SameDriver,
                SameFault
  <1>2. CASE s.suspended # on
    <2>1. SetSuspended(s, on) = [s EXCEPT !.suspended = on]
      BY <1>2 DEF SetSuspended, Check
    <2> QED
      BY <2>1, SetPs
  <1> QED
    BY <1>1, <1>2

-----------------------------------------------------------------------------
(* The connection monitor                                                  *)

\* connection_mon_fsm_table leads to a state of the monitor or has no row.
LEMMA MonNextType ==
    ASSUME NEW st \in MonState, NEW e \in MonEvent
    PROVE  MonNext(st, e) \in MonState \cup {"ERROR"}
  BY DEF MonNext, MonState, MonEvent

\* A row of connection_mon_fsm_table moves the monitor and its timeout, and
\* nothing else but the count of failed queries.
LEMMA MonStepEffect ==
    ASSUME NEW s \in Umac, NEW e \in MonEvent, MonNext(s.mon, e) # "ERROR"
    PROVE  LET t == MonStep(s, e) IN
           /\ t \in Umac
           /\ t.mon = MonNext(s.mon, e)
           /\ t.monTimer = TimerAfter(s.mon, MonNext(s.mon, e), s.monTimer)
           /\ t.inMon = s.inMon /\ t.pending = s.pending /\ t.monOff = s.monOff
           /\ SameConn(s, t) /\ SameRequest(s, t) /\ SameSleep(s, t)
           /\ SameDriver(s, t) /\ SameFault(s, t)
  <1> DEFINE t == MonStep(s, e)
             to == MonNext(s.mon, e)
             armed == TimerAfter(s.mon, to, s.monTimer)
             failed == FailedAfter(to, s.failed)
  <1>1. to \in MonState
    BY MonNextType DEF Umac
  <1>2. s.monTimer \in BOOLEAN /\ s.failed \in Nat
    BY DEF Umac
  <1>3. armed \in BOOLEAN
    BY <1>2 DEF TimerAfter
  <1>4. failed \in Nat
    BY <1>2 DEF FailedAfter
  <1>5. t = [s EXCEPT !.mon = to, !.monTimer = armed, !.failed = failed]
    BY DEF MonStep
  <1> HIDE DEF t, to, armed, failed
  <1>6. /\ t \in Umac
        /\ t.mon = to /\ t.monTimer = armed
        /\ t.inMon = s.inMon /\ t.pending = s.pending /\ t.monOff = s.monOff
        /\ SameConn(s, t) /\ SameRequest(s, t) /\ SameSleep(s, t)
        /\ SameDriver(s, t) /\ SameFault(s, t)
    BY <1>1, <1>3, <1>4, <1>5 DEF Umac, SameConn, SameRequest, SameSleep,
                                  SameDriver, SameFault
  <1> QED
    BY <1>6 DEF t, to, armed

\* connection_mon_fsm_handle_event, called while it runs, leaves one event
\* pending.
LEMMA MonPendingEffect ==
    ASSUME NEW s \in Umac, NEW e \in MonEvent, s.inMon = TRUE, s.pending = "NONE"
    PROVE  LET t == MonHandle(s, e) IN
           /\ t \in Umac
           /\ t.mon = s.mon /\ t.inMon = TRUE /\ t.pending = e
           /\ t.monOff = s.monOff /\ t.monTimer = s.monTimer
           /\ SameConn(s, t) /\ SameRequest(s, t) /\ SameSleep(s, t)
           /\ SameDriver(s, t) /\ SameFault(s, t)
  <1>1. MonHandle(s, e) = [s EXCEPT !.pending = e]
    BY DEF MonHandle, Check
  <1> QED
    BY <1>1, SetPending

\* Stopping a monitor that runs cancels its timeout.
LEMMA MonStopEffect ==
    ASSUME NEW s \in Umac, s.inMon = FALSE, s.mon # "DISABLED",
           s.monTimer = (s.mon = "UNSTABLE")
    PROVE  LET t == MonHandle(s, "STOP") IN
           /\ t \in Umac
           /\ t.mon = "DISABLED" /\ t.monTimer = FALSE
           /\ t.inMon = FALSE /\ t.pending = s.pending /\ t.monOff = s.monOff
           /\ SameConn(s, t) /\ SameRequest(s, t) /\ SameSleep(s, t)
           /\ SameDriver(s, t) /\ SameFault(s, t)
  <1>1. MonHandle(s, "STOP") = MonStep(s, "STOP")
    BY DEF MonHandle
  <1>2. MonNext(s.mon, "STOP") = "DISABLED"
    <2>1. s.mon \in MonState
      BY DEF Umac
    <2> QED
      BY <2>1 DEF MonNext, MonState
  <1>3. TimerAfter(s.mon, "DISABLED", s.monTimer) = FALSE
    BY DEF TimerAfter
  <1> QED
    BY <1>1, <1>2, <1>3, MonStepEffect DEF MonEvent

\* Starting a stopped monitor leaves it stable.
LEMMA MonStartEffect ==
    ASSUME NEW s \in Umac, s.inMon = FALSE, s.mon = "DISABLED",
           s.monTimer = FALSE
    PROVE  LET t == MonHandle(s, "START") IN
           /\ t \in Umac
           /\ t.mon = "STABLE" /\ t.monTimer = FALSE
           /\ t.inMon = FALSE /\ t.pending = s.pending /\ t.monOff = s.monOff
           /\ SameConn(s, t) /\ SameRequest(s, t) /\ SameSleep(s, t)
           /\ SameDriver(s, t) /\ SameFault(s, t)
  <1>1. MonHandle(s, "START") = MonStep(s, "START")
    BY DEF MonHandle
  <1>2. MonNext(s.mon, "START") = "STABLE"
    BY DEF MonNext
  <1>3. TimerAfter(s.mon, "STABLE", s.monTimer) = FALSE
    BY DEF TimerAfter
  <1> QED
    BY <1>1, <1>2, <1>3, MonStepEffect DEF MonEvent

\* umac_connection_set_monitor_disable(true) for a connected station.
LEMMA MonitorOff ==
    ASSUME NEW s \in Umac, s.conn = "CONNECTED", s.monOff = FALSE,
           s.inMon = FALSE, s.mon # "DISABLED", s.monTimer = (s.mon = "UNSTABLE")
    PROVE  LET t == SetMonitorDisable(s, TRUE) IN
           /\ t \in Umac
           /\ t.mon = "DISABLED" /\ t.monTimer = FALSE /\ t.monOff = TRUE
           /\ t.inMon = FALSE /\ t.pending = s.pending
           /\ SameConn(s, t) /\ SameRequest(s, t) /\ SameSleep(s, t)
           /\ SameDriver(s, t) /\ SameFault(s, t)
  <1> DEFINE u == MonHandle(s, "STOP")
             t == SetMonitorDisable(s, TRUE)
  <1>1. t = [u EXCEPT !.monOff = TRUE]
    BY DEF SetMonitorDisable
  <1>2. /\ u \in Umac
        /\ u.mon = "DISABLED" /\ u.monTimer = FALSE
        /\ u.inMon = FALSE /\ u.pending = s.pending
        /\ SameConn(s, u) /\ SameRequest(s, u) /\ SameSleep(s, u)
        /\ SameDriver(s, u) /\ SameFault(s, u)
    BY MonStopEffect
  <1> HIDE DEF u, t
  <1>3. /\ t \in Umac
        /\ t.mon = u.mon /\ t.monTimer = u.monTimer /\ t.monOff = TRUE
        /\ t.inMon = u.inMon /\ t.pending = u.pending
        /\ SameConn(u, t) /\ SameRequest(u, t) /\ SameSleep(u, t)
        /\ SameDriver(u, t) /\ SameFault(u, t)
    BY <1>1, <1>2 DEF Umac, SameConn, SameRequest, SameSleep, SameDriver,
                      SameFault
  <1> QED
    BY <1>2, <1>3 DEF t, SameConn, SameRequest, SameSleep, SameDriver, SameFault

\* umac_connection_set_monitor_disable(false) for a connected station.
LEMMA MonitorOn ==
    ASSUME NEW s \in Umac, s.conn = "CONNECTED", s.monOff = TRUE,
           s.inMon = FALSE, s.mon = "DISABLED", s.monTimer = FALSE
    PROVE  LET t == SetMonitorDisable(s, FALSE) IN
           /\ t \in Umac
           /\ t.mon = "STABLE" /\ t.monTimer = FALSE /\ t.monOff = FALSE
           /\ t.inMon = FALSE /\ t.pending = s.pending
           /\ SameConn(s, t) /\ SameRequest(s, t) /\ SameSleep(s, t)
           /\ SameDriver(s, t) /\ SameFault(s, t)
  <1> DEFINE u == MonHandle(s, "START")
             t == SetMonitorDisable(s, FALSE)
  <1>1. t = [u EXCEPT !.monOff = FALSE]
    BY DEF SetMonitorDisable
  <1>2. /\ u \in Umac
        /\ u.mon = "STABLE" /\ u.monTimer = FALSE
        /\ u.inMon = FALSE /\ u.pending = s.pending
        /\ SameConn(s, u) /\ SameRequest(s, u) /\ SameSleep(s, u)
        /\ SameDriver(s, u) /\ SameFault(s, u)
    BY MonStartEffect
  <1> HIDE DEF u, t
  <1>3. /\ t \in Umac
        /\ t.mon = u.mon /\ t.monTimer = u.monTimer /\ t.monOff = FALSE
        /\ t.inMon = u.inMon /\ t.pending = u.pending
        /\ SameConn(u, t) /\ SameRequest(u, t) /\ SameSleep(u, t)
        /\ SameDriver(u, t) /\ SameFault(u, t)
    BY <1>1, <1>2 DEF Umac, SameConn, SameRequest, SameSleep, SameDriver,
                      SameFault
  <1> QED
    BY <1>2, <1>3 DEF t, SameConn, SameRequest, SameSleep, SameDriver, SameFault

-----------------------------------------------------------------------------
(* WNM sleep                                                               *)

\* A caller that waits is answered and forgotten (umac_wnm_sleep.c,
\* data->callback).
LEMMA AnswerEffect ==
    ASSUME NEW s \in Umac, NEW status \in Status, s.callback = TRUE
    PROVE  LET t == Answer(s, status) IN
           /\ t \in Umac
           /\ t.callback = FALSE /\ t.reply = status
           /\ t.wnm = s.wnm /\ t.retry = s.retry /\ t.wnmTimer = s.wnmTimer
           /\ t.powerdown = s.powerdown
           /\ SameConn(s, t) /\ SameMonitor(s, t) /\ SameSleep(s, t)
           /\ SameDriver(s, t) /\ SameFault(s, t)
  <1> DEFINE t == Answer(s, status)
  <1>1. t = [s EXCEPT !.callback = FALSE, !.reply = status]
    BY DEF Answer
  <1> HIDE DEF t
  <1>2. /\ t \in Umac
        /\ t.callback = FALSE /\ t.reply = status
        /\ t.wnm = s.wnm /\ t.retry = s.retry /\ t.wnmTimer = s.wnmTimer
        /\ t.powerdown = s.powerdown
    BY <1>1 DEF Umac
  <1>3. /\ SameConn(s, t) /\ SameMonitor(s, t) /\ SameSleep(s, t)
        /\ SameDriver(s, t) /\ SameFault(s, t)
    BY <1>1 DEF Umac, SameConn, SameMonitor, SameSleep, SameDriver, SameFault
  <1> QED
    BY <1>2, <1>3 DEF t

\* Every way out of a request has a status for the caller.
LEMMA ExitStatusType ==
    ASSUME NEW st, NEW e
    PROVE  ExitStatus(st, e) \in Status
  BY DEF ExitStatus, Status

\* wnm_sleep_fsm_*_requested_exit, but for a retry, cancels the retry timeout
\* and answers the caller.
LEMMA RequestedExitEffect ==
    ASSUME NEW s \in Umac, NEW e, e # "RETRY_REQUEST", s.callback = TRUE
    PROVE  LET t == RequestedExit(s, e) IN
           /\ t \in Umac
           /\ t.callback = FALSE /\ t.reply = ExitStatus(s.wnm, e)
           /\ t.wnm = s.wnm /\ t.retry = s.retry /\ t.wnmTimer = FALSE
           /\ t.powerdown = s.powerdown
           /\ SameConn(s, t) /\ SameMonitor(s, t) /\ SameSleep(s, t)
           /\ SameDriver(s, t) /\ SameFault(s, t)
  <1> DEFINE u == [s EXCEPT !.wnmTimer = FALSE]
             status == ExitStatus(s.wnm, e)
             t == RequestedExit(s, e)
  <1>1. t = Answer(u, status)
    BY DEF RequestedExit
  <1>2. status \in Status
    BY ExitStatusType
  <1>3. /\ u \in Umac
        /\ u.callback = TRUE /\ u.wnm = s.wnm /\ u.retry = s.retry
        /\ u.wnmTimer = FALSE /\ u.powerdown = s.powerdown
        /\ SameConn(s, u) /\ SameMonitor(s, u) /\ SameSleep(s, u)
        /\ SameDriver(s, u) /\ SameFault(s, u)
    BY DEF Umac, SameConn, SameMonitor, SameSleep, SameDriver, SameFault
  <1> HIDE DEF u, status, t
  <1>4. /\ t \in Umac
        /\ t.callback = FALSE /\ t.reply = status
        /\ t.wnm = u.wnm /\ t.retry = u.retry /\ t.wnmTimer = u.wnmTimer
        /\ t.powerdown = u.powerdown
        /\ SameConn(u, t) /\ SameMonitor(u, t) /\ SameSleep(u, t)
        /\ SameDriver(u, t) /\ SameFault(u, t)
    BY <1>1, <1>2, <1>3, AnswerEffect
  <1>5. /\ SameConn(s, t) /\ SameMonitor(s, t) /\ SameSleep(s, t)
        /\ SameDriver(s, t) /\ SameFault(s, t)
    BY <1>3, <1>4 DEF SameConn, SameMonitor, SameSleep, SameDriver, SameFault
  <1> QED
    BY <1>3, <1>4, <1>5 DEF t, status

\* umac_connection_handle_hw_restarted tells a restarted chip of the station,
\* if that is awake.
LEMMA HwRestartedAwake ==
    ASSUME NEW s \in Umac, s.mode = "STA", s.started = TRUE, s.wnm # "ACTIVE"
    PROVE  LET t == HandleHwRestarted(s) IN
           /\ t \in Umac
           /\ t.started = TRUE /\ t.chipWnm = s.chipWnm
           /\ t.chipSta = IF s.conn = "CONNECTED" THEN "AUTHORIZED" ELSE "NONE"
           /\ SameConn(s, t) /\ SameMonitor(s, t) /\ SameRequest(s, t)
           /\ SameSleep(s, t) /\ SameFault(s, t)
  <1> DEFINE u == DrvSetSta(s, "NONE")
             v == DrvSetSta(u, "AUTHORIZED")
             t == HandleHwRestarted(s)
  <1>1. /\ u \in Umac
        /\ u.started = TRUE /\ u.chipWnm = s.chipWnm /\ u.chipSta = "NONE"
        /\ SameConn(s, u) /\ SameMonitor(s, u) /\ SameRequest(s, u)
        /\ SameSleep(s, u) /\ SameFault(s, u)
    BY DrvSetStaEffect DEF ChipSta
  <1>2. t = IF s.conn = "CONNECTED" THEN v ELSE u
    BY DEF HandleHwRestarted
  <1> HIDE DEF u
  <1>3. /\ v \in Umac
        /\ v.started = TRUE /\ v.chipWnm = u.chipWnm /\ v.chipSta = "AUTHORIZED"
        /\ SameConn(u, v) /\ SameMonitor(u, v) /\ SameRequest(u, v)
        /\ SameSleep(u, v) /\ SameFault(u, v)
    BY <1>1, DrvSetStaEffect DEF ChipSta
  <1> HIDE DEF v, t
  <1>4. /\ SameConn(s, v) /\ SameMonitor(s, v) /\ SameRequest(s, v)
        /\ SameSleep(s, v) /\ SameFault(s, v)
    BY <1>1, <1>3 DEF SameConn, SameMonitor, SameRequest, SameSleep, SameFault
  <1>5. CASE s.conn = "CONNECTED"
    <2>1. t = v
      BY <1>2, <1>5
    <2> QED
      BY <2>1, <1>1, <1>3, <1>4, <1>5 DEF t
  <1>6. CASE s.conn # "CONNECTED"
    <2>1. t = u
      BY <1>2, <1>6
    <2> QED
      BY <2>1, <1>1, <1>6 DEF t
  <1> QED
    BY <1>5, <1>6

\* The same for a station asleep: the chip sleeps again too.
LEMMA HwRestartedAsleep ==
    ASSUME NEW s \in Umac, s.mode = "STA", s.conn = "CONNECTED",
           s.started = TRUE, s.wnm = "ACTIVE"
    PROVE  LET t == HandleHwRestarted(s) IN
           /\ t \in Umac
           /\ t.started = TRUE /\ t.chipWnm = TRUE /\ t.chipSta = "AUTHORIZED"
           /\ t.paused = s.paused /\ t.veto = TRUE
           /\ SameConn(s, t) /\ SameMonitor(s, t) /\ SameRequest(s, t)
           /\ SameFault(s, t)
  <1> DEFINE u == DrvSetSta(s, "NONE")
             v == DrvSetSta(u, "AUTHORIZED")
             w == [v EXCEPT !.veto = TRUE]
             t == HandleHwRestarted(s)
  <1>1. /\ u \in Umac
        /\ u.started = TRUE
        /\ SameConn(s, u) /\ SameMonitor(s, u) /\ SameRequest(s, u)
        /\ SameSleep(s, u) /\ SameFault(s, u)
    BY DrvSetStaEffect DEF ChipSta
  <1>2. t = DrvSetWnm(w, TRUE)
    BY DEF HandleHwRestarted
  <1> HIDE DEF u
  <1>3. /\ v \in Umac
        /\ v.started = TRUE /\ v.chipSta = "AUTHORIZED"
        /\ SameConn(u, v) /\ SameMonitor(u, v) /\ SameRequest(u, v)
        /\ SameSleep(u, v) /\ SameFault(u, v)
    BY <1>1, DrvSetStaEffect DEF ChipSta
  <1> HIDE DEF v, t
  <1>4. /\ w \in Umac
        /\ w.started = v.started /\ w.chipSta = v.chipSta
        /\ w.paused = v.paused /\ w.veto = TRUE
        /\ SameConn(v, w) /\ SameMonitor(v, w) /\ SameRequest(v, w)
        /\ SameFault(v, w)
    BY <1>3 DEF Umac, SameConn, SameMonitor, SameRequest, SameFault
  <1> HIDE DEF w
  <1>5. /\ t \in Umac
        /\ t.started = TRUE /\ t.chipWnm = TRUE /\ t.chipSta = w.chipSta
        /\ SameConn(w, t) /\ SameMonitor(w, t) /\ SameRequest(w, t)
        /\ SameSleep(w, t) /\ SameFault(w, t)
    BY <1>2, <1>3, <1>4, DrvSetWnmEffect
  <1>6. /\ SameConn(s, t) /\ SameMonitor(s, t) /\ SameRequest(s, t)
        /\ SameFault(s, t)
    BY <1>1, <1>3, <1>4, <1>5 DEF SameConn, SameMonitor, SameRequest, SameFault
  <1>7. t.paused = s.paused /\ t.veto = TRUE
    BY <1>1, <1>3, <1>4, <1>5 DEF SameSleep
  <1> QED
    BY <1>3, <1>4, <1>5, <1>6, <1>7 DEF t

\* wnm_sleep_fsm_active_entry: pause, veto, monitor off, and the chip asleep
\* or powered down.
LEMMA ActiveEntryEffect ==
    ASSUME NEW s \in Umac, s.conn = "CONNECTED", s.started = TRUE,
           s.monOff = FALSE, s.inMon = FALSE, s.mon # "DISABLED",
           s.monTimer = (s.mon = "UNSTABLE")
    PROVE  LET t == ActiveEntry(s) IN
           /\ t \in Umac
           /\ t.mon = "DISABLED" /\ t.monTimer = FALSE /\ t.monOff = TRUE
           /\ t.inMon = FALSE /\ t.pending = s.pending
           /\ t.paused = TRUE /\ t.veto = TRUE
           /\ s.powerdown = TRUE => t.started = FALSE
           /\ s.powerdown = FALSE => /\ t.started = TRUE /\ t.chipWnm = TRUE
                                     /\ t.chipSta = s.chipSta
           /\ SameConn(s, t) /\ SameRequest(s, t) /\ SameFault(s, t)
  <1> DEFINE u == IF s.powerdown THEN DrvDeinit(s) ELSE DrvSetWnm(s, TRUE)
             v == [u EXCEPT !.paused = TRUE, !.veto = TRUE]
             t == ActiveEntry(s)
  <1>1. /\ u \in Umac
        /\ s.powerdown = TRUE => u.started = FALSE
        /\ s.powerdown = FALSE => /\ u.started = TRUE /\ u.chipWnm = TRUE
                                  /\ u.chipSta = s.chipSta
        /\ SameConn(s, u) /\ SameMonitor(s, u) /\ SameRequest(s, u)
        /\ SameFault(s, u)
    <2>1. CASE s.powerdown = TRUE
      <3>1. u = DrvDeinit(s)
        BY <2>1
      <3> HIDE DEF u
      <3> QED
        BY <2>1, <3>1, DrvDeinitEffect
    <2>2. CASE s.powerdown = FALSE
      <3>1. u = DrvSetWnm(s, TRUE)
        BY <2>2
      <3> HIDE DEF u
      <3> QED
        BY <2>2, <3>1, DrvSetWnmEffect
    <2>3. s.powerdown \in BOOLEAN
      BY DEF Umac
    <2> QED
      BY <2>1, <2>2, <2>3
  <1>2. t = SetMonitorDisable(v, TRUE)
    BY DEF ActiveEntry
  <1> HIDE DEF u
  <1>3. /\ v \in Umac
        /\ v.paused = TRUE /\ v.veto = TRUE
        /\ SameConn(u, v) /\ SameMonitor(u, v) /\ SameRequest(u, v)
        /\ SameDriver(u, v) /\ SameFault(u, v)
    BY <1>1 DEF Umac, SameConn, SameMonitor, SameRequest, SameDriver, SameFault
  <1> HIDE DEF v, t
  <1>4. /\ v.conn = "CONNECTED" /\ v.monOff = FALSE /\ v.inMon = FALSE
        /\ v.mon # "DISABLED" /\ v.monTimer = (v.mon = "UNSTABLE")
        /\ v.pending = s.pending
    BY <1>1, <1>3 DEF SameConn, SameMonitor
  <1>5. /\ t \in Umac
        /\ t.mon = "DISABLED" /\ t.monTimer = FALSE /\ t.monOff = TRUE
        /\ t.inMon = FALSE /\ t.pending = v.pending
        /\ SameConn(v, t) /\ SameRequest(v, t) /\ SameSleep(v, t)
        /\ SameDriver(v, t) /\ SameFault(v, t)
    BY <1>2, <1>3, <1>4, MonitorOff
  <1>6. /\ t.paused = TRUE /\ t.veto = TRUE
        /\ t.started = u.started /\ t.chipWnm = u.chipWnm
        /\ t.chipSta = u.chipSta
    BY <1>3, <1>5 DEF SameSleep, SameDriver
  <1>7. SameConn(s, t) /\ SameRequest(s, t) /\ SameFault(s, t)
    BY <1>1, <1>3, <1>5 DEF SameConn, SameRequest, SameFault
  <1> QED
    BY <1>1, <1>4, <1>5, <1>6, <1>7 DEF t

\* Leaving WNM sleep with the chip powered down boots it and restores the
\* station.
LEMMA PowerUpEffect ==
    ASSUME NEW s \in Umac, s.mode = "STA", s.conn = "CONNECTED",
           s.wnm = "ACTIVE", s.powerdown = TRUE
    PROVE  LET t == [HandleHwRestarted(DrvInit(s)) EXCEPT !.powerdown = FALSE] IN
           /\ t \in Umac
           /\ t.started = TRUE /\ t.chipSta = "AUTHORIZED"
           /\ t.wnm = s.wnm /\ t.callback = s.callback /\ t.reply = s.reply
           /\ t.retry = s.retry /\ t.wnmTimer = s.wnmTimer
           /\ SameConn(s, t) /\ SameMonitor(s, t) /\ SameFault(s, t)
  <1> DEFINE u == DrvInit(s)
             v == HandleHwRestarted(u)
             t == [v EXCEPT !.powerdown = FALSE]
  <1>1. /\ u \in Umac
        /\ u.started = TRUE
        /\ SameConn(s, u) /\ SameMonitor(s, u) /\ SameRequest(s, u)
        /\ SameFault(s, u)
    BY DrvInitEffect
  <1> HIDE DEF u
  <1>2. u.mode = "STA" /\ u.conn = "CONNECTED" /\ u.wnm = "ACTIVE"
    BY <1>1 DEF SameConn, SameRequest
  <1>3. /\ v \in Umac
        /\ v.started = TRUE /\ v.chipSta = "AUTHORIZED"
        /\ SameConn(u, v) /\ SameMonitor(u, v) /\ SameRequest(u, v)
        /\ SameFault(u, v)
    BY <1>1, <1>2, HwRestartedAsleep
  <1> HIDE DEF v
  <1>4. /\ t \in Umac
        /\ t.wnm = v.wnm /\ t.callback = v.callback /\ t.reply = v.reply
        /\ t.retry = v.retry /\ t.wnmTimer = v.wnmTimer
        /\ SameConn(v, t) /\ SameMonitor(v, t) /\ SameDriver(v, t)
        /\ SameFault(v, t)
    <2>1. t \in Umac
      BY <1>3 DEF Umac
    <2>2. /\ t.wnm = v.wnm /\ t.callback = v.callback /\ t.reply = v.reply
          /\ t.retry = v.retry /\ t.wnmTimer = v.wnmTimer
      BY <1>3 DEF Umac
    <2>3. SameConn(v, t) /\ SameMonitor(v, t)
      BY <1>3 DEF Umac, SameConn, SameMonitor
    <2>4. SameDriver(v, t) /\ SameFault(v, t)
      BY <1>3 DEF Umac, SameDriver, SameFault
    <2> QED
      BY <2>1, <2>2, <2>3, <2>4
  <1> HIDE DEF t
  <1>5. t.started = TRUE /\ t.chipSta = "AUTHORIZED"
    BY <1>3, <1>4 DEF SameDriver
  <1>6. /\ t.wnm = s.wnm /\ t.callback = s.callback /\ t.reply = s.reply
        /\ t.retry = s.retry /\ t.wnmTimer = s.wnmTimer
    BY <1>1, <1>3, <1>4 DEF SameRequest
  <1>7. SameConn(s, t) /\ SameMonitor(s, t) /\ SameFault(s, t)
    BY <1>1, <1>3, <1>4 DEF SameConn, SameMonitor, SameFault
  <1> QED
    BY <1>4, <1>5, <1>6, <1>7 DEF t, v, u

\* wnm_sleep_fsm_active_exit undoes all that the entry did, whichever way the
\* chip slept.
LEMMA ActiveExitEffect ==
    ASSUME NEW s \in Umac, s.mode = "STA", s.conn = "CONNECTED",
           s.wnm = "ACTIVE", s.monOff = TRUE, s.inMon = FALSE,
           s.mon = "DISABLED", s.monTimer = FALSE,
           s.powerdown = FALSE => s.started = TRUE /\ s.chipSta = "AUTHORIZED"
    PROVE  LET t == ActiveExit(s) IN
           /\ t \in Umac
           /\ t.mon = "STABLE" /\ t.monTimer = FALSE /\ t.monOff = FALSE
           /\ t.inMon = FALSE /\ t.pending = s.pending
           /\ t.paused = FALSE /\ t.veto = FALSE
           /\ t.started = TRUE /\ t.chipSta = "AUTHORIZED"
           /\ t.wnm = s.wnm /\ t.callback = s.callback /\ t.reply = s.reply
           /\ t.retry = s.retry /\ t.wnmTimer = s.wnmTimer
           /\ SameConn(s, t) /\ SameFault(s, t)
  <1> DEFINE p == [HandleHwRestarted(DrvInit(s)) EXCEPT !.powerdown = FALSE]
             u == IF s.powerdown THEN p ELSE DrvSetWnm(s, FALSE)
             v == [u EXCEPT !.paused = FALSE, !.veto = FALSE]
             t == ActiveExit(s)
  <1>1. /\ u \in Umac
        /\ u.started = TRUE /\ u.chipSta = "AUTHORIZED"
        /\ u.wnm = s.wnm /\ u.callback = s.callback /\ u.reply = s.reply
        /\ u.retry = s.retry /\ u.wnmTimer = s.wnmTimer
        /\ SameConn(s, u) /\ SameMonitor(s, u) /\ SameFault(s, u)
    <2>1. CASE s.powerdown = TRUE
      <3>1. u = p
        BY <2>1
      <3> HIDE DEF u
      <3> QED
        BY <2>1, <3>1, PowerUpEffect
    <2>2. CASE s.powerdown = FALSE
      <3>1. u = DrvSetWnm(s, FALSE)
        BY <2>2
      <3> HIDE DEF u
      <3>2. /\ u \in Umac
            /\ u.started = TRUE /\ u.chipSta = s.chipSta
            /\ SameConn(s, u) /\ SameMonitor(s, u) /\ SameRequest(s, u)
            /\ SameFault(s, u)
        BY <2>2, <3>1, DrvSetWnmEffect
      <3> QED
        BY <2>2, <3>2 DEF SameRequest
    <2>3. s.powerdown \in BOOLEAN
      BY DEF Umac
    <2> QED
      BY <2>1, <2>2, <2>3
  <1>2. t = SetMonitorDisable(v, FALSE)
    BY DEF ActiveExit
  <1> HIDE DEF u
  <1>3. /\ v \in Umac
        /\ v.paused = FALSE /\ v.veto = FALSE
        /\ SameConn(u, v) /\ SameMonitor(u, v) /\ SameRequest(u, v)
        /\ SameDriver(u, v) /\ SameFault(u, v)
    BY <1>1 DEF Umac, SameConn, SameMonitor, SameRequest, SameDriver, SameFault
  <1> HIDE DEF v, t
  <1>4. /\ v.conn = "CONNECTED" /\ v.monOff = TRUE /\ v.inMon = FALSE
        /\ v.mon = "DISABLED" /\ v.monTimer = FALSE /\ v.pending = s.pending
    BY <1>1, <1>3 DEF SameConn, SameMonitor
  <1>5. /\ t \in Umac
        /\ t.mon = "STABLE" /\ t.monTimer = FALSE /\ t.monOff = FALSE
        /\ t.inMon = FALSE /\ t.pending = v.pending
        /\ SameConn(v, t) /\ SameRequest(v, t) /\ SameSleep(v, t)
        /\ SameDriver(v, t) /\ SameFault(v, t)
    BY <1>2, <1>3, <1>4, MonitorOn
  <1>6. /\ t.paused = FALSE /\ t.veto = FALSE
        /\ t.started = TRUE /\ t.chipSta = "AUTHORIZED"
    BY <1>1, <1>3, <1>5 DEF SameSleep, SameDriver
  <1>7. /\ t.wnm = s.wnm /\ t.callback = s.callback /\ t.reply = s.reply
        /\ t.retry = s.retry /\ t.wnmTimer = s.wnmTimer
    BY <1>1, <1>3, <1>5 DEF SameRequest
  <1>8. SameConn(s, t) /\ SameFault(s, t)
    BY <1>1, <1>3, <1>5 DEF SameConn, SameFault
  <1> QED
    BY <1>4, <1>5, <1>6, <1>7, <1>8 DEF t

\* A request is on the air.
Negotiating == {"ENTRY_REQUESTED", "EXIT_REQUESTED"}

\* An event that ends a request in IDLE answers the caller and changes
\* nothing else.
LEMMA RequestEnds ==
    ASSUME NEW s \in Umac, NEW e, s.wnm \in Negotiating, s.callback = TRUE,
           e # "RETRY_REQUEST", WnmNext(s.wnm, e) = "IDLE"
    PROVE  LET t == WnmHandle(s, e) IN
           /\ t \in Umac
           /\ t.wnm = "IDLE" /\ t.callback = FALSE /\ t.wnmTimer = FALSE
           /\ t.reply = ExitStatus(s.wnm, e) /\ t.retry = s.retry
           /\ t.powerdown = s.powerdown
           /\ SameConn(s, t) /\ SameMonitor(s, t) /\ SameSleep(s, t)
           /\ SameDriver(s, t) /\ SameFault(s, t)
  <1> DEFINE u == RequestedExit(s, e)
             t == WnmHandle(s, e)
  <1>1. /\ u \in Umac
        /\ u.callback = FALSE /\ u.reply = ExitStatus(s.wnm, e)
        /\ u.retry = s.retry /\ u.wnmTimer = FALSE
        /\ u.powerdown = s.powerdown
        /\ SameConn(s, u) /\ SameMonitor(s, u) /\ SameSleep(s, u)
        /\ SameDriver(s, u) /\ SameFault(s, u)
    BY RequestedExitEffect
  <1>2. t = [u EXCEPT !.wnm = "IDLE"]
    <2>1. WnmLeave(s, e) = u
      BY DEF WnmLeave, Negotiating
    <2>2. t = WnmEnter([u EXCEPT !.wnm = "IDLE"])
      BY <2>1 DEF WnmHandle
    <2> HIDE DEF u, t
    <2>3. [u EXCEPT !.wnm = "IDLE"].wnm = "IDLE"
      BY <1>1 DEF Umac
    <2> QED
      BY <2>2, <2>3 DEF WnmEnter
  <1> HIDE DEF u, t
  <1>3. /\ t \in Umac
        /\ t.wnm = "IDLE" /\ t.callback = u.callback /\ t.reply = u.reply
        /\ t.retry = u.retry /\ t.wnmTimer = u.wnmTimer
        /\ t.powerdown = u.powerdown
        /\ SameConn(u, t) /\ SameMonitor(u, t) /\ SameSleep(u, t)
        /\ SameDriver(u, t) /\ SameFault(u, t)
    <2>1. "IDLE" \in WnmState
      BY DEF WnmState
    <2> QED
      BY <1>1, <1>2, <2>1, SetWnm
  <1>4. /\ SameConn(s, t) /\ SameMonitor(s, t) /\ SameSleep(s, t)
        /\ SameDriver(s, t) /\ SameFault(s, t)
    BY <1>1, <1>3 DEF SameConn, SameMonitor, SameSleep, SameDriver, SameFault
  <1> QED
    BY <1>1, <1>3, <1>4 DEF t

\* What the handlers rely on of a connected station, also in the middle of
\* the monitor's own handler.
Linked(s) ==
    /\ s.mode = "STA" /\ s.conn = "CONNECTED"
    /\ s.wnm \in Negotiating => s.callback = TRUE /\ s.wnmTimer = TRUE
    /\ s.wnm \notin Negotiating => s.callback = FALSE /\ s.wnmTimer = FALSE
    /\ s.wnm = "ACTIVE" =>
         /\ s.paused = TRUE /\ s.veto = TRUE /\ s.monOff = TRUE
         /\ s.mon = "DISABLED" /\ s.inMon = FALSE
    /\ s.wnm # "ACTIVE" =>
         /\ s.paused = FALSE /\ s.veto = FALSE /\ s.monOff = FALSE
         /\ s.mon # "DISABLED" /\ s.started = TRUE
    /\ s.mon = "UNSTABLE" => s.monTimer = TRUE
    /\ s.mon # "UNSTABLE" => s.monTimer = FALSE
    /\ s.powerdown = FALSE => s.started = TRUE
    /\ s.started = TRUE => s.chipSta = "AUTHORIZED"

\* From s to t whoever waited was answered, and not with the success of a
\* request to enter sleep.
Answered(s, t) ==
    /\ t.callback = FALSE
    /\ s.callback = FALSE => t.reply = s.reply
    /\ s.callback = TRUE => /\ t.reply \in Status
                            /\ t.reply = "SUCCESS" => s.wnm = "EXIT_REQUESTED"

\* WNM_SLEEP_EVENT_CONNECTION_LOST from every state of the FSM: awake, idle,
\* the monitor running, and the caller, if any, answered.
LEMMA ReportLost ==
    ASSUME NEW s \in Umac, Linked(s)
    PROVE  LET t == Report(s, "CONNECTION_LOST") IN
           /\ t \in Umac
           /\ t.wnm = "IDLE" /\ t.wnmTimer = FALSE /\ t.retry = s.retry
           /\ Answered(s, t)
           /\ t.paused = FALSE /\ t.veto = FALSE /\ t.monOff = FALSE
           /\ t.started = TRUE /\ t.chipSta = "AUTHORIZED"
           /\ t.mon # "DISABLED" /\ t.monTimer = (t.mon = "UNSTABLE")
           /\ t.inMon = s.inMon /\ t.pending = s.pending
           /\ s.inMon = TRUE => t.mon = s.mon
           /\ SameConn(s, t) /\ SameFault(s, t)
  <1> DEFINE t == Report(s, "CONNECTION_LOST")
             e == "CONNECTION_LOST"
  <1>0. s.wnm \in WnmState
    BY DEF Umac
  <1>1. CASE s.wnm = "IDLE"
    <2>1. t = s
      BY <1>1 DEF Linked, Report, Expects, Check, WnmState
    <2>2. /\ s.wnmTimer = FALSE /\ s.callback = FALSE
          /\ s.paused = FALSE /\ s.veto = FALSE /\ s.monOff = FALSE
          /\ s.started = TRUE /\ s.chipSta = "AUTHORIZED"
          /\ s.mon # "DISABLED" /\ s.monTimer = (s.mon = "UNSTABLE")
      BY <1>1 DEF Linked, Negotiating
    <2> HIDE DEF t
    <2>3. Answered(s, t) /\ SameConn(s, t) /\ SameFault(s, t)
      BY <2>1, <2>2 DEF Answered, SameConn, SameFault
    <2> QED
      BY <1>1, <2>1, <2>2, <2>3 DEF t
  <1>2. CASE s.wnm \in Negotiating
    <2>1. /\ s.callback = TRUE
          /\ s.paused = FALSE /\ s.veto = FALSE /\ s.monOff = FALSE
          /\ s.started = TRUE /\ s.chipSta = "AUTHORIZED"
          /\ s.mon # "DISABLED" /\ s.monTimer = (s.mon = "UNSTABLE")
      BY <1>2 DEF Linked, Negotiating
    <2>2. t = WnmHandle(s, e)
      BY <1>2 DEF Linked, Negotiating, Report, Expects, Check, WnmState
    <2>3. WnmNext(s.wnm, e) = "IDLE"
      BY <1>2 DEF WnmNext, Negotiating
    <2> HIDE DEF t
    <2>4. /\ t \in Umac
          /\ t.wnm = "IDLE" /\ t.callback = FALSE /\ t.wnmTimer = FALSE
          /\ t.reply = ExitStatus(s.wnm, e) /\ t.retry = s.retry
          /\ SameConn(s, t) /\ SameMonitor(s, t) /\ SameSleep(s, t)
          /\ SameDriver(s, t) /\ SameFault(s, t)
      BY <1>2, <2>1, <2>2, <2>3, RequestEnds
    <2>5. Answered(s, t)
      <3>1. ExitStatus(s.wnm, e) \in Status
        BY ExitStatusType
      <3>2. ExitStatus(s.wnm, e) = "SUCCESS" => s.wnm = "EXIT_REQUESTED"
        BY <1>2 DEF ExitStatus, Negotiating
      <3> HIDE DEF e
      <3> QED
        BY <2>1, <2>4, <3>1, <3>2 DEF Answered
    <2>6. /\ t.paused = FALSE /\ t.veto = FALSE /\ t.monOff = FALSE
          /\ t.started = TRUE /\ t.chipSta = "AUTHORIZED"
          /\ t.mon = s.mon /\ t.monTimer = s.monTimer
          /\ t.inMon = s.inMon /\ t.pending = s.pending
      BY <2>1, <2>4 DEF SameMonitor, SameSleep, SameDriver
    <2>7. t.mon # "DISABLED" /\ t.monTimer = (t.mon = "UNSTABLE")
      BY <2>1, <2>6
    <2> QED
      BY <2>4, <2>5, <2>6, <2>7 DEF t
  <1>3. CASE s.wnm = "ACTIVE"
    <2> DEFINE u == ActiveExit(s)
    <2>2. /\ s.callback = FALSE /\ s.wnmTimer = FALSE /\ s.inMon = FALSE
          /\ s.mon = "DISABLED" /\ s.monTimer = FALSE /\ s.monOff = TRUE
          /\ s.mode = "STA" /\ s.conn = "CONNECTED"
          /\ s.powerdown = FALSE => s.started = TRUE /\ s.chipSta = "AUTHORIZED"
      BY <1>3 DEF Linked, Negotiating
    <2>3. /\ u \in Umac
          /\ u.mon = "STABLE" /\ u.monTimer = FALSE /\ u.monOff = FALSE
          /\ u.inMon = FALSE /\ u.pending = s.pending
          /\ u.paused = FALSE /\ u.veto = FALSE
          /\ u.started = TRUE /\ u.chipSta = "AUTHORIZED"
          /\ u.callback = s.callback /\ u.reply = s.reply
          /\ u.retry = s.retry /\ u.wnmTimer = s.wnmTimer
          /\ SameConn(s, u) /\ SameFault(s, u)
      BY <1>3, <2>2, ActiveExitEffect
    <2>1. t = [u EXCEPT !.wnm = "IDLE"]
      <3>1. t = WnmHandle(s, e)
        BY <1>3 DEF Linked, Report, Expects, Check, WnmState
      <3>2. WnmNext(s.wnm, e) = "IDLE"
        BY <1>3 DEF WnmNext
      <3>3. WnmLeave(s, e) = u
        BY <1>3 DEF WnmLeave
      <3>4. t = WnmEnter([u EXCEPT !.wnm = "IDLE"])
        BY <3>1, <3>2, <3>3 DEF WnmHandle
      <3> HIDE DEF u, t
      <3>6. [u EXCEPT !.wnm = "IDLE"].wnm = "IDLE"
        BY <2>3 DEF Umac
      <3> QED
        BY <3>4, <3>6 DEF WnmEnter
    <2> HIDE DEF u, t
    <2>4. /\ t \in Umac
          /\ t.wnm = "IDLE" /\ t.callback = u.callback /\ t.reply = u.reply
          /\ t.retry = u.retry /\ t.wnmTimer = u.wnmTimer
          /\ SameConn(u, t) /\ SameMonitor(u, t) /\ SameSleep(u, t)
          /\ SameDriver(u, t) /\ SameFault(u, t)
      <3>1. "IDLE" \in WnmState
        BY DEF WnmState
      <3> QED
        BY <2>1, <2>3, <3>1, SetWnm
    <2>5. Answered(s, t)
      BY <2>2, <2>3, <2>4 DEF Answered
    <2>6. /\ t.paused = FALSE /\ t.veto = FALSE /\ t.monOff = FALSE
          /\ t.started = TRUE /\ t.chipSta = "AUTHORIZED"
          /\ t.mon = "STABLE" /\ t.monTimer = FALSE
          /\ t.inMon = FALSE /\ t.pending = s.pending
      BY <2>2, <2>3, <2>4 DEF SameMonitor, SameSleep, SameDriver
    <2>7. SameConn(s, t) /\ SameFault(s, t)
      BY <2>3, <2>4 DEF SameConn, SameFault
    <2> QED
      BY <2>2, <2>3, <2>4, <2>5, <2>6, <2>7 DEF t
  <1> QED
    BY <1>0, <1>1, <1>2, <1>3 DEF WnmState, Negotiating

-----------------------------------------------------------------------------
(* The connection                                                          *)

\* connection_fsm_connected_exit called from outside the monitor stops the
\* monitor.
LEMMA ConnectedExitEffect ==
    ASSUME NEW s \in Umac, Linked(s), s.inMon = FALSE
    PROVE  LET t == ConnectedExit(s) IN
           /\ t \in Umac
           /\ t.wnm = "IDLE" /\ t.wnmTimer = FALSE /\ t.retry = s.retry
           /\ Answered(s, t)
           /\ t.paused = FALSE /\ t.veto = FALSE /\ t.monOff = FALSE
           /\ t.started = TRUE
           /\ t.mon = "DISABLED" /\ t.monTimer = FALSE
           /\ t.inMon = FALSE /\ t.pending = s.pending
           /\ SameConn(s, t) /\ SameFault(s, t)
  <1> DEFINE u == Report(s, "CONNECTION_LOST")
             t == ConnectedExit(s)
  <1>1. /\ u \in Umac
        /\ u.wnm = "IDLE" /\ u.wnmTimer = FALSE /\ u.retry = s.retry
        /\ Answered(s, u)
        /\ u.paused = FALSE /\ u.veto = FALSE /\ u.monOff = FALSE
        /\ u.started = TRUE
        /\ u.mon # "DISABLED" /\ u.monTimer = (u.mon = "UNSTABLE")
        /\ u.inMon = s.inMon /\ u.pending = s.pending
        /\ SameConn(s, u) /\ SameFault(s, u)
    BY ReportLost
  <1>2. t = MonHandle(u, "STOP")
    BY <1>1 DEF ConnectedExit
  <1> HIDE DEF u, t
  <1>3. /\ t \in Umac
        /\ t.mon = "DISABLED" /\ t.monTimer = FALSE
        /\ t.inMon = FALSE /\ t.pending = u.pending /\ t.monOff = u.monOff
        /\ SameConn(u, t) /\ SameRequest(u, t) /\ SameSleep(u, t)
        /\ SameDriver(u, t) /\ SameFault(u, t)
    BY <1>1, <1>2, MonStopEffect
  <1>4. /\ t.wnm = "IDLE" /\ t.wnmTimer = FALSE /\ t.retry = s.retry
        /\ Answered(s, t)
    BY <1>1, <1>3 DEF SameRequest, Answered
  <1>5. t.paused = FALSE /\ t.veto = FALSE /\ t.started = TRUE
    BY <1>1, <1>3 DEF SameSleep, SameDriver
  <1>6. SameConn(s, t) /\ SameFault(s, t)
    BY <1>1, <1>3 DEF SameConn, SameFault
  <1> QED
    BY <1>1, <1>3, <1>4, <1>5, <1>6 DEF t

\* connection_fsm_connected_exit called by the monitor itself leaves the stop
\* pending.
LEMMA ConnectedExitLost ==
    ASSUME NEW s \in Umac, Linked(s), s.inMon = TRUE, s.pending = "NONE",
           s.mon = "LOST"
    PROVE  LET t == ConnectedExit(s) IN
           /\ t \in Umac
           /\ t.wnm = "IDLE" /\ t.wnmTimer = FALSE /\ t.retry = s.retry
           /\ Answered(s, t)
           /\ t.paused = FALSE /\ t.veto = FALSE /\ t.monOff = FALSE
           /\ t.started = TRUE
           /\ t.mon = "LOST" /\ t.monTimer = FALSE
           /\ t.inMon = TRUE /\ t.pending = "STOP"
           /\ SameConn(s, t) /\ SameFault(s, t)
  <1> DEFINE u == Report(s, "CONNECTION_LOST")
             t == ConnectedExit(s)
  <1>1. /\ u \in Umac
        /\ u.wnm = "IDLE" /\ u.wnmTimer = FALSE /\ u.retry = s.retry
        /\ Answered(s, u)
        /\ u.paused = FALSE /\ u.veto = FALSE /\ u.monOff = FALSE
        /\ u.started = TRUE
        /\ u.monTimer = (u.mon = "UNSTABLE")
        /\ u.inMon = s.inMon /\ u.pending = s.pending /\ u.mon = s.mon
        /\ SameConn(s, u) /\ SameFault(s, u)
    BY ReportLost
  <1>2. t = MonHandle(u, "STOP")
    BY <1>1 DEF ConnectedExit
  <1>3. "STOP" \in MonEvent
    BY DEF MonEvent
  <1> HIDE DEF u, t
  <1>4. /\ t \in Umac
        /\ t.mon = u.mon /\ t.inMon = TRUE /\ t.pending = "STOP"
        /\ t.monOff = u.monOff /\ t.monTimer = u.monTimer
        /\ SameConn(u, t) /\ SameRequest(u, t) /\ SameSleep(u, t)
        /\ SameDriver(u, t) /\ SameFault(u, t)
    BY <1>1, <1>2, <1>3, MonPendingEffect
  <1>5. /\ t.wnm = "IDLE" /\ t.wnmTimer = FALSE /\ t.retry = s.retry
        /\ Answered(s, t)
    BY <1>1, <1>4 DEF SameRequest, Answered
  <1>6. t.paused = FALSE /\ t.veto = FALSE /\ t.started = TRUE
    BY <1>1, <1>4 DEF SameSleep, SameDriver
  <1>7. SameConn(s, t) /\ SameFault(s, t)
    BY <1>1, <1>4 DEF SameConn, SameFault
  <1>8. t.monTimer = FALSE
    BY <1>1, <1>4
  <1> QED
    BY <1>1, <1>4, <1>5, <1>6, <1>7, <1>8 DEF t

\* The entry to DISCONNECTED takes the station out of the chip and ends the
\* suspension of power save.
LEMMA DownEffect ==
    ASSUME NEW s \in Umac, s.started = TRUE
    PROVE  LET t == DisconnectedEntry([s EXCEPT !.conn = "DISCONNECTED"]) IN
           /\ t \in Umac
           /\ t.mode = s.mode /\ t.conn = "DISCONNECTED" /\ t.suspended = FALSE
           /\ t.started = TRUE /\ t.chipSta = "NONE"
           /\ SameMonitor(s, t) /\ SameRequest(s, t) /\ SameSleep(s, t)
           /\ SameFault(s, t)
  <1> DEFINE u == [s EXCEPT !.conn = "DISCONNECTED"]
             v == DrvSetSta(u, "NONE")
             t == DisconnectedEntry(u)
  <1>1. /\ u \in Umac
        /\ u.mode = s.mode /\ u.conn = "DISCONNECTED"
        /\ SameMonitor(s, u) /\ SameRequest(s, u) /\ SameSleep(s, u)
        /\ SameDriver(s, u) /\ SameFault(s, u)
    <2>1. "DISCONNECTED" \in ConnState
      BY DEF ConnState
    <2> QED
      BY <2>1, SetConn
  <1>2. t = SetSuspended(v, FALSE)
    BY DEF DisconnectedEntry
  <1> HIDE DEF u
  <1>3. u.started = TRUE
    BY <1>1 DEF SameDriver
  <1>4. /\ v \in Umac
        /\ v.started = TRUE /\ v.chipSta = "NONE"
        /\ SameConn(u, v) /\ SameMonitor(u, v) /\ SameRequest(u, v)
        /\ SameSleep(u, v) /\ SameFault(u, v)
    BY <1>1, <1>3, DrvSetStaEffect DEF ChipSta
  <1> HIDE DEF v, t
  <1>5. /\ t \in Umac
        /\ t.mode = v.mode /\ t.conn = v.conn /\ t.suspended = FALSE
        /\ SameMonitor(v, t) /\ SameRequest(v, t) /\ SameSleep(v, t)
        /\ SameDriver(v, t) /\ SameFault(v, t)
    BY <1>2, <1>4, SetSuspendedEffect
  <1>6. /\ t.mode = s.mode /\ t.conn = "DISCONNECTED"
        /\ t.started = TRUE /\ t.chipSta = "NONE"
    BY <1>1, <1>4, <1>5 DEF SameConn, SameDriver
  <1>7. /\ SameMonitor(s, t) /\ SameRequest(s, t) /\ SameSleep(s, t)
        /\ SameFault(s, t)
    BY <1>1, <1>4, <1>5 DEF SameMonitor, SameRequest, SameSleep, SameFault
  <1> QED
    BY <1>5, <1>6, <1>7 DEF t, u

\* What they rely on of a station that is not connected.
Idle(s) ==
    /\ s.wnm = "IDLE" /\ s.callback = FALSE /\ s.wnmTimer = FALSE
    /\ s.paused = FALSE /\ s.veto = FALSE /\ s.monOff = FALSE
    /\ s.mon = "DISABLED" /\ s.monTimer = FALSE /\ s.inMon = FALSE

\* CONNECTION_FSM_EVENT_DISCONNECT for a station that is not connected.
LEMMA DisconnectIdle ==
    ASSUME NEW s \in Umac, Idle(s), s.conn # "CONNECTED", s.started = TRUE,
           s.conn = "DISCONNECTED" => s.suspended = FALSE /\ s.chipSta = "NONE"
    PROVE  LET t == Disconnect(s) IN
           /\ t \in Umac
           /\ t.mode = s.mode /\ t.conn = "DISCONNECTED" /\ t.suspended = FALSE
           /\ t.started = TRUE /\ t.chipSta = "NONE"
           /\ SameMonitor(s, t) /\ SameRequest(s, t) /\ SameSleep(s, t)
           /\ SameFault(s, t)
  <1> DEFINE t == Disconnect(s)
             u == DisconnectedEntry([s EXCEPT !.conn = "DISCONNECTED"])
  <1>1. CASE s.conn = "DISCONNECTED"
    <2>1. t = s
      BY <1>1 DEF Disconnect
    <2> HIDE DEF t
    <2> QED
      BY <1>1, <2>1 DEF t, SameMonitor, SameRequest, SameSleep, SameFault
  <1>2. CASE s.conn # "DISCONNECTED"
    <2>1. t = u
      BY <1>2 DEF Disconnect
    <2> HIDE DEF t
    <2> QED
      BY <2>1, DownEffect DEF t
  <1> QED
    BY <1>1, <1>2

\* CONNECTION_FSM_EVENT_DISCONNECT for a connected station, from outside the
\* monitor.
LEMMA DisconnectLinked ==
    ASSUME NEW s \in Umac, Linked(s), s.inMon = FALSE
    PROVE  LET t == Disconnect(s) IN
           /\ t \in Umac
           /\ t.mode = "STA" /\ t.conn = "DISCONNECTED" /\ t.suspended = FALSE
           /\ Idle(t) /\ t.pending = s.pending
           /\ t.retry = s.retry /\ Answered(s, t)
           /\ t.started = TRUE /\ t.chipSta = "NONE"
           /\ SameFault(s, t)
  <1> DEFINE u == ConnectedExit(s)
             t == Disconnect(s)
  <1>1. /\ u \in Umac
        /\ u.wnm = "IDLE" /\ u.wnmTimer = FALSE /\ u.retry = s.retry
        /\ Answered(s, u)
        /\ u.paused = FALSE /\ u.veto = FALSE /\ u.monOff = FALSE
        /\ u.started = TRUE
        /\ u.mon = "DISABLED" /\ u.monTimer = FALSE
        /\ u.inMon = FALSE /\ u.pending = s.pending
        /\ SameConn(s, u) /\ SameFault(s, u)
    BY ConnectedExitEffect
  <1>2. t = DisconnectedEntry([u EXCEPT !.conn = "DISCONNECTED"])
    BY DEF Disconnect, Linked
  <1> HIDE DEF u, t
  <1>3. /\ t \in Umac
        /\ t.mode = u.mode /\ t.conn = "DISCONNECTED" /\ t.suspended = FALSE
        /\ t.started = TRUE /\ t.chipSta = "NONE"
        /\ SameMonitor(u, t) /\ SameRequest(u, t) /\ SameSleep(u, t)
        /\ SameFault(u, t)
    BY <1>1, <1>2, DownEffect
  <1>4. t.mode = "STA"
    BY <1>1, <1>3 DEF SameConn, Linked
  <1>5. Idle(t) /\ t.pending = s.pending
    BY <1>1, <1>3 DEF Idle, Answered, SameMonitor, SameRequest, SameSleep
  <1>6. t.retry = s.retry /\ Answered(s, t) /\ SameFault(s, t)
    BY <1>1, <1>3 DEF Answered, SameRequest, SameFault
  <1> QED
    BY <1>3, <1>4, <1>5, <1>6 DEF t

\* CONNECTION_FSM_EVENT_DISCONNECT that the monitor causes in its entry to
\* LOST.
LEMMA DisconnectLost ==
    ASSUME NEW s \in Umac, Linked(s), s.inMon = TRUE, s.pending = "NONE",
           s.mon = "LOST"
    PROVE  LET t == Disconnect(s) IN
           /\ t \in Umac
           /\ t.mode = "STA" /\ t.conn = "DISCONNECTED" /\ t.suspended = FALSE
           /\ t.wnm = "IDLE" /\ t.wnmTimer = FALSE
           /\ t.paused = FALSE /\ t.veto = FALSE /\ t.monOff = FALSE
           /\ t.mon = "LOST" /\ t.monTimer = FALSE /\ t.pending = "STOP"
           /\ t.retry = s.retry /\ Answered(s, t)
           /\ t.started = TRUE /\ t.chipSta = "NONE"
           /\ SameFault(s, t)
  <1> DEFINE u == ConnectedExit(s)
             t == Disconnect(s)
  <1>1. /\ u \in Umac
        /\ u.wnm = "IDLE" /\ u.wnmTimer = FALSE /\ u.retry = s.retry
        /\ Answered(s, u)
        /\ u.paused = FALSE /\ u.veto = FALSE /\ u.monOff = FALSE
        /\ u.started = TRUE
        /\ u.mon = "LOST" /\ u.monTimer = FALSE
        /\ u.inMon = TRUE /\ u.pending = "STOP"
        /\ SameConn(s, u) /\ SameFault(s, u)
    BY ConnectedExitLost
  <1>2. t = DisconnectedEntry([u EXCEPT !.conn = "DISCONNECTED"])
    BY DEF Disconnect, Linked
  <1> HIDE DEF u, t
  <1>3. /\ t \in Umac
        /\ t.mode = u.mode /\ t.conn = "DISCONNECTED" /\ t.suspended = FALSE
        /\ t.started = TRUE /\ t.chipSta = "NONE"
        /\ SameMonitor(u, t) /\ SameRequest(u, t) /\ SameSleep(u, t)
        /\ SameFault(u, t)
    BY <1>1, <1>2, DownEffect
  <1>4. t.mode = "STA"
    BY <1>1, <1>3 DEF SameConn, Linked
  <1>5. /\ t.wnm = "IDLE" /\ t.wnmTimer = FALSE
        /\ t.paused = FALSE /\ t.veto = FALSE /\ t.monOff = FALSE
        /\ t.mon = "LOST" /\ t.monTimer = FALSE /\ t.pending = "STOP"
    BY <1>1, <1>3 DEF SameMonitor, SameRequest, SameSleep
  <1>6. t.retry = s.retry /\ Answered(s, t) /\ SameFault(s, t)
    BY <1>1, <1>3 DEF Answered, SameRequest, SameFault
  <1> QED
    BY <1>3, <1>4, <1>5, <1>6 DEF t

-----------------------------------------------------------------------------
(* The invariant                                                           *)

\* The umacd part of the inductive invariant, between two handlers.
Sound(s) ==
    /\ s.fault # "EVENT"
    /\ s.inMon = FALSE /\ s.pending = "NONE" /\ s.mon # "LOST"
    /\ s.retry <= MaxRetry
    /\ s.conn = "CONNECTED" => Linked(s)
    /\ s.conn # "CONNECTED" => Idle(s)
    /\ s.conn \in {"AUTHENTICATING", "CONNECTING"} =>
         s.suspended = TRUE /\ s.mode = "STA"
    /\ s.conn \notin {"AUTHENTICATING", "CONNECTING"} => s.suspended = FALSE
    /\ s.conn = "DISCONNECTED" => s.chipSta = "NONE"
    /\ s.conn = "DISABLED" => s.mode = "NONE"
    /\ s.mode = "NONE" => s.started = FALSE
    /\ s.mode = "STA" /\ s.conn # "CONNECTED" => s.started = TRUE
    /\ s.wnm = "ACTIVE" =>
         /\ s.powerdown = TRUE => s.started = FALSE
         /\ s.powerdown = FALSE => s.chipWnm = TRUE

\* The part that ties a WNM sleep request to its caller.
Owned(s, a) ==
    /\ s.callback = TRUE =>
         /\ a.phase = "waiting" /\ s.reply = "NONE"
         /\ a.enabled = TRUE <=> s.wnm = "ENTRY_REQUESTED"
    /\ s.callback = FALSE => ~(a.phase = "waiting" /\ s.reply = "NONE")
    /\ s.reply # "NONE" => a.phase = "waiting"

\* The invariants that the runs check, together.
Inv ==
    /\ NoEventFault
    /\ MonitorFollows
    /\ SleepFollows
    /\ RequestOwned
    /\ DriverFollows
    /\ PowerSaveFollows

\* The fields of struct umac_data have their types.
LEMMA Fields ==
    ASSUME NEW s \in Umac
    PROVE  /\ s.mode \in Mode /\ s.conn \in ConnState /\ s.suspended \in BOOLEAN
           /\ s.mon \in MonState /\ s.inMon \in BOOLEAN /\ s.monOff \in BOOLEAN
           /\ s.monTimer \in BOOLEAN /\ s.wnm \in WnmState
           /\ s.callback \in BOOLEAN /\ s.wnmTimer \in BOOLEAN
           /\ s.powerdown \in BOOLEAN /\ s.paused \in BOOLEAN
           /\ s.veto \in BOOLEAN /\ s.started \in BOOLEAN
           /\ s.chipWnm \in BOOLEAN /\ s.failed \in Nat /\ s.retry \in Nat
           /\ s.reply \in Status \cup {"NONE"}
           /\ s.pending \in MonEvent \cup {"NONE"}
           /\ s.chipSta \in ChipSta /\ s.fault \in Fault
  BY DEF Umac

\* What the induction carries implies the invariants of UmacSta.
LEMMA SoundIsInv ==
    ASSUME TypeOK, Sound(umacd), Owned(umacd, api)
    PROVE  Inv
  <1>0. umacd \in Umac /\ api.enabled \in BOOLEAN
    BY DEF TypeOK
  <1>1. NoEventFault
    BY DEF NoEventFault, Sound
  <1>2. MonitorFollows
    BY <1>0, Fields DEF MonitorFollows, Sound, Linked, Idle
  <1>3. SleepFollows
    BY <1>0, Fields DEF SleepFollows, Sound, Linked, Idle, WnmState
  <1>4. RequestOwned
    BY <1>0, Fields DEF RequestOwned, Sound, Owned, Linked, Idle, WnmState,
                        Negotiating
  <1>5. DriverFollows
    BY <1>0, Fields DEF DriverFollows, Sound, Linked, Idle, Mode, ConnState
  <1>6. PowerSaveFollows
    BY <1>0, Fields DEF PowerSaveFollows, Sound, Linked
  <1> QED
    BY <1>1, <1>2, <1>3, <1>4, <1>5, <1>6 DEF Inv

-----------------------------------------------------------------------------
(* Losing the connection, starting and stopping                            *)

\* From s to t the connection was lost.
Dropped(s, t) ==
    /\ t \in Umac
    /\ t.mode = "STA" /\ t.conn = "DISCONNECTED" /\ t.suspended = FALSE
    /\ Idle(t) /\ t.pending = "NONE"
    /\ t.retry = s.retry /\ Answered(s, t)
    /\ t.started = TRUE /\ t.chipSta = "NONE"
    /\ SameFault(s, t)

\* t may follow s while the caller is in state a.
Step(s, t, a) ==
    /\ t \in Umac
    /\ Sound(t)
    /\ Owned(t, a)
    /\ s.reply = "NONE" /\ t.reply = "SUCCESS" /\ a.enabled = TRUE
         => s.wnm = "ENTRY_REQUESTED" /\ t.wnm = "ACTIVE"

\* Losing the connection keeps the ownership of requests, and answers none to
\* enter sleep with success.
LEMMA DroppedOwned ==
    ASSUME NEW s \in Umac, NEW t, NEW a, Owned(s, a), Answered(s, t)
    PROVE  /\ Owned(t, a)
           /\ s.reply = "NONE" /\ t.reply = "SUCCESS" => a.enabled # TRUE
  <1>1. s.callback \in BOOLEAN
    BY Fields
  <1>2. "NONE" \notin Status
    BY DEF Status
  <1> QED
    BY <1>1, <1>2 DEF Owned, Answered

\* A handler that ends disconnected preserves the invariant.
LEMMA DroppedStep ==
    ASSUME NEW s \in Umac, NEW t, NEW a, Sound(s), Owned(s, a), Dropped(s, t)
    PROVE  Step(s, t, a)
  <1>1. Sound(t)
    BY DEF Sound, Dropped, Idle, SameFault
  <1> QED
    BY <1>1, DroppedOwned DEF Step, Dropped

\* So does one that leaves the WNM request alone.
LEMMA QuietStep ==
    ASSUME NEW s \in Umac, NEW t \in Umac, NEW a, Owned(s, a), Sound(t),
           SameRequest(s, t)
    PROVE  Step(s, t, a)
  BY DEF Step, Owned, SameRequest

\* CONNECTION_FSM_EVENT_DISCONNECT, from every state between two handlers.
LEMMA DisconnectDrops ==
    ASSUME NEW s \in Umac, Sound(s), s.mode = "STA"
    PROVE  Dropped(s, Disconnect(s))
  <1> DEFINE t == Disconnect(s)
  <1>1. CASE s.conn = "CONNECTED"
    <2>1. Linked(s) /\ s.inMon = FALSE /\ s.pending = "NONE"
      BY <1>1 DEF Sound
    <2>2. /\ t \in Umac
          /\ t.mode = "STA" /\ t.conn = "DISCONNECTED" /\ t.suspended = FALSE
          /\ Idle(t) /\ t.pending = s.pending
          /\ t.retry = s.retry /\ Answered(s, t)
          /\ t.started = TRUE /\ t.chipSta = "NONE"
          /\ SameFault(s, t)
      BY <2>1, DisconnectLinked
    <2> HIDE DEF t
    <2> QED
      BY <2>1, <2>2 DEF t, Dropped
  <1>2. CASE s.conn # "CONNECTED"
    <2>1. /\ Idle(s) /\ s.pending = "NONE" /\ s.started = TRUE
          /\ s.conn = "DISCONNECTED" => s.suspended = FALSE /\ s.chipSta = "NONE"
      BY <1>2 DEF Sound
    <2>2. /\ t \in Umac
          /\ t.mode = s.mode /\ t.conn = "DISCONNECTED" /\ t.suspended = FALSE
          /\ t.started = TRUE /\ t.chipSta = "NONE"
          /\ SameMonitor(s, t) /\ SameRequest(s, t) /\ SameSleep(s, t)
          /\ SameFault(s, t)
      BY <1>2, <2>1, DisconnectIdle
    <2> HIDE DEF t
    <2>3. Idle(t) /\ t.pending = "NONE" /\ Answered(s, t) /\ t.retry = s.retry
      BY <2>1, <2>2 DEF Idle, Answered, SameMonitor, SameRequest, SameSleep
    <2> QED
      BY <2>2, <2>3 DEF t, Dropped
  <1> QED
    BY <1>1, <1>2

\* umac_connection_start for a station that is down.
LEMMA StartStep ==
    ASSUME NEW s \in Umac, NEW a, Sound(s), Owned(s, a), s.mode = "NONE"
    PROVE  Step(s, Disconnect([DrvInit(s) EXCEPT !.mode = "STA"]), a)
  <1> DEFINE u == DrvInit(s)
             v == [u EXCEPT !.mode = "STA"]
             t == Disconnect(v)
  <1>1. /\ u \in Umac
        /\ u.started = TRUE /\ u.chipSta = "NONE"
        /\ SameConn(s, u) /\ SameMonitor(s, u) /\ SameRequest(s, u)
        /\ SameSleep(s, u) /\ SameFault(s, u)
    BY DrvInitEffect
  <1> HIDE DEF u
  <1>2. /\ v \in Umac
        /\ v.mode = "STA" /\ v.conn = u.conn /\ v.suspended = u.suspended
        /\ SameMonitor(u, v) /\ SameRequest(u, v) /\ SameSleep(u, v)
        /\ SameDriver(u, v) /\ SameFault(u, v)
    <2>1. "STA" \in Mode
      BY DEF Mode
    <2> QED
      BY <1>1, <2>1, SetMode
  <1> HIDE DEF v
  <1>3. s.conn \in {"DISABLED", "DISCONNECTED"} /\ s.suspended = FALSE /\ Idle(s)
    BY Fields DEF Sound, Linked, ConnState
  <1>4. /\ Idle(v) /\ v.conn # "CONNECTED" /\ v.suspended = FALSE
        /\ v.started = TRUE /\ v.chipSta = "NONE"
    BY <1>1, <1>2, <1>3 DEF Idle, SameConn, SameMonitor, SameRequest, SameSleep,
                            SameDriver
  <1>5. /\ t \in Umac
        /\ t.mode = v.mode /\ t.conn = "DISCONNECTED" /\ t.suspended = FALSE
        /\ t.started = TRUE /\ t.chipSta = "NONE"
        /\ SameMonitor(v, t) /\ SameRequest(v, t) /\ SameSleep(v, t)
        /\ SameFault(v, t)
    BY <1>2, <1>4, DisconnectIdle
  <1> HIDE DEF t
  <1>6. /\ SameMonitor(s, t) /\ SameRequest(s, t) /\ SameSleep(s, t)
        /\ SameFault(s, t)
    BY <1>1, <1>2, <1>5 DEF SameMonitor, SameRequest, SameSleep, SameFault
  <1>7. s.callback = FALSE /\ s.pending = "NONE"
    BY <1>3 DEF Idle, Sound
  <1>8. Idle(t) /\ t.pending = "NONE" /\ Answered(s, t) /\ t.retry = s.retry
    BY <1>3, <1>6, <1>7 DEF Idle, Answered, SameMonitor, SameRequest, SameSleep
  <1>9. Dropped(s, t)
    BY <1>2, <1>5, <1>6, <1>8 DEF Dropped
  <1> QED
    BY <1>9, DroppedStep DEF t, v, u

\* umac_connection_stop.
LEMMA StopStep ==
    ASSUME NEW s \in Umac, NEW a, Sound(s), Owned(s, a), s.mode = "STA"
    PROVE  Step(s, [DrvDeinit(Disconnect(s)) EXCEPT !.mode = "NONE",
                                                     !.suspended = FALSE], a)
  <1> DEFINE u == Disconnect(s)
             v == DrvDeinit(u)
             t == [v EXCEPT !.mode = "NONE", !.suspended = FALSE]
  <1>1. Dropped(s, u)
    BY DisconnectDrops
  <1> HIDE DEF u
  <1>2. /\ v \in Umac
        /\ v.started = FALSE /\ v.chipSta = "NONE"
        /\ SameConn(u, v) /\ SameMonitor(u, v) /\ SameRequest(u, v)
        /\ SameSleep(u, v) /\ SameFault(u, v)
    BY <1>1, DrvDeinitEffect DEF Dropped
  <1> HIDE DEF v
  <1>3. /\ t \in Umac
        /\ t.mode = "NONE" /\ t.conn = v.conn /\ t.suspended = FALSE
        /\ SameMonitor(v, t) /\ SameRequest(v, t) /\ SameSleep(v, t)
        /\ SameDriver(v, t) /\ SameFault(v, t)
    <2>1. "NONE" \in Mode
      BY DEF Mode
    <2>2. t \in Umac /\ t.mode = "NONE" /\ t.conn = v.conn /\ t.suspended = FALSE
      BY <1>2, <2>1 DEF Umac
    <2>3. SameMonitor(v, t) /\ SameRequest(v, t)
      BY <1>2 DEF Umac, SameMonitor, SameRequest
    <2>4. SameSleep(v, t) /\ SameDriver(v, t) /\ SameFault(v, t)
      BY <1>2 DEF Umac, SameSleep, SameDriver, SameFault
    <2> QED
      BY <2>2, <2>3, <2>4
  <1> HIDE DEF t
  <1>4. t.conn = "DISCONNECTED" /\ t.started = FALSE /\ t.chipSta = "NONE"
    BY <1>1, <1>2, <1>3 DEF Dropped, SameConn, SameDriver
  <1>5. Idle(t) /\ t.pending = "NONE"
    BY <1>1, <1>2, <1>3 DEF Dropped, Idle, SameMonitor, SameRequest, SameSleep
  <1>6. t.retry = s.retry /\ Answered(s, t) /\ t.fault = s.fault
    BY <1>1, <1>2, <1>3 DEF Dropped, Answered, SameRequest, SameFault
  <1>7. Sound(t)
    BY <1>3, <1>4, <1>5, <1>6 DEF Sound, Idle
  <1> QED
    BY <1>3, <1>6, <1>7, DroppedOwned DEF Step, t, v, u

-----------------------------------------------------------------------------
(* Connecting                                                              *)

\* umac_connection_process_auth_req.
LEMMA AuthenticatingStep ==
    ASSUME NEW s \in Umac, NEW a, Sound(s), Owned(s, a), s.mode = "STA",
           s.conn # "CONNECTED"
    PROVE  Step(s, Authenticating(s), a)
  <1> DEFINE u == [s EXCEPT !.conn = "AUTHENTICATING"]
             t == Authenticating(s)
  <1>1. t = SetSuspended(u, TRUE)
    BY DEF Authenticating
  <1>2. /\ u \in Umac
        /\ u.mode = s.mode /\ u.conn = "AUTHENTICATING"
        /\ SameMonitor(s, u) /\ SameRequest(s, u) /\ SameSleep(s, u)
        /\ SameDriver(s, u) /\ SameFault(s, u)
    <2>1. "AUTHENTICATING" \in ConnState
      BY DEF ConnState
    <2> QED
      BY <2>1, SetConn
  <1> HIDE DEF u, t
  <1>3. Idle(s) /\ s.started = TRUE
    BY DEF Sound
  <1>4. u.started = TRUE
    BY <1>2, <1>3 DEF SameDriver
  <1>5. /\ t \in Umac
        /\ t.mode = u.mode /\ t.conn = u.conn /\ t.suspended = TRUE
        /\ SameMonitor(u, t) /\ SameRequest(u, t) /\ SameSleep(u, t)
        /\ SameDriver(u, t) /\ SameFault(u, t)
    BY <1>1, <1>2, <1>4, SetSuspendedEffect
  <1>6. /\ SameMonitor(s, t) /\ SameRequest(s, t) /\ SameSleep(s, t)
        /\ SameDriver(s, t) /\ SameFault(s, t)
    BY <1>2, <1>5 DEF SameMonitor, SameRequest, SameSleep, SameDriver, SameFault
  <1>7. Idle(t) /\ t.started = TRUE
    BY <1>3, <1>6 DEF Idle, SameMonitor, SameRequest, SameSleep, SameDriver
  <1>8. /\ t.fault = s.fault /\ t.pending = s.pending /\ t.retry = s.retry
    BY <1>6 DEF SameFault, SameMonitor, SameRequest
  <1>9. Sound(t)
    BY <1>2, <1>5, <1>7, <1>8 DEF Sound, Idle
  <1> QED
    BY <1>5, <1>6, <1>9, QuietStep DEF t

\* umac_connection_process_assoc_req.
LEMMA ConnectingStep ==
    ASSUME NEW s \in Umac, NEW a, Sound(s), Owned(s, a), s.mode = "STA",
           s.conn = "AUTHENTICATING"
    PROVE  Step(s, Connecting(s), a)
  <1> DEFINE u == [s EXCEPT !.conn = "CONNECTING"]
             t == Connecting(s)
  <1>1. t = DrvSetSta(u, "AUTHENTICATED")
    BY DEF Connecting
  <1>2. /\ u \in Umac
        /\ u.mode = s.mode /\ u.conn = "CONNECTING" /\ u.suspended = s.suspended
        /\ SameMonitor(s, u) /\ SameRequest(s, u) /\ SameSleep(s, u)
        /\ SameDriver(s, u) /\ SameFault(s, u)
    <2>1. "CONNECTING" \in ConnState
      BY DEF ConnState
    <2> QED
      BY <2>1, SetConn
  <1> HIDE DEF u, t
  <1>3. Idle(s) /\ s.started = TRUE /\ s.suspended = TRUE
    BY DEF Sound
  <1>4. u.started = TRUE
    BY <1>2, <1>3 DEF SameDriver
  <1>5. /\ t \in Umac
        /\ t.started = TRUE
        /\ SameConn(u, t) /\ SameMonitor(u, t) /\ SameRequest(u, t)
        /\ SameSleep(u, t) /\ SameFault(u, t)
    BY <1>1, <1>2, <1>4, DrvSetStaEffect DEF ChipSta
  <1>6. /\ SameMonitor(s, t) /\ SameRequest(s, t) /\ SameSleep(s, t)
        /\ SameFault(s, t)
    BY <1>2, <1>5 DEF SameMonitor, SameRequest, SameSleep, SameFault
  <1>7. t.mode = "STA" /\ t.conn = "CONNECTING" /\ t.suspended = TRUE
    BY <1>2, <1>3, <1>5 DEF SameConn
  <1>8. Idle(t)
    BY <1>3, <1>6 DEF Idle, SameMonitor, SameRequest, SameSleep
  <1>9. /\ t.fault = s.fault /\ t.pending = s.pending /\ t.retry = s.retry
    BY <1>6 DEF SameFault, SameMonitor, SameRequest
  <1>10. Sound(t)
    BY <1>5, <1>7, <1>8, <1>9 DEF Sound, Idle
  <1> QED
    BY <1>5, <1>6, <1>10, QuietStep DEF t

\* umac_connection_handle_port_state(open).
LEMMA ConnectedStep ==
    ASSUME NEW s \in Umac, NEW a, Sound(s), Owned(s, a), s.mode = "STA",
           s.conn = "CONNECTING"
    PROVE  Step(s, Connected(s), a)
  <1> DEFINE u == [s EXCEPT !.conn = "CONNECTED"]
             v == SetSuspended(u, FALSE)
             w == DrvSetSta(v, "AUTHORIZED")
             t == Connected(s)
  <1>1. /\ u \in Umac
        /\ u.mode = s.mode /\ u.conn = "CONNECTED"
        /\ SameMonitor(s, u) /\ SameRequest(s, u) /\ SameSleep(s, u)
        /\ SameDriver(s, u) /\ SameFault(s, u)
    <2>1. "CONNECTED" \in ConnState
      BY DEF ConnState
    <2> QED
      BY <2>1, SetConn
  <1>2. t = IF w.monOff THEN w ELSE MonHandle(w, "START")
    BY DEF Connected
  <1> HIDE DEF u, t
  <1>3. Idle(s) /\ s.started = TRUE
    BY DEF Sound
  <1>4. u.started = TRUE
    BY <1>1, <1>3 DEF SameDriver
  <1>5. /\ v \in Umac
        /\ v.mode = u.mode /\ v.conn = u.conn /\ v.suspended = FALSE
        /\ SameMonitor(u, v) /\ SameRequest(u, v) /\ SameSleep(u, v)
        /\ SameDriver(u, v) /\ SameFault(u, v)
    BY <1>1, <1>4, SetSuspendedEffect
  <1> HIDE DEF v
  <1>6. v.started = TRUE
    BY <1>4, <1>5 DEF SameDriver
  <1>7. /\ w \in Umac
        /\ w.started = TRUE /\ w.chipSta = "AUTHORIZED"
        /\ SameConn(v, w) /\ SameMonitor(v, w) /\ SameRequest(v, w)
        /\ SameSleep(v, w) /\ SameFault(v, w)
    BY <1>5, <1>6, DrvSetStaEffect DEF ChipSta
  <1> HIDE DEF w
  <1>8. /\ SameMonitor(s, w) /\ SameRequest(s, w) /\ SameSleep(s, w)
        /\ SameFault(s, w)
    BY <1>1, <1>5, <1>7 DEF SameMonitor, SameRequest, SameSleep, SameFault
  <1>9. Idle(w) /\ w.pending = "NONE"
    BY <1>3, <1>8 DEF Idle, Sound, SameMonitor, SameRequest, SameSleep
  <1>10. t = MonHandle(w, "START")
    BY <1>2, <1>9 DEF Idle
  <1>11. /\ t \in Umac
         /\ t.mon = "STABLE" /\ t.monTimer = FALSE
         /\ t.inMon = FALSE /\ t.pending = w.pending /\ t.monOff = w.monOff
         /\ SameConn(w, t) /\ SameRequest(w, t) /\ SameSleep(w, t)
         /\ SameDriver(w, t) /\ SameFault(w, t)
    BY <1>7, <1>9, <1>10, MonStartEffect DEF Idle
  <1>12. /\ t.mode = "STA" /\ t.conn = "CONNECTED" /\ t.suspended = FALSE
         /\ t.started = TRUE /\ t.chipSta = "AUTHORIZED"
    BY <1>1, <1>5, <1>7, <1>11 DEF SameConn, SameDriver
  <1>13. /\ t.wnm = "IDLE" /\ t.callback = FALSE /\ t.wnmTimer = FALSE
         /\ t.paused = FALSE /\ t.veto = FALSE /\ t.monOff = FALSE
    BY <1>9, <1>11 DEF Idle, SameRequest, SameSleep
  <1>14. SameRequest(s, t) /\ t.retry = s.retry /\ t.fault = s.fault
    BY <1>8, <1>11 DEF SameRequest, SameFault
  <1>15. Linked(t)
    BY <1>11, <1>12, <1>13 DEF Linked, Negotiating
  <1>16. Sound(t)
    BY <1>9, <1>11, <1>12, <1>13, <1>14, <1>15 DEF Sound
  <1> QED
    BY <1>11, <1>14, <1>16, QuietStep DEF t

\* A connected station is sound if it is linked and its driver follows its
\* sleep.
LEMMA LinkedSound ==
    ASSUME NEW t, Linked(t), t.suspended = FALSE, t.fault # "EVENT",
           t.inMon = FALSE, t.pending = "NONE", t.mon # "LOST",
           t.retry <= MaxRetry,
           t.wnm = "ACTIVE" => /\ t.powerdown = TRUE => t.started = FALSE
                               /\ t.powerdown = FALSE => t.chipWnm = TRUE
    PROVE  Sound(t)
  BY DEF Linked, Sound

-----------------------------------------------------------------------------
(* The connection monitor                                                  *)

\* umac_connection_handle_beacon_loss and an acknowledged frame.
LEMMA MonEventStep ==
    ASSUME NEW s \in Umac, NEW a, NEW e \in {"BEACON_LOSS", "ACKED"},
           Sound(s), Owned(s, a), s.mon \in {"STABLE", "UNSTABLE"}
    PROVE  Step(s, MonHandle(s, e), a)
  <1> DEFINE t == MonHandle(s, e)
             to == IF e = "ACKED" THEN "STABLE" ELSE "UNSTABLE"
  <1>1. t = MonStep(s, e)
    BY DEF MonHandle, Sound
  <1>2. MonNext(s.mon, e) = to
    BY DEF MonNext
  <1>3. e \in MonEvent /\ to \in {"STABLE", "UNSTABLE"}
    BY DEF MonEvent
  <1> HIDE DEF t, to
  <1>4. /\ t \in Umac
        /\ t.mon = to /\ t.monTimer = TimerAfter(s.mon, to, s.monTimer)
        /\ t.inMon = s.inMon /\ t.pending = s.pending /\ t.monOff = s.monOff
        /\ SameConn(s, t) /\ SameRequest(s, t) /\ SameSleep(s, t)
        /\ SameDriver(s, t) /\ SameFault(s, t)
    BY <1>1, <1>2, <1>3, MonStepEffect
  <1>5. Linked(s) /\ s.wnm # "ACTIVE" /\ s.conn = "CONNECTED"
    BY DEF Sound, Linked, Idle
  <1>6. /\ to = "UNSTABLE" => t.monTimer = TRUE
        /\ to # "UNSTABLE" => t.monTimer = FALSE
    <2>1. CASE to = "UNSTABLE"
      BY <1>4, <2>1 DEF TimerAfter
    <2>2. CASE to # "UNSTABLE" /\ s.mon = "UNSTABLE"
      BY <1>4, <2>2 DEF TimerAfter
    <2>3. CASE to # "UNSTABLE" /\ s.mon # "UNSTABLE"
      <3>1. t.monTimer = s.monTimer
        BY <1>4, <2>3 DEF TimerAfter
      <3> QED
        BY <1>5, <2>3, <3>1 DEF Linked
    <2> QED
      BY <2>1, <2>2, <2>3
  <1>7. Linked(t)
    <2>1. /\ t.mode = s.mode /\ t.conn = s.conn /\ t.wnm = s.wnm
          /\ t.callback = s.callback /\ t.wnmTimer = s.wnmTimer
          /\ t.powerdown = s.powerdown
      BY <1>4 DEF SameConn, SameRequest
    <2>2. /\ t.paused = s.paused /\ t.veto = s.veto
          /\ t.started = s.started /\ t.chipSta = s.chipSta
      BY <1>4 DEF SameSleep, SameDriver
    <2>3. t.mon # "DISABLED" /\ t.monOff = s.monOff
      BY <1>3, <1>4
    <2>4. /\ t.mon = "UNSTABLE" => t.monTimer = TRUE
          /\ t.mon # "UNSTABLE" => t.monTimer = FALSE
      BY <1>4, <1>6
    <2> QED
      BY <1>5, <2>1, <2>2, <2>3, <2>4 DEF Linked
  <1>8. Sound(t)
    <2>1. /\ t.suspended = s.suspended /\ t.fault = s.fault
          /\ t.retry = s.retry /\ t.wnm = s.wnm
      BY <1>4 DEF SameConn, SameRequest, SameFault
    <2>2. /\ s.suspended = FALSE /\ s.fault # "EVENT" /\ s.retry <= MaxRetry
          /\ s.inMon = FALSE /\ s.pending = "NONE"
      BY <1>5 DEF Sound
    <2>3. t.mon # "LOST"
      BY <1>3, <1>4
    <2> QED
      BY <1>4, <1>5, <1>7, <2>1, <2>2, <2>3, LinkedSound
  <1> QED
    BY <1>4, <1>8, QuietStep DEF t

\* connection_mon_fsm_handle_event for UNRESPONSIVE: the disconnection runs
\* inside the monitor, whose pending STOP is handled before it returns.
LEMMA UnresponsiveDrops ==
    ASSUME NEW s \in Umac, Sound(s), s.mon = "UNSTABLE"
    PROVE  Dropped(s, MonUnresponsive(s))
  <1> DEFINE i == [s EXCEPT !.inMon = TRUE]
             lost == MonStep(i, "UNRESPONSIVE")
             shut == Disconnect(lost)
             last == MonStep(shut, "STOP")
             t == MonUnresponsive(s)
  <1>1. /\ Linked(s) /\ s.wnm # "ACTIVE" /\ s.inMon = FALSE
        /\ s.pending = "NONE"
    BY DEF Sound, Linked, Idle
  <1>2. /\ i \in Umac
        /\ i.mon = s.mon /\ i.inMon = TRUE /\ i.pending = s.pending
        /\ i.monOff = s.monOff
        /\ SameConn(s, i) /\ SameRequest(s, i) /\ SameSleep(s, i)
        /\ SameDriver(s, i) /\ SameFault(s, i)
    BY SetInMon
  <1>3. t = LET l == IF shut.pending = "NONE" THEN shut
                     ELSE MonStep(shut, shut.pending)
            IN  [l EXCEPT !.pending = "NONE", !.inMon = FALSE]
    BY DEF MonUnresponsive
  <1> HIDE DEF i, t
  <1>4. /\ lost \in Umac
        /\ lost.mon = "LOST" /\ lost.monTimer = FALSE
        /\ lost.inMon = TRUE /\ lost.pending = "NONE" /\ lost.monOff = s.monOff
        /\ SameConn(i, lost) /\ SameRequest(i, lost) /\ SameSleep(i, lost)
        /\ SameDriver(i, lost) /\ SameFault(i, lost)
    <2>1. MonNext(i.mon, "UNRESPONSIVE") = "LOST"
      BY <1>2 DEF MonNext
    <2>2. TimerAfter(i.mon, "LOST", i.monTimer) = FALSE
      BY <1>2 DEF TimerAfter
    <2>3. "UNRESPONSIVE" \in MonEvent
      BY DEF MonEvent
    <2> QED
      BY <1>1, <1>2, <2>1, <2>2, <2>3, MonStepEffect
  <1> HIDE DEF lost
  <1>5. Linked(lost)
    <2>1. /\ lost.mode = s.mode /\ lost.conn = s.conn /\ lost.wnm = s.wnm
          /\ lost.callback = s.callback /\ lost.wnmTimer = s.wnmTimer
          /\ lost.powerdown = s.powerdown
      BY <1>2, <1>4 DEF SameConn, SameRequest
    <2>2. /\ lost.paused = s.paused /\ lost.veto = s.veto
          /\ lost.started = s.started /\ lost.chipSta = s.chipSta
      BY <1>2, <1>4 DEF SameSleep, SameDriver
    <2> QED
      BY <1>1, <1>4, <2>1, <2>2 DEF Linked
  <1>6. /\ shut \in Umac
        /\ shut.mode = "STA" /\ shut.conn = "DISCONNECTED"
        /\ shut.suspended = FALSE
        /\ shut.wnm = "IDLE" /\ shut.wnmTimer = FALSE
        /\ shut.paused = FALSE /\ shut.veto = FALSE /\ shut.monOff = FALSE
        /\ shut.mon = "LOST" /\ shut.monTimer = FALSE /\ shut.pending = "STOP"
        /\ shut.retry = lost.retry /\ Answered(lost, shut)
        /\ shut.started = TRUE /\ shut.chipSta = "NONE"
        /\ SameFault(lost, shut)
    BY <1>4, <1>5, DisconnectLost
  <1> HIDE DEF shut
  <1>7. t = [last EXCEPT !.pending = "NONE", !.inMon = FALSE]
    BY <1>3, <1>6
  <1>8. /\ last \in Umac
        /\ last.mon = "DISABLED" /\ last.monTimer = FALSE
        /\ last.monOff = shut.monOff
        /\ SameConn(shut, last) /\ SameRequest(shut, last)
        /\ SameSleep(shut, last) /\ SameDriver(shut, last)
        /\ SameFault(shut, last)
    <2>1. MonNext(shut.mon, "STOP") = "DISABLED"
      BY <1>6 DEF MonNext
    <2>2. TimerAfter(shut.mon, "DISABLED", shut.monTimer) = FALSE
      BY <1>6 DEF TimerAfter
    <2>3. "STOP" \in MonEvent
      BY DEF MonEvent
    <2> QED
      BY <1>6, <2>1, <2>2, <2>3, MonStepEffect
  <1> HIDE DEF last
  <1>9. /\ t \in Umac
        /\ t.mon = last.mon /\ t.monTimer = last.monTimer
        /\ t.monOff = last.monOff /\ t.inMon = FALSE /\ t.pending = "NONE"
        /\ SameConn(last, t) /\ SameRequest(last, t) /\ SameSleep(last, t)
        /\ SameDriver(last, t) /\ SameFault(last, t)
    <2>1. t \in Umac
      BY <1>7, <1>8 DEF Umac
    <2>2. /\ t.mon = last.mon /\ t.monTimer = last.monTimer
          /\ t.monOff = last.monOff /\ t.inMon = FALSE /\ t.pending = "NONE"
      BY <1>7, <1>8 DEF Umac
    <2>3. SameConn(last, t) /\ SameRequest(last, t) /\ SameSleep(last, t)
      BY <1>7, <1>8 DEF Umac, SameConn, SameRequest, SameSleep
    <2>4. SameDriver(last, t) /\ SameFault(last, t)
      BY <1>7, <1>8 DEF Umac, SameDriver, SameFault
    <2> QED
      BY <2>1, <2>2, <2>3, <2>4
  <1>10. /\ t.mode = "STA" /\ t.conn = "DISCONNECTED" /\ t.suspended = FALSE
         /\ t.started = TRUE /\ t.chipSta = "NONE"
    BY <1>6, <1>8, <1>9 DEF SameConn, SameDriver
  <1>11. /\ t.wnm = "IDLE" /\ t.wnmTimer = FALSE
         /\ t.paused = FALSE /\ t.veto = FALSE
    BY <1>6, <1>8, <1>9 DEF SameRequest, SameSleep
  <1>12. t.retry = s.retry /\ Answered(s, t)
    <2>1. /\ lost.callback = s.callback /\ lost.reply = s.reply
          /\ lost.wnm = s.wnm /\ lost.retry = s.retry
      BY <1>2, <1>4 DEF SameRequest
    <2>2. /\ t.callback = shut.callback /\ t.reply = shut.reply
          /\ t.retry = shut.retry
      BY <1>8, <1>9 DEF SameRequest
    <2> QED
      BY <1>6, <2>1, <2>2 DEF Answered
  <1>13. SameFault(s, t)
    BY <1>2, <1>4, <1>6, <1>8, <1>9 DEF SameFault
  <1>14. Idle(t)
    BY <1>6, <1>8, <1>9, <1>11, <1>12 DEF Idle, Answered
  <1> QED
    BY <1>9, <1>10, <1>12, <1>13, <1>14 DEF Dropped, t

\* umac_connection_process_failed_ap_query.
LEMMA FailedApQueryStep ==
    ASSUME NEW s \in Umac, NEW a, Sound(s), Owned(s, a), s.mon = "UNSTABLE"
    PROVE  Step(s, FailedApQuery(s), a)
  <1> DEFINE n == s.failed + 1
             f == [s EXCEPT !.failed = n]
             t == FailedApQuery(s)
  <1>1. n \in Nat
    BY Fields
  <1>2. t = IF f.failed >= MaxQueries THEN MonUnresponsive(f) ELSE f
    BY DEF FailedApQuery
  <1> HIDE DEF n, t
  <1>3. /\ f \in Umac
        /\ f.mon = s.mon /\ f.inMon = s.inMon /\ f.pending = s.pending
        /\ f.monOff = s.monOff /\ f.monTimer = s.monTimer
        /\ SameConn(s, f) /\ SameRequest(s, f) /\ SameSleep(s, f)
        /\ SameDriver(s, f) /\ SameFault(s, f)
    BY <1>1, SetFailed
  <1> HIDE DEF f
  <1>4. /\ Linked(s) /\ s.wnm # "ACTIVE" /\ s.suspended = FALSE
        /\ s.fault # "EVENT" /\ s.retry <= MaxRetry
        /\ s.inMon = FALSE /\ s.pending = "NONE"
    BY DEF Sound, Linked, Idle
  <1>5. Sound(f)
    <2>1. /\ f.mode = s.mode /\ f.conn = s.conn /\ f.suspended = s.suspended
          /\ f.wnm = s.wnm /\ f.callback = s.callback
          /\ f.wnmTimer = s.wnmTimer /\ f.powerdown = s.powerdown
          /\ f.retry = s.retry
      BY <1>3 DEF SameConn, SameRequest
    <2>2. /\ f.paused = s.paused /\ f.veto = s.veto
          /\ f.started = s.started /\ f.chipSta = s.chipSta
          /\ f.fault = s.fault
      BY <1>3 DEF SameSleep, SameDriver, SameFault
    <2>3. Linked(f)
      BY <1>3, <1>4, <2>1, <2>2 DEF Linked
    <2> QED
      BY <1>3, <1>4, <2>1, <2>2, <2>3, LinkedSound
  <1>6. Owned(f, a) /\ f.reply = s.reply /\ f.wnm = s.wnm
    BY <1>3 DEF Owned, SameRequest
  <1>7. CASE f.failed >= MaxQueries
    <2>1. Dropped(f, t)
      BY <1>2, <1>3, <1>5, <1>7, UnresponsiveDrops
    <2>2. Step(f, t, a)
      BY <1>3, <1>5, <1>6, <2>1, DroppedStep
    <2> QED
      BY <1>6, <2>2 DEF Step, t
  <1>8. CASE ~(f.failed >= MaxQueries)
    <2>1. t = f
      BY <1>2, <1>8
    <2> QED
      BY <1>3, <1>5, <2>1, QuietStep DEF t
  <1> QED
    BY <1>7, <1>8

\* umac_connection_monitor_check, which only fires in UNSTABLE.
LEMMA MonitorCheckStep ==
    ASSUME NEW s \in Umac, NEW a, NEW sent \in BOOLEAN, Sound(s), Owned(s, a),
           s.monTimer = TRUE
    PROVE  LET off == [s EXCEPT !.monTimer = FALSE]
               again == [off EXCEPT !.monTimer = TRUE]
           IN  Step(s, CASE off.mon # "UNSTABLE" -> off
                         [] off.mon = "UNSTABLE" /\ sent -> again
                         [] OTHER -> FailedApQuery(again), a)
  <1> DEFINE off == [s EXCEPT !.monTimer = FALSE]
             again == [off EXCEPT !.monTimer = TRUE]
  <1>1. s.mon = "UNSTABLE"
    BY DEF Sound, Linked, Idle
  <1>2. off.mon = "UNSTABLE"
    BY <1>1 DEF Umac
  <1>3. again = s
    BY DEF Umac
  <1>4. Step(s, s, a)
    BY QuietStep DEF SameRequest
  <1>5. Step(s, FailedApQuery(s), a)
    BY <1>1, FailedApQueryStep
  <1> HIDE DEF off, again
  <1>6. Step(s, CASE off.mon # "UNSTABLE" -> off
                  [] off.mon = "UNSTABLE" /\ sent -> again
                  [] OTHER -> FailedApQuery(again), a)
    BY <1>2, <1>3, <1>4, <1>5
  <1> QED
    BY <1>6 DEF off, again

-----------------------------------------------------------------------------
(* The end of a WNM sleep request                                          *)

\* A request that ends in IDLE preserves the invariant.
LEMMA EndedStep ==
    ASSUME NEW s \in Umac, NEW t \in Umac, NEW a, Sound(s), Owned(s, a),
           s.wnm \in Negotiating,
           t.wnm = "IDLE", t.callback = FALSE, t.wnmTimer = FALSE,
           t.reply \in Status,
           t.reply = "SUCCESS" => s.wnm # "ENTRY_REQUESTED",
           t.retry = s.retry,
           SameConn(s, t), SameMonitor(s, t), SameSleep(s, t),
           SameDriver(s, t), SameFault(s, t)
    PROVE  Step(s, t, a)
  <1>1. /\ Linked(s) /\ s.wnm # "ACTIVE" /\ s.suspended = FALSE
        /\ s.callback = TRUE
        /\ s.fault # "EVENT" /\ s.retry <= MaxRetry
        /\ s.inMon = FALSE /\ s.pending = "NONE" /\ s.mon # "LOST"
    BY DEF Sound, Linked, Idle, Negotiating
  <1>2. /\ t.mode = s.mode /\ t.conn = s.conn /\ t.suspended = s.suspended
        /\ t.mon = s.mon /\ t.inMon = s.inMon /\ t.pending = s.pending
        /\ t.monOff = s.monOff /\ t.monTimer = s.monTimer
    BY DEF SameConn, SameMonitor
  <1>3. /\ t.paused = s.paused /\ t.veto = s.veto
        /\ t.started = s.started /\ t.chipSta = s.chipSta
        /\ t.fault = s.fault
    BY DEF SameSleep, SameDriver, SameFault
  <1>4. Linked(t)
    BY <1>1, <1>2, <1>3 DEF Linked, Negotiating
  <1>5. Sound(t)
    BY <1>1, <1>2, <1>3, <1>4, LinkedSound
  <1>6. Owned(t, a) /\ ~(t.reply = "SUCCESS" /\ a.enabled = TRUE)
    <2>1. "NONE" \notin Status
      BY DEF Status
    <2>2. a.phase = "waiting" /\ (a.enabled = TRUE <=> s.wnm = "ENTRY_REQUESTED")
      BY <1>1 DEF Owned
    <2> QED
      BY <2>1, <2>2 DEF Owned
  <1> QED
    BY <1>5, <1>6 DEF Step

\* WNM_SLEEP_EVENT_EXIT_CONFIRMED, also when nobody asked.
LEMMA ExitConfirmedStep ==
    ASSUME NEW s \in Umac, NEW a, Sound(s), Owned(s, a), s.mode = "STA",
           s.conn = "CONNECTED"
    PROVE  Step(s, Report(s, "EXIT_CONFIRMED"), a)
  <1> DEFINE e == "EXIT_CONFIRMED"
             t == Report(s, e)
  <1>1. CASE s.wnm = "EXIT_REQUESTED"
    <2>1. t = WnmHandle(s, e)
      BY <1>1 DEF Report, Check, Expects
    <2>2. WnmNext(s.wnm, e) = "IDLE" /\ ExitStatus(s.wnm, e) = "SUCCESS"
      BY <1>1 DEF WnmNext, ExitStatus
    <2>3. s.wnm \in Negotiating /\ s.callback = TRUE
      BY <1>1 DEF Sound, Linked, Negotiating
    <2> HIDE DEF t
    <2>4. /\ t \in Umac
          /\ t.wnm = "IDLE" /\ t.callback = FALSE /\ t.wnmTimer = FALSE
          /\ t.reply = "SUCCESS" /\ t.retry = s.retry
          /\ SameConn(s, t) /\ SameMonitor(s, t) /\ SameSleep(s, t)
          /\ SameDriver(s, t) /\ SameFault(s, t)
      BY <2>1, <2>2, <2>3, RequestEnds
    <2>5. "SUCCESS" \in Status
      BY DEF Status
    <2> QED
      BY <1>1, <2>3, <2>4, <2>5, EndedStep DEF t
  <1>2. CASE s.wnm # "EXIT_REQUESTED"
    <2>1. t = s
      BY <1>2 DEF Report, Check, Expects
    <2>2. Step(s, s, a)
      BY QuietStep DEF SameRequest
    <2> QED
      BY <2>1, <2>2
  <1> QED
    BY <1>1, <1>2

\* WNM_SLEEP_EVENT_ENTRY_CONFIRMED, also when nobody asked.
LEMMA EntryConfirmedStep ==
    ASSUME NEW s \in Umac, NEW a, Sound(s), Owned(s, a), s.mode = "STA",
           s.conn = "CONNECTED"
    PROVE  Step(s, Report(s, "ENTRY_CONFIRMED"), a)
  <1> DEFINE e == "ENTRY_CONFIRMED"
             t == Report(s, e)
  <1>1. CASE s.wnm = "ENTRY_REQUESTED"
    <2> DEFINE u == RequestedExit(s, e)
               v == [u EXCEPT !.wnm = "ACTIVE"]
    <2>1. /\ s.callback = TRUE /\ s.started = TRUE /\ s.suspended = FALSE
          /\ s.monOff = FALSE /\ s.inMon = FALSE /\ s.mon # "DISABLED"
          /\ s.mon = "UNSTABLE" => s.monTimer = TRUE
          /\ s.mon # "UNSTABLE" => s.monTimer = FALSE
          /\ s.pending = "NONE" /\ s.fault # "EVENT" /\ s.retry <= MaxRetry
          /\ s.chipSta = "AUTHORIZED"
      BY <1>1 DEF Sound, Linked, Negotiating
    <2>2. /\ u \in Umac
          /\ u.callback = FALSE /\ u.reply = "SUCCESS"
          /\ u.retry = s.retry /\ u.wnmTimer = FALSE
          /\ SameConn(s, u) /\ SameMonitor(s, u) /\ SameDriver(s, u)
          /\ SameFault(s, u)
      <3>1. ExitStatus(s.wnm, e) = "SUCCESS"
        BY <1>1 DEF ExitStatus
      <3> QED
        BY <2>1, <3>1, RequestedExitEffect
    <2>3. t = WnmEnter(v)
      <3>1. t = WnmHandle(s, e)
        BY <1>1 DEF Report, Check, Expects
      <3>2. WnmNext(s.wnm, e) = "ACTIVE"
        BY <1>1 DEF WnmNext
      <3>3. WnmLeave(s, e) = u
        BY <1>1 DEF WnmLeave
      <3> QED
        BY <3>1, <3>2, <3>3 DEF WnmHandle
    <2> HIDE DEF u, t
    <2>4. /\ v \in Umac
          /\ v.wnm = "ACTIVE" /\ v.callback = u.callback /\ v.reply = u.reply
          /\ v.retry = u.retry /\ v.wnmTimer = u.wnmTimer
          /\ SameConn(u, v) /\ SameMonitor(u, v) /\ SameDriver(u, v)
          /\ SameFault(u, v)
      <3>1. "ACTIVE" \in WnmState
        BY DEF WnmState
      <3> QED
        BY <2>2, <3>1, SetWnm
    <2> HIDE DEF v
    <2>5. t = ActiveEntry(v)
      BY <2>3, <2>4 DEF WnmEnter
    <2>6. /\ v.conn = "CONNECTED" /\ v.mode = "STA" /\ v.suspended = FALSE
          /\ v.started = TRUE /\ v.chipSta = "AUTHORIZED"
          /\ v.monOff = FALSE /\ v.inMon = FALSE /\ v.mon # "DISABLED"
          /\ v.pending = "NONE" /\ v.mon = s.mon /\ v.monTimer = s.monTimer
      BY <2>1, <2>2, <2>4 DEF SameConn, SameMonitor, SameDriver
    <2>7. v.monTimer = (v.mon = "UNSTABLE")
      BY <2>1, <2>6
    <2>8. /\ t \in Umac
          /\ t.mon = "DISABLED" /\ t.monTimer = FALSE /\ t.monOff = TRUE
          /\ t.inMon = FALSE /\ t.pending = v.pending
          /\ t.paused = TRUE /\ t.veto = TRUE
          /\ v.powerdown = TRUE => t.started = FALSE
          /\ v.powerdown = FALSE => /\ t.started = TRUE /\ t.chipWnm = TRUE
                                    /\ t.chipSta = v.chipSta
          /\ SameConn(v, t) /\ SameRequest(v, t) /\ SameFault(v, t)
      BY <2>4, <2>5, <2>6, <2>7, ActiveEntryEffect
    <2>9. /\ t.mode = "STA" /\ t.conn = "CONNECTED" /\ t.suspended = FALSE
          /\ t.wnm = "ACTIVE" /\ t.callback = FALSE /\ t.reply = "SUCCESS"
          /\ t.retry = s.retry /\ t.wnmTimer = FALSE
          /\ t.powerdown = v.powerdown
      BY <2>2, <2>4, <2>6, <2>8 DEF SameConn, SameRequest
    <2>10. t.fault # "EVENT"
      BY <2>1, <2>2, <2>4, <2>8 DEF SameFault
    <2>11. t.powerdown = TRUE \/ t.powerdown = FALSE
      BY <2>8, Fields
    <2>12. Linked(t)
      BY <2>6, <2>8, <2>9, <2>11 DEF Linked, Negotiating
    <2>13. Sound(t)
      BY <2>1, <2>6, <2>8, <2>9, <2>10, <2>12, LinkedSound
    <2>14. Owned(t, a)
      BY <2>1, <2>9 DEF Owned
    <2> QED
      BY <1>1, <2>8, <2>9, <2>13, <2>14 DEF Step, t
  <1>2. CASE s.wnm # "ENTRY_REQUESTED"
    <2>1. t = s
      BY <1>2 DEF Report, Check, Expects
    <2>2. Step(s, s, a)
      BY QuietStep DEF SameRequest
    <2> QED
      BY <2>1, <2>2
  <1> QED
    BY <1>1, <1>2

\* umac_wnm_sleep_retry_request with retries left: the timeout is armed again
\* and the caller goes on waiting.
LEMMA RetryStep ==
    ASSUME NEW s \in Umac, NEW a, Sound(s), Owned(s, a), s.wnmTimer = TRUE,
           s.retry < MaxRetry
    PROVE  LET off == [s EXCEPT !.wnmTimer = FALSE] IN
           Step(s, WnmHandle([off EXCEPT !.retry = @ + 1], "RETRY_REQUEST"), a)
  <1> DEFINE n == s.retry + 1
             e == "RETRY_REQUEST"
             off == [s EXCEPT !.wnmTimer = FALSE]
             v == [off EXCEPT !.retry = @ + 1]
             u == [s EXCEPT !.wnmTimer = FALSE, !.retry = n]
             t == WnmHandle(v, e)
  <1>1. n \in Nat /\ n <= MaxRetry
    BY Fields, StaAssumption
  <1>2. v = u
    BY DEF Umac
  <1>3. /\ s.conn = "CONNECTED" /\ Linked(s) /\ s.wnm \in Negotiating
    BY DEF Sound, Linked, Idle
  <1> HIDE DEF n, v
  <1>4. u \in Umac /\ u.wnm = s.wnm
    BY <1>1 DEF Umac
  <1>5. t = [s EXCEPT !.retry = n]
    <2>1. WnmNext(u.wnm, e) = s.wnm /\ s.wnm # "ERROR"
      BY <1>3, <1>4 DEF WnmNext, Negotiating
    <2>2. WnmLeave(u, e) = [u EXCEPT !.wnmTimer = FALSE]
      BY <1>3, <1>4 DEF WnmLeave, RequestedExit, Negotiating
    <2> DEFINE w == [[u EXCEPT !.wnmTimer = FALSE] EXCEPT !.wnm = s.wnm]
    <2>3. t = WnmEnter(w)
      BY <1>2, <2>1, <2>2 DEF WnmHandle
    <2>4. w = u
      BY <1>4 DEF Umac
    <2> HIDE DEF w
    <2>5. t = [u EXCEPT !.wnmTimer = TRUE]
      BY <1>3, <1>4, <2>3, <2>4 DEF WnmEnter, RequestedEntry, Negotiating
    <2>6. [u EXCEPT !.wnmTimer = TRUE] = [s EXCEPT !.retry = n]
      BY <1>1 DEF Umac
    <2> QED
      BY <2>5, <2>6
  <1> HIDE DEF t
  <1>6. /\ t \in Umac
        /\ t.wnm = s.wnm /\ t.callback = s.callback /\ t.reply = s.reply
        /\ t.retry = n /\ t.wnmTimer = s.wnmTimer
        /\ t.powerdown = s.powerdown
        /\ SameConn(s, t) /\ SameMonitor(s, t) /\ SameSleep(s, t)
        /\ SameDriver(s, t) /\ SameFault(s, t)
    BY <1>1, <1>5, SetRetry
  <1>7. /\ t.mode = s.mode /\ t.conn = s.conn /\ t.suspended = s.suspended
        /\ t.mon = s.mon /\ t.inMon = s.inMon /\ t.pending = s.pending
        /\ t.monOff = s.monOff /\ t.monTimer = s.monTimer
    BY <1>6 DEF SameConn, SameMonitor
  <1>8. /\ t.paused = s.paused /\ t.veto = s.veto
        /\ t.started = s.started /\ t.chipSta = s.chipSta
        /\ t.fault = s.fault
    BY <1>6 DEF SameSleep, SameDriver, SameFault
  <1>9. Linked(t)
    BY <1>3, <1>6, <1>7, <1>8 DEF Linked
  <1>10. /\ s.suspended = FALSE /\ s.fault # "EVENT" /\ s.wnm # "ACTIVE"
         /\ s.inMon = FALSE /\ s.pending = "NONE" /\ s.mon # "LOST"
    BY <1>3 DEF Sound, Negotiating
  <1>11. Sound(t)
    BY <1>1, <1>6, <1>7, <1>8, <1>9, <1>10, LinkedSound
  <1>12. Owned(t, a)
    BY <1>6 DEF Owned
  <1> QED
    BY <1>6, <1>11, <1>12 DEF Step, t, v, off

\* umac_wnm_sleep_retry_request with none left: the caller gets its answer.
LEMMA ExhaustedStep ==
    ASSUME NEW s \in Umac, NEW a, Sound(s), Owned(s, a), s.wnmTimer = TRUE
    PROVE  Step(s, WnmHandle([s EXCEPT !.wnmTimer = FALSE],
                             "RETRIES_EXHAUSTED"), a)
  <1> DEFINE e == "RETRIES_EXHAUSTED"
             u == [s EXCEPT !.wnmTimer = FALSE]
             t == WnmHandle(u, e)
  <1>1. s.wnm \in Negotiating /\ s.callback = TRUE
    BY DEF Sound, Linked, Idle
  <1>2. /\ u \in Umac
        /\ u.wnm = s.wnm /\ u.callback = s.callback /\ u.retry = s.retry
        /\ SameConn(s, u) /\ SameMonitor(s, u) /\ SameSleep(s, u)
        /\ SameDriver(s, u) /\ SameFault(s, u)
    BY DEF Umac, SameConn, SameMonitor, SameSleep, SameDriver, SameFault
  <1> HIDE DEF u
  <1>3. WnmNext(u.wnm, e) = "IDLE" /\ ExitStatus(u.wnm, e) = "TIMED_OUT"
    BY <1>1, <1>2 DEF WnmNext, ExitStatus, Negotiating
  <1>4. /\ t \in Umac
        /\ t.wnm = "IDLE" /\ t.callback = FALSE /\ t.wnmTimer = FALSE
        /\ t.reply = "TIMED_OUT" /\ t.retry = u.retry
        /\ SameConn(u, t) /\ SameMonitor(u, t) /\ SameSleep(u, t)
        /\ SameDriver(u, t) /\ SameFault(u, t)
    BY <1>1, <1>2, <1>3, RequestEnds
  <1> HIDE DEF t
  <1>5. /\ SameConn(s, t) /\ SameMonitor(s, t) /\ SameSleep(s, t)
        /\ SameDriver(s, t) /\ SameFault(s, t)
    BY <1>2, <1>4 DEF SameConn, SameMonitor, SameSleep, SameDriver, SameFault
  <1>6. "TIMED_OUT" \in Status /\ "TIMED_OUT" # "SUCCESS"
    BY DEF Status
  <1> QED
    BY <1>1, <1>2, <1>4, <1>5, <1>6, EndedStep DEF t, u

-----------------------------------------------------------------------------
(* Hardware restart                                                        *)

\* hw_restart_evt_handler with the driver started.
LEMMA HwRestartStep ==
    ASSUME NEW s \in Umac, NEW a, Sound(s), Owned(s, a), s.mode = "STA",
           s.started = TRUE
    PROVE  Step(s, HandleHwRestarted(DrvInit(DrvDeinit(s))), a)
  <1> DEFINE d == DrvDeinit(s)
             u == DrvInit(d)
             t == HandleHwRestarted(u)
  <1>1. /\ d \in Umac
        /\ SameConn(s, d) /\ SameMonitor(s, d) /\ SameRequest(s, d)
        /\ SameSleep(s, d) /\ SameFault(s, d)
    BY DrvDeinitEffect
  <1> HIDE DEF d
  <1>2. /\ u \in Umac
        /\ u.started = TRUE
        /\ SameConn(d, u) /\ SameMonitor(d, u) /\ SameRequest(d, u)
        /\ SameSleep(d, u) /\ SameFault(d, u)
    BY <1>1, DrvInitEffect
  <1> HIDE DEF u
  <1>3. /\ SameConn(s, u) /\ SameMonitor(s, u) /\ SameRequest(s, u)
        /\ SameSleep(s, u) /\ SameFault(s, u)
    BY <1>1, <1>2 DEF SameConn, SameMonitor, SameRequest, SameSleep, SameFault
  <1>4. u.mode = "STA" /\ u.conn = s.conn /\ u.wnm = s.wnm
    BY <1>3 DEF SameConn, SameRequest
  <1>5. /\ t \in Umac
        /\ t.started = TRUE
        /\ s.conn = "CONNECTED" => t.chipSta = "AUTHORIZED"
        /\ s.conn # "CONNECTED" => t.chipSta = "NONE"
        /\ s.wnm = "ACTIVE" => t.chipWnm = TRUE
        /\ t.paused = s.paused /\ t.veto = s.veto
        /\ SameConn(u, t) /\ SameMonitor(u, t) /\ SameRequest(u, t)
        /\ SameFault(u, t)
    <2>1. CASE s.wnm = "ACTIVE"
      <3>1. s.conn = "CONNECTED" /\ s.veto = TRUE
        BY <2>1 DEF Sound, Linked, Idle
      <3>2. /\ t \in Umac
            /\ t.started = TRUE /\ t.chipWnm = TRUE /\ t.chipSta = "AUTHORIZED"
            /\ t.paused = u.paused /\ t.veto = TRUE
            /\ SameConn(u, t) /\ SameMonitor(u, t) /\ SameRequest(u, t)
            /\ SameFault(u, t)
        BY <1>2, <1>4, <2>1, <3>1, HwRestartedAsleep
      <3>3. t.paused = s.paused
        BY <1>3, <3>2 DEF SameSleep
      <3> HIDE DEF t
      <3> QED
        BY <3>1, <3>2, <3>3
    <2>2. CASE s.wnm # "ACTIVE"
      <3>1. /\ t \in Umac
            /\ t.started = TRUE
            /\ t.chipSta = IF u.conn = "CONNECTED" THEN "AUTHORIZED" ELSE "NONE"
            /\ SameConn(u, t) /\ SameMonitor(u, t) /\ SameRequest(u, t)
            /\ SameSleep(u, t) /\ SameFault(u, t)
        BY <1>2, <1>4, <2>2, HwRestartedAwake
      <3> HIDE DEF t
      <3>2. t.paused = s.paused /\ t.veto = s.veto
        BY <1>3, <3>1 DEF SameSleep
      <3> QED
        BY <1>4, <2>2, <3>1, <3>2
    <2> QED
      BY <2>1, <2>2
  <1> HIDE DEF t
  <1>6. SameRequest(s, t)
    BY <1>3, <1>5 DEF SameRequest
  <1>7. /\ t.mode = s.mode /\ t.conn = s.conn /\ t.suspended = s.suspended
        /\ t.mon = s.mon /\ t.inMon = s.inMon /\ t.pending = s.pending
        /\ t.monOff = s.monOff /\ t.monTimer = s.monTimer
        /\ t.fault = s.fault
    BY <1>3, <1>5 DEF SameConn, SameMonitor, SameFault
  <1>8. /\ t.wnm = s.wnm /\ t.callback = s.callback /\ t.wnmTimer = s.wnmTimer
        /\ t.powerdown = s.powerdown /\ t.retry = s.retry
    BY <1>6 DEF SameRequest
  <1>9. Sound(t)
    <2>1. CASE s.conn = "CONNECTED"
      <3>1. Linked(s)
        BY <2>1 DEF Sound
      <3>2. Linked(t)
        BY <1>5, <1>7, <1>8, <2>1, <3>1 DEF Linked
      <3>3. /\ s.suspended = FALSE /\ s.fault # "EVENT" /\ s.retry <= MaxRetry
            /\ s.inMon = FALSE /\ s.pending = "NONE" /\ s.mon # "LOST"
            /\ s.wnm = "ACTIVE" => s.powerdown # TRUE
        BY <2>1 DEF Sound
      <3> QED
        BY <1>5, <1>7, <1>8, <3>2, <3>3, LinkedSound
    <2>2. CASE s.conn # "CONNECTED"
      <3>1. Idle(s) /\ s.wnm # "ACTIVE"
        BY <2>2 DEF Sound, Idle
      <3>2. Idle(t)
        BY <1>5, <1>7, <1>8, <3>1 DEF Idle
      <3> QED
        BY <1>5, <1>7, <1>8, <2>2, <3>1, <3>2 DEF Sound
    <2> QED
      BY <2>1, <2>2
  <1> QED
    BY <1>5, <1>6, <1>9, QuietStep DEF t, u, d

\* hw_restart_evt_handler with the driver stopped: the program ends in the
\* assertion of mmdrv_deinit, and in no other.
LEMMA DeinitFaultStep ==
    ASSUME NEW s \in Umac, NEW a, Sound(s), Owned(s, a), s.started = FALSE
    PROVE  Step(s, DrvDeinit(s), a)
  <1> DEFINE t == DrvDeinit(s)
  <1>1. t = [s EXCEPT !.fault = "DRIVER"]
    BY DEF DrvDeinit
  <1> HIDE DEF t
  <1>2. /\ t \in Umac /\ t.fault = "DRIVER"
        /\ SameConn(s, t) /\ SameMonitor(s, t) /\ SameRequest(s, t)
        /\ SameSleep(s, t) /\ SameDriver(s, t)
    <2>1. "DRIVER" \in Fault
      BY DEF Fault
    <2> QED
      BY <1>1, <2>1 DEF Umac, SameConn, SameMonitor, SameRequest, SameSleep,
                        SameDriver
  <1>3. /\ t.mode = s.mode /\ t.conn = s.conn /\ t.suspended = s.suspended
        /\ t.mon = s.mon /\ t.inMon = s.inMon /\ t.pending = s.pending
        /\ t.monOff = s.monOff /\ t.monTimer = s.monTimer
    BY <1>2 DEF SameConn, SameMonitor
  <1>4. /\ t.wnm = s.wnm /\ t.callback = s.callback /\ t.wnmTimer = s.wnmTimer
        /\ t.powerdown = s.powerdown /\ t.retry = s.retry
        /\ t.paused = s.paused /\ t.veto = s.veto
        /\ t.started = s.started /\ t.chipSta = s.chipSta
        /\ t.chipWnm = s.chipWnm
    BY <1>2 DEF SameRequest, SameSleep, SameDriver
  <1>5. Sound(t)
    <2>1. /\ s.conn = "CONNECTED" => Linked(t)
          /\ s.conn # "CONNECTED" => Idle(t)
      BY <1>3, <1>4 DEF Sound, Linked, Idle
    <2> QED
      BY <1>2, <1>3, <1>4, <2>1 DEF Sound
  <1> QED
    BY <1>2, <1>5, QuietStep DEF t

-----------------------------------------------------------------------------
(* The beginning of a WNM sleep request                                    *)

\* umac_wnm_sleep_register_semb.
LEMMA RegisterSembEffect ==
    ASSUME NEW s \in Umac
    PROVE  LET t == RegisterSemb(s) IN
           /\ t \in Umac
           /\ t.callback = TRUE /\ t.retry = 0
           /\ t.wnm = s.wnm /\ t.reply = s.reply /\ t.wnmTimer = s.wnmTimer
           /\ t.powerdown = s.powerdown
           /\ SameConn(s, t) /\ SameMonitor(s, t) /\ SameSleep(s, t)
           /\ SameDriver(s, t) /\ SameFault(s, t)
  <1> DEFINE t == RegisterSemb(s)
  <1>1. t = [s EXCEPT !.callback = TRUE, !.retry = 0]
    BY DEF RegisterSemb
  <1> HIDE DEF t
  <1>2. t \in Umac
    BY <1>1 DEF Umac
  <1>3. /\ t.callback = TRUE /\ t.retry = 0
        /\ t.wnm = s.wnm /\ t.reply = s.reply /\ t.wnmTimer = s.wnmTimer
        /\ t.powerdown = s.powerdown
    BY <1>1 DEF Umac
  <1>4. /\ SameConn(s, t) /\ SameMonitor(s, t) /\ SameSleep(s, t)
        /\ SameDriver(s, t) /\ SameFault(s, t)
    BY <1>1 DEF Umac, SameConn, SameMonitor, SameSleep, SameDriver, SameFault
  <1> QED
    BY <1>2, <1>3, <1>4 DEF t

\* umac_wnm_sleep_set_chip_powerdown leaves a sleeping station alone.
LEMMA SetChipPowerdownEffect ==
    ASSUME NEW s \in Umac, NEW on \in BOOLEAN
    PROVE  LET t == SetChipPowerdown(s, on) IN
           /\ t \in Umac
           /\ s.wnm = "ACTIVE" => t.powerdown = s.powerdown
           /\ t.callback = s.callback /\ t.retry = s.retry /\ t.wnm = s.wnm
           /\ t.reply = s.reply /\ t.wnmTimer = s.wnmTimer
           /\ SameConn(s, t) /\ SameMonitor(s, t) /\ SameSleep(s, t)
           /\ SameDriver(s, t) /\ SameFault(s, t)
  <1> DEFINE t == SetChipPowerdown(s, on)
  <1>1. CASE s.wnm \in {"ENTRY_REQUESTED", "ACTIVE"}
    <2>1. t = s
      BY <1>1 DEF SetChipPowerdown
    <2> HIDE DEF t
    <2> QED
      BY <2>1 DEF t, SameConn, SameMonitor, SameSleep, SameDriver, SameFault
  <1>2. CASE s.wnm \notin {"ENTRY_REQUESTED", "ACTIVE"}
    <2>1. t = [s EXCEPT !.powerdown = on]
      BY <1>2 DEF SetChipPowerdown
    <2> HIDE DEF t
    <2>2. /\ t \in Umac
          /\ t.callback = s.callback /\ t.retry = s.retry /\ t.wnm = s.wnm
          /\ t.reply = s.reply /\ t.wnmTimer = s.wnmTimer
          /\ SameConn(s, t) /\ SameMonitor(s, t) /\ SameSleep(s, t)
          /\ SameDriver(s, t) /\ SameFault(s, t)
      BY <2>1, SetPowerdown
    <2> QED
      BY <1>2, <2>2 DEF t
  <1> QED
    BY <1>1, <1>2

\* From s to u a caller was registered for its answer.
Registered(s, u) ==
    /\ u \in Umac
    /\ u.callback = TRUE /\ u.retry = 0
    /\ u.wnm = s.wnm /\ u.reply = s.reply /\ u.wnmTimer = s.wnmTimer
    /\ s.wnm = "ACTIVE" => u.powerdown = s.powerdown
    /\ SameConn(s, u) /\ SameMonitor(s, u) /\ SameSleep(s, u)
    /\ SameDriver(s, u) /\ SameFault(s, u)

\* umac_set_wnm_sleep_evt_handler up to its report of ENABLE.
LEMMA EnableRegisters ==
    ASSUME NEW s \in Umac, NEW on \in BOOLEAN
    PROVE  Registered(s, SetChipPowerdown(RegisterSemb(s), on))
  <1> DEFINE u == RegisterSemb(s)
             t == SetChipPowerdown(u, on)
  <1>1. /\ u \in Umac
        /\ u.callback = TRUE /\ u.retry = 0
        /\ u.wnm = s.wnm /\ u.reply = s.reply /\ u.wnmTimer = s.wnmTimer
        /\ u.powerdown = s.powerdown
        /\ SameConn(s, u) /\ SameMonitor(s, u) /\ SameSleep(s, u)
        /\ SameDriver(s, u) /\ SameFault(s, u)
    BY RegisterSembEffect
  <1> HIDE DEF u
  <1>2. /\ t \in Umac
        /\ u.wnm = "ACTIVE" => t.powerdown = u.powerdown
        /\ t.callback = u.callback /\ t.retry = u.retry /\ t.wnm = u.wnm
        /\ t.reply = u.reply /\ t.wnmTimer = u.wnmTimer
        /\ SameConn(u, t) /\ SameMonitor(u, t) /\ SameSleep(u, t)
        /\ SameDriver(u, t) /\ SameFault(u, t)
    BY <1>1, SetChipPowerdownEffect
  <1> HIDE DEF t
  <1>3. /\ SameConn(s, t) /\ SameMonitor(s, t) /\ SameSleep(s, t)
        /\ SameDriver(s, t) /\ SameFault(s, t)
    BY <1>1, <1>2 DEF SameConn, SameMonitor, SameSleep, SameDriver, SameFault
  <1> QED
    BY <1>1, <1>2, <1>3 DEF Registered, t, u

\* umac_set_wnm_sleep_evt_handler up to its report of DISABLE.
LEMMA DisableRegisters ==
    ASSUME NEW s \in Umac
    PROVE  Registered(s, RegisterSemb(s))
  <1> DEFINE u == RegisterSemb(s)
  <1>1. /\ u \in Umac
        /\ u.callback = TRUE /\ u.retry = 0
        /\ u.wnm = s.wnm /\ u.reply = s.reply /\ u.wnmTimer = s.wnmTimer
        /\ u.powerdown = s.powerdown
        /\ SameConn(s, u) /\ SameMonitor(s, u) /\ SameSleep(s, u)
        /\ SameDriver(s, u) /\ SameFault(s, u)
    BY RegisterSembEffect
  <1> HIDE DEF u
  <1> QED
    BY <1>1 DEF Registered, u

\* The frames of Registered, field by field.
LEMMA RegisteredFields ==
    ASSUME NEW s \in Umac, NEW u, Registered(s, u)
    PROVE  /\ u \in Umac
           /\ u.mode = s.mode /\ u.conn = s.conn /\ u.suspended = s.suspended
           /\ u.mon = s.mon /\ u.inMon = s.inMon /\ u.pending = s.pending
           /\ u.monOff = s.monOff /\ u.monTimer = s.monTimer
           /\ u.paused = s.paused /\ u.veto = s.veto
           /\ u.started = s.started /\ u.chipWnm = s.chipWnm
           /\ u.chipSta = s.chipSta /\ u.fault = s.fault
  <1>1. /\ SameConn(s, u) /\ SameMonitor(s, u) /\ SameSleep(s, u)
        /\ SameDriver(s, u) /\ SameFault(s, u)
    BY DEF Registered
  <1>2. /\ u.mode = s.mode /\ u.conn = s.conn /\ u.suspended = s.suspended
        /\ u.mon = s.mon /\ u.inMon = s.inMon /\ u.pending = s.pending
        /\ u.monOff = s.monOff /\ u.monTimer = s.monTimer
    BY <1>1 DEF SameConn, SameMonitor
  <1>3. /\ u.paused = s.paused /\ u.veto = s.veto
        /\ u.started = s.started /\ u.chipWnm = s.chipWnm
        /\ u.chipSta = s.chipSta /\ u.fault = s.fault
    BY <1>1 DEF SameSleep, SameDriver, SameFault
  <1> QED
    BY <1>2, <1>3 DEF Registered

\* A request for the state the station is in already is turned down at once.
LEMMA TurnedDownStep ==
    ASSUME NEW s \in Umac, NEW u, NEW a, Sound(s), Registered(s, u),
           s.conn = "CONNECTED", s.callback = FALSE, a.phase = "waiting"
    PROVE  Step(s, Answer(u, "UNAVAILABLE"), a)
  <1> DEFINE t == Answer(u, "UNAVAILABLE")
  <1>1. "UNAVAILABLE" \in Status /\ "UNAVAILABLE" # "SUCCESS"
    BY DEF Status
  <1>2. u \in Umac /\ u.callback = TRUE /\ u.retry = 0 /\ u.wnm = s.wnm
        /\ u.wnmTimer = s.wnmTimer
        /\ (s.wnm = "ACTIVE" => u.powerdown = s.powerdown)
    BY DEF Registered
  <1>3. /\ t \in Umac
        /\ t.callback = FALSE /\ t.reply = "UNAVAILABLE"
        /\ t.wnm = u.wnm /\ t.retry = u.retry /\ t.wnmTimer = u.wnmTimer
        /\ t.powerdown = u.powerdown
        /\ SameConn(u, t) /\ SameMonitor(u, t) /\ SameSleep(u, t)
        /\ SameDriver(u, t) /\ SameFault(u, t)
    BY <1>1, <1>2, AnswerEffect
  <1> HIDE DEF t
  <1>4. /\ t.mode = s.mode /\ t.conn = s.conn /\ t.suspended = s.suspended
        /\ t.mon = s.mon /\ t.inMon = s.inMon /\ t.pending = s.pending
        /\ t.monOff = s.monOff /\ t.monTimer = s.monTimer
    BY <1>3, RegisteredFields DEF SameConn, SameMonitor
  <1>5. /\ t.paused = s.paused /\ t.veto = s.veto
        /\ t.started = s.started /\ t.chipWnm = s.chipWnm
        /\ t.chipSta = s.chipSta /\ t.fault = s.fault
    BY <1>3, RegisteredFields DEF SameSleep, SameDriver, SameFault
  <1>6. /\ Linked(s) /\ s.suspended = FALSE /\ s.fault # "EVENT"
        /\ s.inMon = FALSE /\ s.pending = "NONE" /\ s.mon # "LOST"
        /\ s.wnm = "ACTIVE" => /\ s.powerdown = TRUE => s.started = FALSE
                               /\ s.powerdown = FALSE => s.chipWnm = TRUE
    BY DEF Sound
  <1>7. s.wnm \notin Negotiating /\ s.wnmTimer = FALSE
    BY <1>6 DEF Linked
  <1>8. Linked(t)
    BY <1>2, <1>3, <1>4, <1>5, <1>6, <1>7 DEF Linked
  <1>9. 0 <= MaxRetry
    BY StaAssumption
  <1>10. Sound(t)
    BY <1>2, <1>3, <1>4, <1>5, <1>6, <1>8, <1>9, LinkedSound
  <1>11. Owned(t, a)
    BY <1>3 DEF Owned
  <1> QED
    BY <1>1, <1>3, <1>10, <1>11 DEF Step, t

\* A request is taken on by a station that is awake, or that woke up for it.
LEMMA TakenOnStep ==
    ASSUME NEW s, NEW u \in Umac, NEW a, NEW to \in Negotiating,
           u.mode = "STA", u.conn = "CONNECTED", u.suspended = FALSE,
           u.fault # "EVENT", u.inMon = FALSE, u.pending = "NONE",
           u.mon \in {"STABLE", "UNSTABLE"},
           u.mon = "UNSTABLE" => u.monTimer = TRUE,
           u.mon # "UNSTABLE" => u.monTimer = FALSE,
           u.paused = FALSE, u.veto = FALSE, u.monOff = FALSE,
           u.started = TRUE, u.chipSta = "AUTHORIZED",
           u.callback = TRUE, u.reply = "NONE", u.retry = 0,
           a.phase = "waiting", a.enabled = TRUE <=> to = "ENTRY_REQUESTED"
    PROVE  Step(s, WnmEnter([u EXCEPT !.wnm = to]), a)
  <1> DEFINE v == [u EXCEPT !.wnm = to]
             t == WnmEnter(v)
  <1>1. to \in WnmState
    BY DEF WnmState, Negotiating
  <1>2. /\ v \in Umac
        /\ v.wnm = to /\ v.callback = u.callback /\ v.reply = u.reply
        /\ v.retry = u.retry
        /\ SameConn(u, v) /\ SameMonitor(u, v) /\ SameSleep(u, v)
        /\ SameDriver(u, v) /\ SameFault(u, v)
    BY <1>1, SetWnm
  <1> HIDE DEF v
  <1>3. t = [v EXCEPT !.wnmTimer = TRUE]
    BY <1>2 DEF WnmEnter, RequestedEntry, Negotiating
  <1> HIDE DEF t
  <1>4. /\ t \in Umac
        /\ t.wnm = v.wnm /\ t.callback = v.callback /\ t.reply = v.reply
        /\ t.retry = v.retry /\ t.wnmTimer = TRUE
        /\ SameConn(v, t) /\ SameMonitor(v, t) /\ SameSleep(v, t)
        /\ SameDriver(v, t) /\ SameFault(v, t)
    <2>1. t \in Umac
      BY <1>2, <1>3 DEF Umac
    <2>2. /\ t.wnm = v.wnm /\ t.callback = v.callback /\ t.reply = v.reply
          /\ t.retry = v.retry /\ t.wnmTimer = TRUE
      BY <1>2, <1>3 DEF Umac
    <2>3. /\ SameConn(v, t) /\ SameMonitor(v, t) /\ SameSleep(v, t)
          /\ SameDriver(v, t) /\ SameFault(v, t)
      BY <1>2, <1>3 DEF Umac, SameConn, SameMonitor, SameSleep, SameDriver,
                        SameFault
    <2> QED
      BY <2>1, <2>2, <2>3
  <1>5. /\ t.mode = u.mode /\ t.conn = u.conn /\ t.suspended = u.suspended
        /\ t.mon = u.mon /\ t.inMon = u.inMon /\ t.pending = u.pending
        /\ t.monOff = u.monOff /\ t.monTimer = u.monTimer
    BY <1>2, <1>4 DEF SameConn, SameMonitor
  <1>6. /\ t.paused = u.paused /\ t.veto = u.veto
        /\ t.started = u.started /\ t.chipSta = u.chipSta
        /\ t.fault = u.fault
    BY <1>2, <1>4 DEF SameSleep, SameDriver, SameFault
  <1>7. to # "ACTIVE" /\ to # "IDLE"
    BY DEF Negotiating
  <1>8. Linked(t)
    BY <1>2, <1>4, <1>5, <1>6, <1>7 DEF Linked
  <1>9. 0 <= MaxRetry
    BY StaAssumption
  <1>10. Sound(t)
    BY <1>2, <1>4, <1>5, <1>6, <1>7, <1>8, <1>9, LinkedSound
  <1>11. Owned(t, a)
    BY <1>2, <1>4 DEF Owned
  <1> QED
    BY <1>2, <1>4, <1>10, <1>11 DEF Step, t, v

\* WNM_SLEEP_EVENT_ENABLE, asleep or awake.
LEMMA EnableStep ==
    ASSUME NEW s \in Umac, NEW u, NEW a, Sound(s), Registered(s, u),
           s.conn = "CONNECTED", s.callback = FALSE, s.reply = "NONE",
           a.phase = "waiting", a.enabled = TRUE
    PROVE  Step(s, Report(u, "ENABLE"), a)
  <1> DEFINE t == Report(u, "ENABLE")
  <1>1. Linked(s) /\ s.wnm \in {"IDLE", "ACTIVE"}
    BY Fields DEF Sound, Linked, Negotiating, WnmState
  <1>2. /\ u \in Umac /\ u.callback = TRUE /\ u.retry = 0 /\ u.wnm = s.wnm
        /\ u.reply = s.reply
    BY DEF Registered
  <1>3. /\ u.mode = s.mode /\ u.conn = s.conn /\ u.suspended = s.suspended
        /\ u.mon = s.mon /\ u.inMon = s.inMon /\ u.pending = s.pending
        /\ u.monOff = s.monOff /\ u.monTimer = s.monTimer
        /\ u.paused = s.paused /\ u.veto = s.veto
        /\ u.started = s.started /\ u.chipSta = s.chipSta
        /\ u.fault = s.fault
    BY RegisteredFields
  <1>4. u.mode = "STA" /\ u.conn = "CONNECTED"
    BY <1>1, <1>3 DEF Linked
  <1>5. CASE s.wnm = "ACTIVE"
    <2>1. t = Answer(u, "UNAVAILABLE")
      BY <1>2, <1>4, <1>5 DEF Report, Check, Expects
    <2>2. Step(s, Answer(u, "UNAVAILABLE"), a)
      BY TurnedDownStep
    <2> HIDE DEF t
    <2> QED
      BY <2>1, <2>2 DEF t
  <1>6. CASE s.wnm = "IDLE"
    <2>1. t = WnmHandle(u, "ENABLE")
      BY <1>2, <1>4, <1>6 DEF Report, Check, Expects
    <2>2. WnmNext(u.wnm, "ENABLE") = "ENTRY_REQUESTED"
      BY <1>2, <1>6 DEF WnmNext
    <2>3. WnmLeave(u, "ENABLE") = u
      BY <1>2, <1>6 DEF WnmLeave
    <2> HIDE DEF t
    <2>4. t = WnmEnter([u EXCEPT !.wnm = "ENTRY_REQUESTED"])
      BY <2>1, <2>2, <2>3 DEF WnmHandle
    <2>5. /\ s.suspended = FALSE /\ s.fault # "EVENT" /\ s.inMon = FALSE
          /\ s.pending = "NONE" /\ s.mon # "LOST"
      BY DEF Sound
    <2>6. /\ s.mon # "DISABLED"
          /\ s.mon = "UNSTABLE" => s.monTimer = TRUE
          /\ s.mon # "UNSTABLE" => s.monTimer = FALSE
          /\ s.paused = FALSE /\ s.veto = FALSE /\ s.monOff = FALSE
          /\ s.started = TRUE /\ s.chipSta = "AUTHORIZED"
      BY <1>1, <1>6 DEF Linked
    <2>7. s.mon \in {"STABLE", "UNSTABLE"}
      BY <2>5, <2>6, Fields DEF MonState
    <2>8. "ENTRY_REQUESTED" \in Negotiating
      BY DEF Negotiating
    <2>9. Step(s, WnmEnter([u EXCEPT !.wnm = "ENTRY_REQUESTED"]), a)
      BY <1>2, <1>3, <1>4, <2>5, <2>6, <2>7, <2>8, TakenOnStep
    <2> QED
      BY <2>4, <2>9 DEF t
  <1> QED
    BY <1>1, <1>5, <1>6

\* WNM_SLEEP_EVENT_DISABLE, asleep or awake.
LEMMA DisableStep ==
    ASSUME NEW s \in Umac, NEW u, NEW a, Sound(s), Registered(s, u),
           s.conn = "CONNECTED", s.callback = FALSE, s.reply = "NONE",
           a.phase = "waiting", a.enabled = FALSE
    PROVE  Step(s, Report(u, "DISABLE"), a)
  <1> DEFINE t == Report(u, "DISABLE")
  <1>1. Linked(s) /\ s.wnm \in {"IDLE", "ACTIVE"}
    BY Fields DEF Sound, Linked, Negotiating, WnmState
  <1>2. /\ u \in Umac /\ u.callback = TRUE /\ u.retry = 0 /\ u.wnm = s.wnm
        /\ u.reply = s.reply
        /\ s.wnm = "ACTIVE" => u.powerdown = s.powerdown
    BY DEF Registered
  <1>3. /\ u.mode = s.mode /\ u.conn = s.conn /\ u.suspended = s.suspended
        /\ u.mon = s.mon /\ u.inMon = s.inMon /\ u.pending = s.pending
        /\ u.monOff = s.monOff /\ u.monTimer = s.monTimer
        /\ u.paused = s.paused /\ u.veto = s.veto
        /\ u.started = s.started /\ u.chipSta = s.chipSta
        /\ u.fault = s.fault
    BY RegisteredFields
  <1>4. u.mode = "STA" /\ u.conn = "CONNECTED"
    BY <1>1, <1>3 DEF Linked
  <1>5. CASE s.wnm = "IDLE"
    <2>1. t = Answer(u, "UNAVAILABLE")
      BY <1>2, <1>4, <1>5 DEF Report, Check, Expects
    <2>2. Step(s, Answer(u, "UNAVAILABLE"), a)
      BY TurnedDownStep
    <2> HIDE DEF t
    <2> QED
      BY <2>1, <2>2 DEF t
  <1>6. CASE s.wnm = "ACTIVE"
    <2> DEFINE w == ActiveExit(u)
    <2>1. t = WnmHandle(u, "DISABLE")
      BY <1>2, <1>4, <1>6 DEF Report, Check, Expects
    <2>2. WnmNext(u.wnm, "DISABLE") = "EXIT_REQUESTED"
      BY <1>2, <1>6 DEF WnmNext
    <2>3. WnmLeave(u, "DISABLE") = w
      BY <1>2, <1>6 DEF WnmLeave
    <2> HIDE DEF t
    <2>4. t = WnmEnter([w EXCEPT !.wnm = "EXIT_REQUESTED"])
      BY <2>1, <2>2, <2>3 DEF WnmHandle
    <2>5. /\ s.suspended = FALSE /\ s.fault # "EVENT" /\ s.inMon = FALSE
          /\ s.pending = "NONE"
      BY DEF Sound
    <2>6. /\ s.mon = "DISABLED" /\ s.monTimer = FALSE /\ s.monOff = TRUE
          /\ s.powerdown = FALSE => s.started = TRUE /\ s.chipSta = "AUTHORIZED"
      BY <1>1, <1>6 DEF Linked
    <2>7. /\ w \in Umac
          /\ w.mon = "STABLE" /\ w.monTimer = FALSE /\ w.monOff = FALSE
          /\ w.inMon = FALSE /\ w.pending = u.pending
          /\ w.paused = FALSE /\ w.veto = FALSE
          /\ w.started = TRUE /\ w.chipSta = "AUTHORIZED"
          /\ w.callback = u.callback /\ w.reply = u.reply
          /\ w.retry = u.retry
          /\ SameConn(u, w) /\ SameFault(u, w)
      <3>1. /\ u.wnm = "ACTIVE" /\ u.monOff = TRUE /\ u.inMon = FALSE
            /\ u.mon = "DISABLED" /\ u.monTimer = FALSE
        BY <1>2, <1>3, <1>6, <2>5, <2>6
      <3>2. u.powerdown = FALSE => u.started = TRUE /\ u.chipSta = "AUTHORIZED"
        BY <1>2, <1>3, <1>6, <2>6
      <3> QED
        BY <1>2, <1>4, <3>1, <3>2, ActiveExitEffect
    <2> HIDE DEF w
    <2>8. /\ w.mode = "STA" /\ w.conn = "CONNECTED" /\ w.suspended = FALSE
          /\ w.fault # "EVENT"
      BY <1>3, <1>4, <2>5, <2>7 DEF SameConn, SameFault
    <2>9. "EXIT_REQUESTED" \in Negotiating /\ "EXIT_REQUESTED" # "ENTRY_REQUESTED"
      BY DEF Negotiating
    <2>10. w.pending = "NONE" /\ w.callback = TRUE /\ w.reply = "NONE" /\ w.retry = 0
      BY <1>2, <1>3, <2>5, <2>7
    <2>11. Step(s, WnmEnter([w EXCEPT !.wnm = "EXIT_REQUESTED"]), a)
      BY <2>7, <2>8, <2>9, <2>10, TakenOnStep
    <2> QED
      BY <2>4, <2>11 DEF t
  <1> QED
    BY <1>1, <1>5, <1>6

\* A status written without the state machines: a request refused, or one the
\* caller has taken.
LEMMA ReplyStep ==
    ASSUME NEW s \in Umac, NEW a, NEW r \in Status \cup {"NONE"}, Sound(s),
           s.callback = FALSE, r # "SUCCESS",
           r = "NONE" => a.phase # "waiting",
           r # "NONE" => a.phase = "waiting"
    PROVE  Step(s, [s EXCEPT !.reply = r], a)
  <1> DEFINE t == [s EXCEPT !.reply = r]
  <1>1. /\ t \in Umac
        /\ t.wnm = s.wnm /\ t.callback = s.callback /\ t.reply = r
        /\ t.retry = s.retry /\ t.wnmTimer = s.wnmTimer
        /\ t.powerdown = s.powerdown
        /\ SameConn(s, t) /\ SameMonitor(s, t) /\ SameSleep(s, t)
        /\ SameDriver(s, t) /\ SameFault(s, t)
    BY SetReply
  <1> HIDE DEF t
  <1>2. /\ t.mode = s.mode /\ t.conn = s.conn /\ t.suspended = s.suspended
        /\ t.mon = s.mon /\ t.inMon = s.inMon /\ t.pending = s.pending
        /\ t.monOff = s.monOff /\ t.monTimer = s.monTimer
    BY <1>1 DEF SameConn, SameMonitor
  <1>3. /\ t.paused = s.paused /\ t.veto = s.veto
        /\ t.started = s.started /\ t.chipSta = s.chipSta
        /\ t.chipWnm = s.chipWnm /\ t.fault = s.fault
    BY <1>1 DEF SameSleep, SameDriver, SameFault
  <1>4. Sound(t)
    <2>1. /\ s.conn = "CONNECTED" => Linked(t)
          /\ s.conn # "CONNECTED" => Idle(t)
      BY <1>1, <1>2, <1>3 DEF Sound, Linked, Idle
    <2> QED
      BY <1>1, <1>2, <1>3, <2>1 DEF Sound
  <1>5. Owned(t, a)
    BY <1>1 DEF Owned
  <1> QED
    BY <1>1, <1>4, <1>5 DEF Step, t

-----------------------------------------------------------------------------
(* The inductive invariant                                                 *)

\* The inductive invariant.
IInv == TypeOK /\ Sound(umacd) /\ Owned(umacd, api)

\* The states of the caller.
Api == [phase : {"idle", "queued", "waiting"},
        enabled : BOOLEAN,
        powerdown : BOOLEAN]

\* The step leaves the inductive invariant true, and EntrySuccessMeansAsleep.
Kept ==
    /\ Step(umacd, umacd', api')
    /\ api' \in Api
    /\ restarts' \in 0 .. MaxRestarts

\* The state after umac_connection_init and umac_wnm_sleep_init is sound.
LEMMA InitIInv == Init => IInv
  <1> SUFFICES ASSUME Init PROVE IInv
    OBVIOUS
  <1>1. umacd \in Umac
    BY DEF Init, Umac, Mode, ConnState, MonState, WnmState, ChipSta, Fault
  <1>2. TypeOK
    BY <1>1, StaAssumption DEF Init, TypeOK
  <1>3. Idle(umacd)
    BY DEF Init, Idle
  <1>4. Sound(umacd)
    BY <1>3, StaAssumption DEF Init, Sound
  <1>5. Owned(umacd, api)
    BY DEF Init, Owned
  <1> QED
    BY <1>2, <1>4, <1>5 DEF IInv

\* A handler is kept if the state it leaves is a sound step.
LEMMA HandleKept ==
    ASSUME IInv, NEW t, Handle(t), Step(umacd, t, api)
    PROVE  Kept
  BY DEF IInv, TypeOK, Handle, Kept, Api

-----------------------------------------------------------------------------
(* One lemma per group of actions                                          *)

\* umac_connection_start, for a station that is down or up.
LEMMA StartKept == IInv /\ Start => Kept
  <1> SUFFICES ASSUME IInv, Start PROVE Kept
    OBVIOUS
  <1>1. /\ umacd \in Umac /\ Sound(umacd) /\ Owned(umacd, api)
        /\ umacd.mode \in Mode
    BY Fields DEF IInv, TypeOK
  <1>2. CASE umacd.mode = "NONE"
    BY <1>1, <1>2, StartStep, HandleKept DEF Start
  <1>3. CASE umacd.mode = "STA"
    BY <1>1, <1>3, DisconnectDrops, DroppedStep, HandleKept DEF Start
  <1> QED
    BY <1>1, <1>2, <1>3 DEF Mode

\* umac_connection_stop.
LEMMA StopKept == IInv /\ Stop => Kept
  BY StopStep, HandleKept DEF Stop, IInv, TypeOK

\* Every call of the supplicant.
LEMMA SupplicantKept == IInv /\ Supplicant => Kept
  <1> SUFFICES ASSUME IInv, Supplicant PROVE Kept
    OBVIOUS
  <1>1. umacd \in Umac /\ Sound(umacd) /\ Owned(umacd, api)
    BY DEF IInv, TypeOK
  <1>2. CASE AuthRequest
    BY <1>1, <1>2, AuthenticatingStep, HandleKept DEF AuthRequest
  <1>3. CASE AssocRequest
    BY <1>1, <1>3, ConnectingStep, HandleKept DEF AssocRequest
  <1>4. CASE PortOpen
    BY <1>1, <1>4, ConnectedStep, HandleKept DEF PortOpen
  <1>5. CASE Deauth
    BY <1>1, <1>5, DisconnectDrops, DroppedStep, HandleKept DEF Deauth
  <1>6. CASE WnmConfirmed("ENTRY_CONFIRMED")
    BY <1>1, <1>6, EntryConfirmedStep, HandleKept DEF WnmConfirmed
  <1>7. CASE WnmConfirmed("EXIT_CONFIRMED")
    BY <1>1, <1>7, ExitConfirmedStep, HandleKept DEF WnmConfirmed
  <1> QED
    BY <1>2, <1>3, <1>4, <1>5, <1>6, <1>7 DEF Supplicant

\* Everything that feeds the connection monitor.
LEMMA MonitorKept == IInv /\ Monitor => Kept
  <1> SUFFICES ASSUME IInv, Monitor PROVE Kept
    OBVIOUS
  <1>1. umacd \in Umac /\ Sound(umacd) /\ Owned(umacd, api)
    BY DEF IInv, TypeOK
  <1>2. CASE BeaconLoss
    BY <1>1, <1>2, MonEventStep, HandleKept DEF BeaconLoss
  <1>3. CASE FrameAcked
    BY <1>1, <1>3, MonEventStep, HandleKept DEF FrameAcked
  <1>4. CASE NullFrameLost
    BY <1>1, <1>4, FailedApQueryStep, HandleKept DEF NullFrameLost
  <1>5. ASSUME NEW sent \in BOOLEAN, MonitorCheck(sent)
        PROVE  Kept
    <2>1. umacd.monTimer = TRUE
      BY <1>1, <1>5, Fields DEF MonitorCheck
    <2> QED
      BY <1>1, <1>5, <2>1, MonitorCheckStep, HandleKept DEF MonitorCheck
  <1> QED
    BY <1>2, <1>3, <1>4, <1>5 DEF Monitor

\* mmwlan_set_wnm_sleep_enabled_ext queues its event.
LEMMA ApiRequestKept ==
    ASSUME IInv, NEW on \in BOOLEAN, NEW p \in Powerdown, ApiRequest(on, p)
    PROVE  Kept
  <1>1. /\ umacd \in Umac /\ Sound(umacd) /\ Owned(umacd, api)
        /\ restarts \in 0 .. MaxRestarts
    BY DEF IInv, TypeOK
  <1>2. /\ umacd' = umacd /\ restarts' = restarts
        /\ api.phase = "idle" /\ api'.phase = "queued" /\ api' \in Api
    BY StaAssumption DEF ApiRequest, Api
  <1>3. umacd.callback = FALSE /\ umacd.reply = "NONE"
    BY <1>1, <1>2, Fields DEF Owned
  <1>4. Owned(umacd, api')
    BY <1>2, <1>3 DEF Owned
  <1>5. Step(umacd, umacd, api')
    BY <1>1, <1>3, <1>4 DEF Step
  <1> QED
    BY <1>1, <1>2, <1>5 DEF Kept

\* mmwlan_set_wnm_sleep_enabled_ext returns.
LEMMA ApiReturnKept ==
    ASSUME IInv, ApiReturn
    PROVE  Kept
  <1>1. /\ umacd \in Umac /\ Sound(umacd) /\ Owned(umacd, api)
        /\ restarts \in 0 .. MaxRestarts
    BY DEF IInv, TypeOK
  <1>2. /\ umacd' = [umacd EXCEPT !.reply = "NONE"] /\ restarts' = restarts
        /\ umacd.reply # "NONE" /\ api'.phase = "idle" /\ api' \in Api
    BY DEF ApiReturn, Api
  <1>3. umacd.callback = FALSE
    BY <1>1, <1>2, Fields DEF Owned
  <1>4. Step(umacd, [umacd EXCEPT !.reply = "NONE"], api')
    BY <1>1, <1>2, <1>3, ReplyStep
  <1> QED
    BY <1>1, <1>2, <1>4 DEF Kept

\* umac_set_wnm_sleep_evt_handler, in each of its cases.
LEMMA SetWnmSleepKept ==
    ASSUME IInv, SetWnmSleep
    PROVE  Kept
  <1> DEFINE s == RegisterSemb(umacd)
             refused == [umacd EXCEPT !.reply = "UNAVAILABLE"]
             asked == IF api.enabled
                      THEN Report(SetChipPowerdown(s, api.powerdown), "ENABLE")
                      ELSE Report(s, "DISABLE")
  <1>1. /\ umacd \in Umac /\ Sound(umacd) /\ Owned(umacd, api)
        /\ restarts \in 0 .. MaxRestarts /\ api \in Api
    BY DEF IInv, TypeOK, Api
  <1>2. /\ api.phase = "queued" /\ restarts' = restarts
        /\ api' = [api EXCEPT !.phase = "waiting"]
        /\ umacd' = refused \/ (umacd.conn = "CONNECTED" /\ umacd' = asked)
    BY DEF SetWnmSleep
  <1>3. /\ api'.phase = "waiting" /\ api'.enabled = api.enabled
        /\ api' \in Api /\ api.enabled \in BOOLEAN /\ api.powerdown \in BOOLEAN
    BY <1>1, <1>2 DEF Api
  <1>4. umacd.callback = FALSE /\ umacd.reply = "NONE"
    BY <1>1, <1>2, Fields DEF Owned
  <1>5. CASE umacd' = refused
    <2>1. "UNAVAILABLE" \in Status /\ "UNAVAILABLE" # "SUCCESS"
      BY DEF Status
    <2>2. Step(umacd, refused, api')
      BY <1>1, <1>3, <1>4, <2>1, ReplyStep
    <2> QED
      BY <1>1, <1>2, <1>3, <1>5, <2>2 DEF Kept
  <1>6. CASE umacd.conn = "CONNECTED" /\ umacd' = asked
    <2>1. CASE api.enabled = TRUE
      <3> DEFINE u == SetChipPowerdown(s, api.powerdown)
      <3>1. Registered(umacd, u)
        BY <1>1, <1>3, EnableRegisters
      <3>2. umacd' = Report(u, "ENABLE")
        BY <1>6, <2>1
      <3> HIDE DEF u
      <3>3. Step(umacd, Report(u, "ENABLE"), api')
        BY <1>1, <1>3, <1>4, <1>6, <2>1, <3>1, EnableStep
      <3> QED
        BY <1>1, <1>2, <1>3, <3>2, <3>3 DEF Kept
    <2>2. CASE api.enabled = FALSE
      <3>1. Registered(umacd, s)
        BY <1>1, DisableRegisters
      <3>2. umacd' = Report(s, "DISABLE")
        BY <1>6, <2>2
      <3> HIDE DEF s
      <3>3. Step(umacd, Report(s, "DISABLE"), api')
        BY <1>1, <1>3, <1>4, <1>6, <2>2, <3>1, DisableStep
      <3> QED
        BY <1>1, <1>2, <1>3, <3>2, <3>3 DEF Kept
    <2> QED
      BY <1>3, <2>1, <2>2
  <1> QED
    BY <1>2, <1>5, <1>6

\* umac_wnm_sleep_retry_request.
LEMMA WnmRetryKept ==
    ASSUME IInv, WnmRetry
    PROVE  Kept
  <1> DEFINE off == [umacd EXCEPT !.wnmTimer = FALSE]
  <1>1. umacd \in Umac /\ Sound(umacd) /\ Owned(umacd, api)
    BY DEF IInv, TypeOK
  <1>2. umacd.wnmTimer = TRUE /\ off.retry = umacd.retry
    BY <1>1, Fields DEF WnmRetry, Umac
  <1>3. CASE umacd.retry < MaxRetry
    <2>1. Handle(WnmHandle([off EXCEPT !.retry = @ + 1], "RETRY_REQUEST"))
      BY <1>2, <1>3 DEF WnmRetry
    <2>2. Step(umacd, WnmHandle([off EXCEPT !.retry = @ + 1], "RETRY_REQUEST"),
               api)
      BY <1>1, <1>2, <1>3, RetryStep
    <2> HIDE DEF off
    <2> QED
      BY <2>1, <2>2, HandleKept
  <1>4. CASE ~(umacd.retry < MaxRetry)
    <2>1. Handle(WnmHandle(off, "RETRIES_EXHAUSTED"))
      BY <1>2, <1>4 DEF WnmRetry
    <2>2. Step(umacd, WnmHandle(off, "RETRIES_EXHAUSTED"), api)
      BY <1>1, <1>2, ExhaustedStep
    <2> HIDE DEF off
    <2> QED
      BY <2>1, <2>2, HandleKept
  <1> QED
    BY <1>3, <1>4

\* Everything about a WNM sleep request.
LEMMA SleepKept == IInv /\ Sleep => Kept
  BY ApiRequestKept, SetWnmSleepKept, ApiReturnKept, WnmRetryKept DEF Sleep

\* mmdrv_host_hw_restart_required.
LEMMA RestartRequiredKept == IInv /\ RestartRequired => Kept
  <1> SUFFICES ASSUME IInv, RestartRequired PROVE Kept
    OBVIOUS
  <1>1. /\ umacd \in Umac /\ Sound(umacd) /\ Owned(umacd, api)
        /\ restarts' \in 0 .. MaxRestarts /\ api \in Api
        /\ umacd' = umacd /\ api' = api
    BY StaAssumption DEF RestartRequired, IInv, TypeOK, Api
  <1>2. Step(umacd, umacd, api)
    BY <1>1, QuietStep DEF SameRequest
  <1> QED
    BY <1>1, <1>2 DEF Kept

\* hw_restart_evt_handler, in each of its cases.
LEMMA HwRestartKept == IInv /\ HwRestart => Kept
  <1> SUFFICES ASSUME IInv, HwRestart PROVE Kept
    OBVIOUS
  <1>1. /\ umacd \in Umac /\ Sound(umacd) /\ Owned(umacd, api)
        /\ restarts' \in 0 .. MaxRestarts /\ api \in Api /\ api' = api
    BY StaAssumption DEF HwRestart, IInv, TypeOK, Api
  <1>2. umacd.mode \in {"NONE", "STA"} /\ umacd.started \in BOOLEAN
    BY <1>1, Fields DEF Mode
  <1>3. CASE umacd.mode = "NONE"
    <2>1. umacd' = umacd
      BY <1>3 DEF HwRestart
    <2>2. Step(umacd, umacd, api)
      BY <1>1, QuietStep DEF SameRequest
    <2> QED
      BY <1>1, <2>1, <2>2 DEF Kept
  <1>4. CASE umacd.mode = "STA" /\ umacd.started = FALSE
    <2>1. umacd' = DrvDeinit(umacd)
      BY <1>4 DEF HwRestart
    <2>2. Step(umacd, DrvDeinit(umacd), api)
      BY <1>1, <1>4, DeinitFaultStep
    <2> QED
      BY <1>1, <2>1, <2>2 DEF Kept
  <1>5. CASE umacd.mode = "STA" /\ umacd.started = TRUE
    <2>1. umacd' = HandleHwRestarted(DrvInit(DrvDeinit(umacd)))
      BY <1>5 DEF HwRestart
    <2>2. Step(umacd, HandleHwRestarted(DrvInit(DrvDeinit(umacd))), api)
      BY <1>1, <1>5, HwRestartStep
    <2> QED
      BY <1>1, <2>1, <2>2 DEF Kept
  <1> QED
    BY <1>2, <1>3, <1>4, <1>5

\* Every step of the station keeps the invariant.
LEMMA NextKept == IInv /\ Next => Kept
  BY StartKept, StopKept, SupplicantKept, MonitorKept, SleepKept,
     RestartRequiredKept, HwRestartKept DEF Next

-----------------------------------------------------------------------------
(* The theorems                                                            *)

\* The inductive invariant holds in every reachable state.
LEMMA Invariance == Spec => []IInv
  <1>1. IInv /\ [Next]_vars => IInv'
    <2> SUFFICES ASSUME IInv, [Next]_vars PROVE IInv'
      OBVIOUS
    <2>1. CASE Next
      <3>1. Kept
        BY <2>1, NextKept
      <3> QED
        BY <3>1 DEF Kept, Step, IInv, TypeOK, Api
    <2>2. CASE UNCHANGED vars
      BY <2>2 DEF IInv, TypeOK, vars, Owned
    <2> QED
      BY <2>1, <2>2
  <1> QED
    BY <1>1, InitIInv, PTL DEF Spec

\* Every reachable state of the station has the types of struct umac_data.
THEOREM TypeCorrect == Spec => []TypeOK
  <1>1. IInv => TypeOK
    BY DEF IInv
  <1> QED
    BY <1>1, Invariance, PTL

\* The invariants of UmacSta hold in every reachable state.
LEMMA Safety == Spec => []Inv
  <1>1. IInv => Inv
    BY SoundIsInv DEF IInv
  <1> QED
    BY <1>1, Invariance, PTL

\* Whatever the application, the AP, the supplicant and the chip do, the
\* three state machines (connection_fsm, connection_mon_fsm, wnm_sleep_fsm)
\* never meet an event they have no row for, and no assertion of their
\* handlers fails.
THEOREM StateMachinesAgree == Spec => []NoEventFault
  BY Safety, PTL DEF Inv

\* Between two handlers the connection monitor runs exactly while the station
\* is connected and awake, with its timeout armed exactly while it is
\* UNSTABLE (umac_connection.c).
THEOREM MonitorFollowsAlways == Spec => []MonitorFollows
  BY Safety, PTL DEF Inv

\* The pause of the data path, the veto on health checks and the silence of
\* the monitor last exactly as long as WNM sleep, and that never outlives the
\* connection (umac_wnm_sleep.c).
THEOREM SleepFollowsAlways == Spec => []SleepFollows
  BY Safety, PTL DEF Inv

\* A WNM sleep negotiation is under way exactly while one caller waits for
\* it, and then its retry timeout is armed (umac_wnm_sleep.c).
THEOREM RequestOwnedAlways == Spec => []RequestOwned
  BY Safety, PTL DEF Inv

\* The driver is up exactly while the station is, but for a powered down
\* sleep, and after every hardware restart the chip knows the state of the
\* station (hw_restart_evt_handler).
THEOREM DriverFollowsAlways == Spec => []DriverFollows
  BY Safety, PTL DEF Inv

\* Power save is suspended exactly while the station authenticates or
\* associates (connection_fsm_*_entry).
THEOREM PowerSaveFollowsAlways == Spec => []PowerSaveFollows
  BY Safety, PTL DEF Inv

\* A call of mmwlan_set_wnm_sleep_enabled_ext that asks to enter WNM sleep
\* returns success only when the station enters it in that very step.
THEOREM EntrySuccess == Spec => EntrySuccessMeansAsleep
  <1> DEFINE A == /\ umacd.reply = "NONE"
                  /\ umacd'.reply = "SUCCESS"
                  /\ api'.enabled
                  => umacd.wnm = "ENTRY_REQUESTED" /\ umacd'.wnm = "ACTIVE"
  <1>1. IInv /\ [Next]_vars => [A]_vars
    <2> SUFFICES ASSUME IInv, Next PROVE A
      BY DEF vars
    <2>1. Kept
      BY NextKept
    <2>2. api'.enabled \in BOOLEAN
      BY <2>1 DEF Kept, Api
    <2> QED
      BY <2>1, <2>2 DEF Kept, Step
  <1> QED
    BY <1>1, Invariance, PTL DEF Spec, EntrySuccessMeansAsleep
=============================================================================
