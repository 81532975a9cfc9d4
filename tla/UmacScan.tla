------------------------------ MODULE UmacScan ------------------------------
(***************************************************************************)
(* Scanning: the requests of the application (mmwlan_scan_request and      *)
(* mmwlan_scan_abort in umac.c) and of the supplicant (driver.c), the      *)
(* active and the pending request of umac_scan.c, and the state machine of *)
(* hw_scan.c that drives the scan of the chip.                             *)
(*                                                                         *)
(* The application runs in a task of its own and talks to the event loop   *)
(* through the event queue, as does the driver; the supplicant runs in the *)
(* event loop.  The chip is external: a scan it has started ends by itself *)
(* or because it is aborted, unless the chip is restarted.                 *)
(***************************************************************************)
EXTENDS Integers, Sequences, SequencesExt, FiniteSets

CONSTANTS
    MaxScans,       \* bound: requests made
    MaxAborts,      \* bound: aborts asked for
    MaxRestarts,    \* bound: restarts of the chip
    MaxFails,       \* bound: what is refused
    Refusable,      \* "event": an event or memory, "command": a command
    Aborters,       \* who aborts: "app" its own request, "supp" all of them
    DwellOnHome     \* the requesters whose scans return to the home channel

ASSUME ScanAssumption ==
    /\ {MaxScans, MaxAborts, MaxRestarts, MaxFails} \subseteq Nat
    /\ Refusable \subseteq {"event", "command"}
    /\ Aborters \subseteq {"app", "supp"}

APP  == "app"       \* scan_request of the root data
SUPP == "supp"      \* scan_req of the supplicant shim
NONE == "none"
Requester == {APP, SUPP}

VARIABLES
    scan,       \* the data of umac_scan.c and hw_scan.c, see Scan
    asked,      \* asked[r]: r waits for its completion callback: for APP
                \* scan_complete_cb, for SUPP in_progress_scan_results is set
    evtq,       \* the event queue, scan events only
    hw,         \* number of the scan the chip is running, 0 when none
    fault,      \* assertion failed: "none", "abort" or "callback"
    false,      \* a scan was reported successful that the chip did not finish
    scans, aborts, restarts, fails

vars == <<scan, asked, evtq, hw, fault, false, scans, aborts, restarts, fails>>

Scan == [fsm : {"INACTIVE", "IN_PROGRESS", "ABORT_PENDING"},
         active : Requester \cup {NONE}, pending : Requester \cup {NONE},
         abortAll : BOOLEAN, paused : BOOLEAN, iface : BOOLEAN,
         number : Nat,              \* of the last scan started
         done : Seq(Requester)]     \* completion callbacks made by this event

Event == [type : {"REQUEST", "ABORT"}, of : Requester]
             \cup [type : {"DONE", "ABORTED"}, of : Nat]
             \cup [type : {"RESTART"}]

Complete(s, r) == IF r = NONE THEN s ELSE [s EXCEPT !.done = Append(@, r)]

\* hw_scan_fsm_inactive_entry, from another state
Inactive(s) ==
    [s EXCEPT !.fsm = "INACTIVE", !.iface = FALSE, !.paused = FALSE]

\* hw_scan_fsm_scan_aborted
Aborted(s) ==
    LET pending == IF s.abortAll THEN s.pending ELSE NONE
        cleared == [s EXCEPT !.active = NONE, !.abortAll = FALSE,
                             !.pending = IF s.abortAll THEN NONE ELSE @]
    IN  Complete(Complete(cleared, s.active), pending)

\* mutant of Done: the request that becomes active stays pending
DoneKeepsPending(s) ==
    Complete([s EXCEPT !.active = s.pending, !.abortAll = FALSE], s.active)

\* hw_scan_fsm_scan_done
Done(s) ==
    LET pending == IF s.abortAll THEN s.pending ELSE NONE
        cleared == [s EXCEPT !.active = IF s.abortAll THEN NONE ELSE s.pending,
                             !.pending = NONE, !.abortAll = FALSE]
    IN  Complete(Complete(cleared, s.active), pending)

\* hw_scan_fsm_in_progress_entry: the datapath is paused, the interface is
\* added and the scan started.  What cannot be had aborts the scan, and with
\* no active request the state machine goes on to INACTIVE.
InProgress(s, ifaceOk, startOk) ==
    IF s.active = NONE THEN Inactive(s)
    ELSE LET p == [s EXCEPT !.fsm = "IN_PROGRESS",
                            !.paused = @ \/ s.active \notin DwellOnHome,
                            !.iface = @ \/ ifaceOk]
         IN  IF ifaceOk /\ startOk THEN [p EXCEPT !.number = @ + 1]
                                   ELSE Inactive(Aborted(p))
-----------------------------------------------------------------------------
Init ==
    /\ scan = [fsm |-> "INACTIVE", active |-> NONE, pending |-> NONE,
               abortAll |-> FALSE, paused |-> FALSE, iface |-> FALSE,
               number |-> 0, done |-> <<>>]
    /\ asked = [r \in Requester |-> FALSE]
    /\ evtq = <<>>
    /\ hw = 0
    /\ fault = "none" /\ false = FALSE
    /\ scans = 0 /\ aborts = 0 /\ restarts = 0 /\ fails = 0

Had(what, ok) ==
    /\ ok \/ (what \in Refusable /\ fails < MaxFails)
    /\ fails' = IF ok THEN fails ELSE fails + 1

\* mmwlan_scan_request: the callback is set before the memory for the extra
\* elements and a place in the event queue are asked for.
AppRequest ==
    /\ scans < MaxScans
    /\ ~asked[APP]
    /\ asked' = [asked EXCEPT ![APP] = TRUE]
    /\ scans' = scans + 1
    /\ \E ok \in BOOLEAN :
          /\ Had("event", ok)
          /\ evtq' = IF ok THEN Append(evtq, [type |-> "REQUEST", of |-> APP])
                           ELSE evtq
    /\ UNCHANGED <<scan, hw, fault, false, aborts, restarts>>

\* mmwlan_scan_abort
AppAbort ==
    /\ APP \in Aborters /\ aborts < MaxAborts
    /\ asked[APP]
    /\ aborts' = aborts + 1
    /\ \E ok \in BOOLEAN :
          /\ Had("event", ok)
          /\ evtq' = IF ok THEN Append(evtq, [type |-> "ABORT", of |-> APP])
                           ELSE evtq
    /\ UNCHANGED <<scan, asked, hw, fault, false, scans, restarts>>

\* mmwpas_scan2 with mmwpas_initialise_scan_data
SuppRequest ==
    /\ scans < MaxScans
    /\ ~asked[SUPP]
    /\ asked' = [asked EXCEPT ![SUPP] = TRUE]
    /\ scans' = scans + 1
    /\ \E ok \in BOOLEAN :
          /\ Had("event", ok)
          /\ evtq' = IF ok THEN Append(evtq, [type |-> "REQUEST", of |-> SUPP])
                           ELSE evtq
    /\ UNCHANGED <<scan, hw, fault, false, aborts, restarts>>

\* The completion callbacks of one event, and what the event leaves.
Completes(s) ==
    /\ asked' = [r \in Requester |-> asked[r] /\ r \notin Range(s.done)]
    /\ fault' = IF \E i \in DOMAIN s.done :
                      ~asked[s.done[i]] \/ \E j \in 1 .. i - 1 : s.done[j] = s.done[i]
                THEN "callback" ELSE fault
    /\ scan' = [s EXCEPT !.done = <<>>]

\* What the chip does about a scan that is started.
Starts(s) == hw' = IF s.number # scan.number THEN s.number ELSE hw

\* hw_scan_fsm_req_abort; when the command fails the scan runs on.
ReqAbort(s, all) == [s EXCEPT !.fsm = "ABORT_PENDING", !.abortAll = all]

\* umac_scan_abort for all requests, by the supplicant (mmwpas_abort_scan) or
\* umac_shutdown_evt_handler.  A second abort changes nothing, and in the
\* INACTIVE state there is nothing to abort.
AbortAll ==
    /\ SUPP \in Aborters /\ aborts < MaxAborts
    /\ aborts' = aborts + 1
    /\ scan' = IF scan.fsm = "IN_PROGRESS" THEN ReqAbort(scan, TRUE) ELSE scan
    /\ UNCHANGED <<asked, evtq, hw, fault, false, scans, restarts, fails>>

\* umac_req_scan_evt_handler
HandleRequest(r) ==
    IF scan.active = NONE
    THEN \E ifaceOk, startOk \in BOOLEAN :
            /\ Had("command", ifaceOk /\ startOk)
            /\ LET s == InProgress([scan EXCEPT !.active = r], ifaceOk, startOk)
               IN  Completes(s) /\ Starts(s)
    ELSE /\ IF scan.pending = NONE
            THEN Completes([scan EXCEPT !.pending = r])
            ELSE Completes(Complete(scan, r))
         /\ UNCHANGED <<hw, fails>>

\* umac_abort_scan_evt_handler: umac_scan_abort for one request
HandleAbort(r) ==
    /\ UNCHANGED <<hw, fails>>
    /\ CASE scan.active = r ->
              /\ scan' = IF scan.fsm = "IN_PROGRESS" THEN ReqAbort(scan, FALSE)
                                                     ELSE scan
              /\ UNCHANGED <<asked, fault>>
         [] scan.active # r /\ scan.pending = r ->
              Completes(Complete([scan EXCEPT !.pending = NONE], r))
         [] OTHER ->
              /\ fault' = "abort"
              /\ UNCHANGED <<scan, asked>>

\* The rows of hw_scan_fsm_table for DONE and ABORT; in the INACTIVE state
\* the event is invalid and ignored.
Ends(After(_)) ==
    IF scan.fsm = "INACTIVE"
    THEN UNCHANGED <<scan, asked, hw, fault, fails>>
    ELSE \E ifaceOk, startOk \in BOOLEAN :
            /\ Had("command", ifaceOk /\ startOk)
            /\ LET s == InProgress(After(scan), ifaceOk, startOk)
               IN  Completes(s) /\ Starts(s)

\* mutant of HandleRestart: an abort that is under way is waited for
HandleRestartUnlessAborting ==
    IF scan.active # NONE /\ scan.fsm # "ABORT_PENDING"
    THEN Ends(Aborted)
    ELSE UNCHANGED <<scan, asked, hw, fault, fails>>

\* hw_restart_evt_handler, as far as scans are concerned
\* (umac_scan_handle_hw_restarted)
HandleRestart ==
    IF scan.active # NONE
    THEN Ends(Aborted)
    ELSE UNCHANGED <<scan, asked, hw, fault, fails>>

\* The event loop takes the next event off the queue.
HandleEvent ==
    /\ evtq # <<>> /\ fault = "none"
    /\ evtq' = Tail(evtq)
    /\ LET e == Head(evtq) IN
       /\ \/ e.type = "REQUEST" /\ HandleRequest(e.of)
          \/ e.type = "ABORT" /\ HandleAbort(e.of)
          \/ e.type = "DONE" /\ Ends(Done)
          \/ e.type = "ABORTED" /\ Ends(Aborted)
          \/ e.type = "RESTART" /\ HandleRestart
       /\ false' = (false \/ (/\ e.type = "DONE" /\ scan.fsm # "INACTIVE"
                              /\ e.of # scan.number))
    /\ UNCHANGED <<scans, aborts, restarts>>

\* mmdrv_host_hw_scan_complete: when the queue refuses the event, the end of
\* the scan is lost.
HwCompletes ==
    /\ hw # 0
    /\ hw' = 0
    /\ \E ok \in BOOLEAN, type \in {"DONE", "ABORTED"} :
          /\ type = "ABORTED" => scan.fsm = "ABORT_PENDING"
          /\ Had("event", ok)
          /\ evtq' = IF ok THEN Append(evtq, [type |-> type, of |-> hw])
                           ELSE evtq
    /\ UNCHANGED <<scan, asked, fault, false, scans, aborts, restarts>>

\* mmdrv_host_hw_restart_required: the event goes to the front of the queue
HwRestarts ==
    /\ restarts < MaxRestarts
    /\ restarts' = restarts + 1
    /\ hw' = 0
    /\ evtq' = <<[type |-> "RESTART"]>> \o evtq
    /\ UNCHANGED <<scan, asked, fault, false, scans, aborts, fails>>

Next ==
    \/ AppRequest \/ AppAbort
    \/ SuppRequest \/ AbortAll
    \/ HandleEvent
    \/ HwCompletes \/ HwRestarts

Spec == Init /\ [][Next]_vars

\* The event loop runs, and a scan of the chip comes to an end.
FairSpec == Spec /\ WF_vars(HandleEvent) /\ WF_vars(HwCompletes)
-----------------------------------------------------------------------------
\* Every variable has its type; all callbacks of an event are made before the
\* next is handled, and the chip runs no scan that was not started
\* (hw_scan_fsm_handle_event).
TypeOK ==
    /\ DOMAIN scan = {"fsm", "active", "pending", "abortAll", "paused", "iface",
                      "number", "done"}
    /\ scan.fsm \in {"INACTIVE", "IN_PROGRESS", "ABORT_PENDING"}
    /\ {scan.active, scan.pending} \subseteq Requester \cup {NONE}
    /\ {scan.abortAll, scan.paused, scan.iface} \subseteq BOOLEAN
    /\ scan.done = <<>>
    /\ asked \in [Requester -> BOOLEAN]
    /\ \A i \in DOMAIN evtq : evtq[i] \in Event
    /\ hw \in 0 .. scan.number
    /\ {scans, aborts, restarts, fails} \subseteq Nat

\* The state machine is INACTIVE exactly when no request is active, and then
\* the datapath is not paused for a scan and the scan interface is gone,
\* whatever failed, was aborted or restarted on the way
\* (hw_scan_fsm_in_progress_entry, hw_scan_fsm_inactive_entry).
NothingLeftBehind ==
    /\ scan.fsm = "INACTIVE" <=> scan.active = NONE
    /\ scan.fsm = "INACTIVE" => ~scan.paused /\ ~scan.iface /\ ~scan.abortAll

\* Where the request of r is: on its way, active or pending.
Places(r) ==
    Cardinality({ i \in DOMAIN evtq : evtq[i] = [type |-> "REQUEST", of |-> r] })
        + (IF scan.active = r THEN 1 ELSE 0)
        + (IF scan.pending = r THEN 1 ELSE 0)

\* A requester that waits has its request in exactly one place, and one that
\* does not wait has none: so no completion callback is made twice, or
\* through the callback pointer that the first one has cleared
\* (umac_scan_complete_callback, mmwpas_scan_complete_handler).
RequestInOnePlace ==
    /\ \A r \in Requester : Places(r) = IF asked[r] THEN 1 ELSE 0
    /\ fault # "callback"

\* The scan state machine and the requests agree after every event, whatever
\* failed, was aborted or restarted (hw_scan_fsm_handle_event).
ScanSound == TypeOK /\ NothingLeftBehind /\ RequestInOnePlace

\* hw_scan_fsm_scan_aborted leaves the pending request alone, and the state
\* machine goes INACTIVE without it.
Stranded(r) == scan.fsm = "INACTIVE" /\ scan.pending = r

\* Every requester is told in the end that its scan is over, whatever is aborted,
\* fails or restarts on the way (umac_scan_abort, hw_scan_fsm_scan_done), with
\* two exceptions: a pending request that the aborted one before it leaves
\* behind, and the assertion of umac_scan_abort, which stops the system.
RequestCompletes ==
    \A r \in Requester : asked[r] ~> (~asked[r] \/ Stranded(r) \/ fault # "none")

-----------------------------------------------------------------------------
(* What a comment, an assertion or the documentation says and the code does *)
(* not do: none of these is an invariant (README, Deviations).              *)

\* No request waits while the state machine is INACTIVE.
NoneStranded == \A r \in Requester : ~Stranded(r)

\* umac_scan_abort, MMOSAL_ASSERT(false): a request that is aborted is active
\* or pending.
AbortFindsRequest == fault # "abort"

\* MMWLAN_SCAN_SUCCESSFUL: the chip has finished the scan that is reported.
SuccessMeansScanned == ~false

\* While a scan that dwells on the home channel is in progress traffic may
\* pass: the datapath is not paused.
TrafficPasses ==
    scan.active \in DwellOnHome => ~scan.paused
=============================================================================
