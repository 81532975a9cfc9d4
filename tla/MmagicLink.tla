----------------------------- MODULE MmagicLink -----------------------------
(***************************************************************************)
(* The link between an mmagic controller (the host of an application) and  *)
(* an mmagic agent: the link layer of both sides (mmagic_llc_agent.c,      *)
(* mmagic_controller.c), the agent's streams (mmagic_m2m_agent.c) and the  *)
(* controller's calls.                                                     *)
(*                                                                         *)
(* On the controller one task per stream makes calls, one more task sends  *)
(* sync and reset requests, and the data link runs the receive callback.   *)
(* On the agent the data link runs the receive callback and every open     *)
(* stream has a task.  Both receive callbacks wait without limit for room  *)
(* in a queue of one entry: what they cannot push holds up what follows.   *)
(*                                                                         *)
(* The data links keep the order of packets; they may lose or repeat one.  *)
(* Every packet carries, for the properties, whether it is a repetition.   *)
(***************************************************************************)
EXTENDS Integers, Sequences, FiniteSets

CONSTANTS
    SeqMod,         \* 16: sequence numbers are the low nibble of tseq
    Budgets         \* bounds: how often each of Happenings may happen; a behaviour
                    \* keeps to one of them

\* What the application and the agent do of themselves, and what goes wrong.
Happenings ==
    {"call", "sync", "reset", "event", "lose", "repeat", "crash", "timeout"}

ASSUME LinkAssumption ==
    /\ SeqMod \in 2 .. 255          \* INVALID is no sequence number
    /\ Budgets \subseteq [Happenings -> Nat]

Control == 0                \* CONTROL_STREAM
Socket  == 1                \* the stream that is opened and closed
Stream  == {Control, Socket}
Command == {"OPEN", "CLOSE", "OTHER"}
INVALID == 255              \* MMAGIC_LLC_INVALID_SEQUENCE
Seqno   == 0 .. SeqMod - 1

PacketType ==
    { "COMMAND", "RESPONSE", "EVENT", "AGENT_RESET", "AGENT_START_NOTIFICATION",
      "INVALID_STREAM", "PACKET_LOSS_DETECTED", "SYNC_REQ", "SYNC_RESP" }

VARIABLES
    ctl,        \* controller_llc: seen, sent, token, status
    cq,         \* controller: stream_queue
    call,       \* the call of each stream's task
    open,       \* the streams the application takes for open
    sync,       \* mmagic_controller_agent_sync
    down,       \* packets on the way to the agent
    up,         \* packets on the way to the controller
    agt,        \* agent_llc: seen, sent; and whether the agent runs
    aq,         \* agent: stream_queue
    streams,    \* agent: core.stream, the streams that are not NULL
    task,       \* the task of each stream
    arx,        \* the agent's receive callback between finding the stream of a
                \* command and pushing it: the command
    left,       \* bounds: what may still happen
    log         \* history, for the properties only

ctlVars == <<ctl, cq, call, open, sync>>
agtVars == <<agt, aq, streams, task, arx>>
vars == <<ctlVars, down, up, agtVars, left, log>>

None == [cmd |-> "NONE", n |-> 0]
Idle == [at |-> "idle", req |-> None]

\* info: the command, or in a sync response the last number the agent saw.
Packet(type, sid, info, n) ==
    [type |-> type, sid |-> sid, info |-> info, n |-> n, seq |-> INVALID, copy |-> FALSE]

NextSeq(x) == (x + 1) % SeqMod

First(x) == IF x = INVALID THEN 0 ELSE NextSeq(x)   \* (0xff + 1) & 0x0f

Spend(kind) == left[kind] > 0 /\ left' = [left EXCEPT ![kind] = @ - 1]

-----------------------------------------------------------------------------
(* mmagic_llc_controller_tx and mmagic_llc_agent_tx, under their mutexes    *)

\* Every packet takes the next sequence number, whatever its type.
ControllerTx(p) ==
    /\ down' = Append(down, [p EXCEPT !.seq = First(ctl.sent)])
    /\ ctl' = [ctl EXCEPT !.sent = First(@)]

\* The packets ps with the sequence numbers that follow last (at most two are
\* sent in one step).
Stamped(last, ps) ==
    [i \in DOMAIN ps |-> [ps[i] EXCEPT !.seq = IF i = 1 THEN First(last) ELSE First(First(last))]]

LastSent(last, ps) == IF ps = <<>> THEN last ELSE Stamped(last, ps)[Len(ps)].seq

\* The agent sends ps and has seen seq.
AgentTx(ps, seen) ==
    /\ up' = up \o Stamped(agt.sent, ps)
    /\ agt' = [agt EXCEPT !.sent = LastSent(@, ps), !.seen = seen]

-----------------------------------------------------------------------------
(* The application                                                         *)

\* mmagic_controller_tx.  The application opens and closes the socket on the
\* control stream, closes it only when its task is idle, and uses it only
\* while it takes it for open.
Call(s, cmd) ==
    /\ call[s].at = "idle"
    /\ Spend("call")
    /\ IF cmd = "OTHER" THEN s \in open ELSE s = Control
    /\ cmd = "OPEN" => Socket \notin open
    /\ cmd = "CLOSE" => Socket \in open /\ call[Socket].at = "idle"
    /\ ControllerTx(Packet("COMMAND", s, cmd, left["call"]))
    /\ call' = [call EXCEPT ![s] = [at |-> "wait", req |-> [cmd |-> cmd, n |-> left["call"]]]]
    /\ open' = IF cmd = "CLOSE" THEN open \ {Socket} ELSE open
    /\ UNCHANGED <<cq, sync, up, agtVars, log>>

\* mmagic_controller_rx with an entry in the queue.  Only the command is
\* compared: the call's own number n is not in the packets.  The response of a
\* failure, and one to another command, make the call fail.
CallReturns(s) ==
    LET p  == cq[s][1]
        ok == p.info = call[s].req.cmd
    IN  /\ call[s].at = "wait"
        /\ cq[s] # <<>>
        /\ cq' = [cq EXCEPT ![s] = <<>>]
        /\ call' = [call EXCEPT ![s] = Idle]
        /\ open' = IF ok /\ p.info = "OPEN" THEN open \cup {Socket} ELSE open
        /\ log' = [log EXCEPT !.stale = @ \/ (ok /\ p.n # call[s].req.n),
                              !.mixed = @ \/ (p.n # call[s].req.n /\ s \notin log.late)]
        /\ UNCHANGED <<ctl, sync, down, up, agtVars, left>>

CallTimesOut(s) ==
    /\ Spend("timeout")
    /\ call[s].at = "wait"
    /\ cq[s] = <<>>
    /\ call' = [call EXCEPT ![s] = Idle]
    /\ log' = [log EXCEPT !.late = @ \cup {s}]
    /\ UNCHANGED <<ctl, cq, open, sync, down, up, agtVars>>

\* mmagic_controller_agent_sync: the request is sent, then its token is noted,
\* then the status is preset, then the token is polled.
SyncSend ==
    /\ sync.at = "idle"
    /\ Spend("sync")
    /\ ControllerTx(Packet("SYNC_REQ", Control, "NONE", left["sync"]))
    /\ sync' = [at |-> "sent", n |-> left["sync"], seq |-> ctl'.sent, answered |-> FALSE, ret |-> "NONE"]
    /\ UNCHANGED <<cq, call, open, up, agtVars, log>>

SyncNoteToken ==
    /\ sync.at = "sent"
    /\ sync' = [sync EXCEPT !.at = "noted"]
    /\ ctl' = [ctl EXCEPT !.token = sync.n]
    /\ UNCHANGED <<cq, call, open, down, up, agtVars, left, log>>

SyncPreset ==
    /\ sync.at = "noted"
    /\ sync' = [sync EXCEPT !.at = "poll"]
    /\ ctl' = [ctl EXCEPT !.status = "TIMEOUT"]
    /\ UNCHANGED <<cq, call, open, down, up, agtVars, left, log>>

SyncReturn ==
    /\ sync.at = "poll"
    /\ IF ctl.token = 0 THEN UNCHANGED left ELSE Spend("timeout")
    /\ sync' = [sync EXCEPT !.at = "idle", !.ret = ctl.status]
    /\ UNCHANGED <<ctl, cq, call, open, down, up, agtVars, log>>

\* mmagic_controller_request_agent_reset
RequestReset ==
    /\ Spend("reset")
    /\ ControllerTx(Packet("AGENT_RESET", Control, "NONE", 0))
    /\ log' = [log EXCEPT !.asked = TRUE]
    /\ UNCHANGED <<cq, call, open, sync, up, agtVars>>

-----------------------------------------------------------------------------
(* mmagic_llc_controller_rx_callback                                       *)

\* Mutant of ControllerRepeated: repetitions are not told apart.
ControllerNeverRepeated(p) == FALSE

ControllerRepeated(p) ==
    p.seq = ctl.seen /\ p.type \notin {"SYNC_RESP", "AGENT_START_NOTIFICATION"}

ControllerDrops ==
    /\ up # <<>>
    /\ ControllerRepeated(Head(up))
    /\ up' = Tail(up)
    /\ log' = [log EXCEPT !.fresh = @ \/ (~Head(up).copy /\ log.gapUp < SeqMod - 1), !.gapUp = 0]
    /\ UNCHANGED <<ctlVars, down, agtVars, left>>

\* mmagic_llc_handle_sync_resp
SyncResp(p) ==
    /\ ctl' = IF p.n = ctl.token
              THEN [ctl EXCEPT !.seen = p.seq, !.status = "OK", !.token = 0]
              ELSE [ctl EXCEPT !.seen = p.seq]
    /\ sync' = [sync EXCEPT !.answered = @ \/ (sync.at # "idle" /\ p.n = sync.n)]
    /\ log' = [log EXCEPT !.gapUp = 0,
                  !.outOfSync = @ \/ (p.n = ctl.token /\ ctl.sent = sync.seq /\ p.info # ctl.sent)]

ControllerRx ==
    LET p == Head(up)
    IN  /\ up # <<>>
        /\ ~ControllerRepeated(p)
        /\ p.type = "RESPONSE" => cq[p.sid] = <<>>
        /\ up' = Tail(up)
        /\ IF p.type = "SYNC_RESP"
           THEN SyncResp(p)
           ELSE /\ ctl' = [ctl EXCEPT !.seen = p.seq]
                /\ log' = [log EXCEPT !.gapUp = 0,
                              !.started = @ \/ (p.type = "AGENT_START_NOTIFICATION" /\ p.n = 1)]
                /\ UNCHANGED sync
        /\ cq' = IF p.type = "RESPONSE" THEN [cq EXCEPT ![p.sid] = <<p>>] ELSE cq
        /\ open' = IF p.type = "AGENT_START_NOTIFICATION" THEN {Control} ELSE open
        /\ UNCHANGED <<call, down, agtVars, left>>

-----------------------------------------------------------------------------
(* mmagic_llc_agent_rx_buffer_callback                                     *)

\* Mutant of AgentRepeated: repetitions are not told apart.
AgentNeverRepeated(p) == FALSE

AgentRepeated(p) == p.seq = agt.seen /\ p.type \notin {"AGENT_RESET", "SYNC_REQ"}

Arrives(p) ==
    /\ agt.on
    /\ arx = <<>>
    /\ down # <<>>
    /\ p = Head(down)

AgentReceives(p) == Arrives(p) /\ down' = Tail(down)

\* The check for missed packets that ends the callback.
LossReport(p) ==
    IF p.seq # First(agt.seen) /\ agt.seen # INVALID /\ p.type # "SYNC_REQ"
    THEN <<Packet("PACKET_LOSS_DETECTED", p.sid, "NONE", 0)>>
    ELSE <<>>

AgentDrops(p) ==
    /\ AgentReceives(p)
    /\ AgentRepeated(p)
    /\ log' = [log EXCEPT !.fresh = @ \/ (~p.copy /\ log.gapDown < SeqMod - 1), !.gapDown = 0]
    /\ UNCHANGED <<ctlVars, up, agtVars, left>>

\* mmagic_m2m_rx_callback releases the buffer, and the link layer once more.
AgentRefuses(p) ==
    /\ AgentReceives(p)
    /\ ~AgentRepeated(p)
    /\ p.type = "COMMAND" /\ p.sid \notin streams
    /\ AgentTx(<<Packet("INVALID_STREAM", p.sid, "NONE", 0)>> \o LossReport(p), p.seq)
    /\ log' = [log EXCEPT !.twice = TRUE, !.gapDown = 0]
    /\ UNCHANGED <<ctlVars, aq, streams, task, arx, left>>

AgentAccepts(p) ==
    /\ AgentReceives(p)
    /\ ~AgentRepeated(p)
    /\ p.type = "COMMAND" /\ p.sid \in streams
    /\ arx' = <<p>>
    /\ log' = [log EXCEPT !.gapDown = 0]
    /\ UNCHANGED <<ctlVars, up, agt, aq, streams, task, left>>

\* mmosal_queue_push with UINT32_MAX; the stream may have been freed meanwhile.
AgentPushes ==
    LET p == arx[1]
    IN  /\ arx # <<>>
        /\ p.sid \in streams => aq[p.sid] = <<>>
        /\ arx' = <<>>
        /\ AgentTx(LossReport(p), p.seq)
        /\ aq' = IF p.sid \in streams THEN [aq EXCEPT ![p.sid] = <<p>>] ELSE aq
        /\ log' = [log EXCEPT !.dead = @ \/ p.sid \notin streams]
        /\ UNCHANGED <<ctlVars, down, streams, task, left>>

AgentSyncs(p) ==
    /\ AgentReceives(p)
    /\ p.type = "SYNC_REQ"
    /\ AgentTx(<<Packet("SYNC_RESP", p.sid, agt.seen, p.n)>>, p.seq)
    /\ log' = [log EXCEPT !.gapDown = 0]
    /\ UNCHANGED <<ctlVars, aq, streams, task, arx, left>>

\* mmhal_reset: the agent loses everything, what it has received included.
Off ==
    /\ down' = <<>>
    /\ log' = [log EXCEPT !.gapDown = 0, !.restarted = TRUE]
    /\ agt' = [on |-> FALSE, seen |-> INVALID, sent |-> INVALID]
    /\ aq' = [s \in Stream |-> <<>>]
    /\ streams' = {}
    /\ task' = [s \in Stream |-> Idle]
    /\ arx' = <<>>

AgentResets(p) ==
    /\ Arrives(p)
    /\ p.type = "AGENT_RESET"
    /\ Off
    /\ UNCHANGED <<ctlVars, up, left>>

-----------------------------------------------------------------------------
(* The agent's tasks                                                       *)

\* mmagic_m2m_agent_stream_task takes a request from its queue.
TaskTakes(s) ==
    /\ s \in streams
    /\ task[s].at = "idle"
    /\ aq[s] # <<>>
    /\ LET p == aq[s][1]
           again == p.type = "COMMAND" /\ p.n \in log.taken
       IN  /\ task' = [task EXCEPT ![s] = [at  |-> IF p.type = "CLOSE" THEN "closing" ELSE "busy",
                                           req |-> [cmd |-> p.info, n |-> p.n]]]
           /\ log' = [log EXCEPT !.again = @ \/ again,
                                 !.taken = IF p.type = "COMMAND" THEN @ \cup {p.n} ELSE @]
    /\ aq' = [aq EXCEPT ![s] = <<>>]
    /\ UNCHANGED <<ctlVars, down, up, agt, streams, arx, left>>

\* Mutant of Free: a stream is taken for free while it is being closed.
FreeOrClosing(s) == s \notin streams \/ (aq[s] # <<>> /\ aq[s][1].type = "CLOSE")

\* mmagic_m2m_agent_open_stream finds a stream that is NULL.
Free(s) == s \notin streams

\* Mutant of Response: a command that fails is not answered.
ResponseOfSuccess(s, r) ==
    IF r.cmd = "OPEN" /\ ~Free(Socket) THEN <<>> ELSE <<Packet("RESPONSE", s, r.cmd, r.n)>>

\* The response of a failure if there is no stream to open.
Response(s, r) ==
    LET failed == r.cmd = "OPEN" /\ ~Free(Socket)
    IN  <<Packet("RESPONSE", s, IF failed THEN "FAILED" ELSE r.cmd, r.n)>>

\* It processes the command and sends the response.  mmagic_m2m_agent_close_stream pushes a close request
\* and waits for room in the stream's queue.
TaskResponds(s) ==
    LET r == task[s].req
    IN  /\ task[s].at = "busy"
        /\ r.cmd = "CLOSE" /\ Socket \in streams => aq[Socket] = <<>>
        /\ aq' = IF r.cmd = "CLOSE" /\ Socket \in streams
                 THEN [aq EXCEPT ![Socket] = <<Packet("CLOSE", Socket, "NONE", 0)>>]
                 ELSE aq
        /\ streams' = IF r.cmd = "OPEN" THEN streams \cup {Socket} ELSE streams
        /\ AgentTx(Response(s, r), agt.seen)
        /\ task' = [task EXCEPT ![s] = Idle]
        /\ UNCHANGED <<ctlVars, down, arx, left, log>>

\* mmagic_m2m_agent_free_stream: what is in the queue is lost.
TaskFrees(s) ==
    /\ task[s].at = "closing"
    /\ streams' = streams \ {s}
    /\ aq' = [aq EXCEPT ![s] = <<>>]
    /\ task' = [task EXCEPT ![s] = Idle]
    /\ UNCHANGED <<ctlVars, down, up, agt, arx, left, log>>

\* mmagic_m2m_event_handler
AgentEvent ==
    /\ agt.on
    /\ Spend("event")
    /\ AgentTx(<<Packet("EVENT", Control, "NONE", 0)>>, agt.seen)
    /\ UNCHANGED <<ctlVars, down, aq, streams, task, arx, log>>

\* Mutant of AgentBoots: the controller is notified before a connection to it
\* exists, so that the notification goes nowhere.
AgentBootsUnheard ==
    /\ ~agt.on
    /\ down' = <<>>
    /\ agt' = [on |-> TRUE, seen |-> INVALID, sent |-> First(INVALID)]
    /\ streams' = {Control}
    /\ UNCHANGED <<ctlVars, up, aq, task, arx, left, log>>

\* mmagic_m2m_agent_init after a reset: the control stream is opened and the
\* controller is notified.  What was sent to it meanwhile is lost.  (n tells a
\* notification that follows a reset request from one that does not.)
AgentBoots ==
    /\ ~agt.on
    /\ down' = <<>>
    /\ LET p == Packet("AGENT_START_NOTIFICATION", Control, "NONE", IF log.asked THEN 1 ELSE 0)
       IN  up' = Append(up, [p EXCEPT !.seq = First(INVALID)])
    /\ agt' = [on |-> TRUE, seen |-> INVALID, sent |-> First(INVALID)]
    /\ streams' = {Control}
    /\ UNCHANGED <<ctlVars, aq, task, arx, left, log>>

-----------------------------------------------------------------------------
(* Faults                                                                  *)

LoseDown ==
    /\ Spend("lose")
    /\ down # <<>>
    /\ down' = Tail(down)
    /\ log' = [log EXCEPT !.lost = TRUE, !.gapDown = IF ~Head(down).copy THEN @ + 1 ELSE @]
    /\ UNCHANGED <<ctlVars, up, agtVars>>

\* A start notification that is lost leaves the controller with the sequence
\* numbers of the agent's earlier life, as if any number had been lost.
LoseUp ==
    /\ Spend("lose")
    /\ up # <<>>
    /\ up' = Tail(up)
    /\ log' = [log EXCEPT !.lost = TRUE, !.gapUp =
                  IF Head(up).type = "AGENT_START_NOTIFICATION" THEN SeqMod
                  ELSE IF Head(up).copy THEN @ ELSE @ + 1]
    /\ UNCHANGED <<ctlVars, down, agtVars>>

Repeated(q) == <<[q[1] EXCEPT !.copy = FALSE], [q[1] EXCEPT !.copy = TRUE]>> \o Tail(q)

RepeatDown ==
    /\ Spend("repeat")
    /\ down # <<>> /\ ~Head(down).copy
    /\ down' = Repeated(down)
    /\ UNCHANGED <<ctlVars, up, agtVars, log>>

RepeatUp ==
    /\ Spend("repeat")
    /\ up # <<>> /\ ~Head(up).copy
    /\ up' = Repeated(up)
    /\ UNCHANGED <<ctlVars, down, agtVars, log>>

AgentCrashes ==
    /\ Spend("crash")
    /\ agt.on
    /\ Off
    /\ UNCHANGED <<ctlVars, up>>

-----------------------------------------------------------------------------
\* mmagic_controller_init, with an agent that has just started.
Init ==
    /\ ctl = [seen |-> INVALID, sent |-> INVALID, token |-> 0, status |-> "NONE"]
    /\ cq = [s \in Stream |-> <<>>]
    /\ call = [s \in Stream |-> Idle]
    /\ open = {Control}
    /\ sync = [at |-> "idle", n |-> 0, seq |-> INVALID, answered |-> FALSE, ret |-> "NONE"]
    /\ down = <<>>
    /\ up = <<[Packet("AGENT_START_NOTIFICATION", Control, "NONE", 0) EXCEPT !.seq = 0]>>
    /\ agt = [on |-> TRUE, seen |-> INVALID, sent |-> 0]
    /\ aq = [s \in Stream |-> <<>>]
    /\ streams = {Control}
    /\ task = [s \in Stream |-> Idle]
    /\ arx = <<>>
    /\ left \in Budgets
    /\ log = [stale |-> FALSE, mixed |-> FALSE, late |-> {}, fresh |-> FALSE,
              gapUp |-> 0, gapDown |-> 0, asked |-> FALSE, started |-> FALSE,
              outOfSync |-> FALSE, twice |-> FALSE, dead |-> FALSE,
              taken |-> {}, again |-> FALSE, lost |-> FALSE, restarted |-> FALSE]

AgentReceive ==
    \E p \in {down[i] : i \in DOMAIN down} :
        AgentDrops(p) \/ AgentRefuses(p) \/ AgentAccepts(p) \/ AgentSyncs(p) \/ AgentResets(p)

App ==
    \/ \E s \in Stream, cmd \in Command : Call(s, cmd)
    \/ SyncSend \/ RequestReset \/ AgentEvent

\* What the tasks of both sides and the data links do when they can.
Progress ==
    \/ \E s \in Stream : CallReturns(s)
    \/ SyncNoteToken \/ SyncPreset \/ SyncReturn
    \/ ControllerDrops \/ ControllerRx
    \/ AgentReceive \/ AgentPushes \/ AgentBoots
    \/ \E s \in Stream : TaskTakes(s) \/ TaskResponds(s) \/ TaskFrees(s)

Fault ==
    \/ \E s \in Stream : CallTimesOut(s)
    \/ LoseDown \/ LoseUp \/ RepeatDown \/ RepeatUp \/ AgentCrashes

Next == App \/ Progress \/ Fault

Spec == Init /\ [][Next]_vars

\* The tasks of the controller, of the agent and the data links are scheduled.
Fairness ==
    /\ \A s \in Stream : WF_vars(CallReturns(s))
    /\ WF_vars(SyncNoteToken) /\ WF_vars(SyncPreset) /\ WF_vars(SyncReturn)
    /\ WF_vars(ControllerDrops \/ ControllerRx)
    /\ WF_vars(AgentReceive \/ AgentPushes)
    /\ WF_vars(AgentBoots)
    /\ \A s \in Stream : WF_vars(TaskTakes(s) \/ TaskResponds(s) \/ TaskFrees(s))

FairSpec == Spec /\ Fairness

-----------------------------------------------------------------------------
(* Properties                                                              *)

PacketOK(p) ==
    /\ p.type \in PacketType
    /\ p.sid \in Stream
    /\ p.n \in Nat
    /\ p.seq \in Seqno
    /\ p.copy \in BOOLEAN

\* Every variable has its type: in particular the queues of the streams hold
\* at most one entry, and a sequence number is never the invalid one.
TypeOK ==
    /\ ctl.seen \in Seqno \cup {INVALID} /\ ctl.sent \in Seqno \cup {INVALID}
    /\ ctl.token \in Nat /\ ctl.status \in {"NONE", "TIMEOUT", "OK"}
    /\ \A s \in Stream : /\ Len(cq[s]) <= 1 /\ Len(aq[s]) <= 1
                         /\ call[s].at \in {"idle", "wait"}
                         /\ task[s].at \in {"idle", "busy", "closing"}
    /\ \A i \in DOMAIN down : PacketOK(down[i])
    /\ \A i \in DOMAIN up : PacketOK(up[i])
    /\ agt.seen \in Seqno \cup {INVALID} /\ agt.sent \in Seqno \cup {INVALID}
    /\ agt.on = (streams # {})
    /\ streams \subseteq Stream /\ open \subseteq Stream
    /\ sync.at \in {"idle", "sent", "noted", "poll"}
    /\ Len(arx) <= 1

\* A call whose stream never timed out before gets the response to its own
\* command, whatever was lost or repeated and however often the agent
\* restarted (ControllerRepeated, mmagic_controller_rx).
OwnAnswer == ~log.mixed

\* No command is carried out twice, although the data link may repeat packets
\* and the agent may restart (AgentRepeated).
CarriedOutOnce == ~log.again

\* A packet that is no repetition is dropped as one only if so many were lost
\* in a row that the sequence number came round, or the peer restarted unseen.
OnlyRepetitionsDropped == ~log.fresh

\* The receive callback never pushes to the queue of a stream that has been
\* closed since it looked the stream up; unless the agent restarted and a call
\* on the control stream was given up: then the response to an OPEN of the
\* agent's earlier life may pass for the one to a later OPEN, and the application
\* uses the stream while its CLOSE is still being carried out.
NoDeadQueue == log.dead => log.restarted /\ Control \in log.late

\* Both receive callbacks, under losses, repetitions, restarts and streams that
\* close: only repetitions are dropped and no dead queue is used
\* (mmagic_llc_agent_rx_buffer_callback, mmagic_m2m_rx_callback).
LinkSound == TypeOK /\ OnlyRepetitionsDropped /\ NoDeadQueue

\* Every call is answered on a link that loses nothing, whatever it repeats, as
\* long as the agent does not restart and no call was given up: a response that
\* nobody waits for stays in the stream's queue and holds up the receiver.
CallAnswered ==
    \A s \in Stream : call[s].at = "wait" ~>
        (call[s].at = "idle" \/ log.lost \/ log.restarted \/ log.late # {})

\* A reset request ends in the start callback, under the same conditions, with
\* calls and a sync in progress and even if the agent restarts by itself.
ResetCompletes == log.asked ~> (log.started \/ log.lost \/ log.late # {})

-----------------------------------------------------------------------------
(* What a comment, an assertion or the documentation says and the code does *)
(* not do: none of these is an invariant (README, Deviations).              *)

\* A call that returns success returns the data of its own command.
OwnData == ~log.stale

\* A sync request whose response arrived while it waited is successful.
SyncAnswered == sync.at = "idle" /\ sync.answered => sync.ret = "OK"

\* As long as nothing is lost, a sync finds both sides in agreement: the last
\* number the agent saw is the last one the controller counted.
SyncAgrees == ~log.outOfSync

\* The receive callback never uses a queue that was deleted (NoDeadQueue without
\* its exception).
QueueAlive == ~log.dead

\* A buffer that the receive callback refuses is released once.
ReleasedOnce == ~log.twice
=============================================================================
