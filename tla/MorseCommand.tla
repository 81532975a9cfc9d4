---------------------------- MODULE MorseCommand ----------------------------
(***************************************************************************)
(* Commands to the chip (morse_driver/command.c), with the command queue   *)
(* they go through (skbq.c, mm8108/yaps.c) and the stop and start of the   *)
(* driver around them (driver.c).                                          *)
(*                                                                         *)
(* The thread of the UMAC event loop and an application thread             *)
(* (mmwlan_set_fragment_threshold, mmwlan_get_duty_cycle_stats) both call  *)
(* morse_cmd_tx.  The driver task writes the queue to the chip and hands   *)
(* responses to morse_cmd_resp_process.  The chip is external: it answers  *)
(* requests in order, and may lose a request or an answer.                 *)
(*                                                                         *)
(* MMOSAL_DEV_ASSERT is compiled out, as in a release build.               *)
(***************************************************************************)
EXTENDS Naturals, Sequences, SequencesExt, FiniteSets

CONSTANTS
    Loop, App,      \* the threads that send commands; Loop also stops the driver
    Ids,            \* message ids
    MaxRetry,       \* MM_MAX_COMMAND_RETRY: 3
    MaxSeq,         \* MORSE_CMD_IID_SEQ_MAX: 4095
    MaxCommands,    \* bound: commands
    MaxFaults,      \* bound: allocations, writes and packets that fail
    MaxRestarts,    \* bound: restarts of the driver
    None            \* nobody, nothing

\* Unlikely timings, on which some properties depend.
\* gap:     a response comes between two tries of its command
\* overlap: the driver writes a command whose caller has stopped waiting
\* no room: there is no packet for a second try
Timings == {"gap", "overlap", "no room"}
Threads == {Loop, App}

ASSUME CommandAssumption ==
    /\ Loop # App /\ None \notin {Loop, App}
    /\ MaxRetry \in Nat \ {0} /\ MaxSeq \in Nat \ {0}
    /\ {MaxCommands, MaxFaults, MaxRestarts} \subseteq Nat

VARIABLES
    started,    \* driver_data.started
    running,    \* the driver task runs
    holder,     \* cmd.wait: the thread that holds it
    seq,        \* cmd.seq
    pending,    \* cmd.pending_cmd_id and pending_cmd_host_id
    rspview,    \* cmd.rspview
    semb,       \* cmd.semb is given
    skbq,       \* cmd_q->skbq
    sending,    \* skbq_to_send of morse_yaps_tx
    unanswered, \* cmd_q->pending
    chip,       \* requests the chip has taken
    up,         \* responses on their way to the host
    pc,         \* where each thread is
    cmd,        \* the command of each thread
    odd,        \* history: which of Timings have occurred
    issued, faults, restarts

queues == <<skbq, sending, unanswered>>
link   == <<chip, up>>
cmdVars == <<holder, seq, pending, rspview, semb>>
vars == <<started, running, cmdVars, queues, link, pc, cmd, odd, issued, faults,
          restarts>>

\* A request: `n' counts commands and is known only to the model.
Request(n, id, s, retry) == [n |-> n, id |-> id, seq |-> s, retry |-> retry]
Requests == [n : 1 .. MaxCommands, id : Ids, seq : 1 .. MaxSeq,
             retry : 0 .. MaxRetry - 1]
Responses == [req : Requests, good : BOOLEAN]
NoCommand == [req |-> None, rsp |-> None]

Init ==
    /\ started = TRUE /\ running = TRUE
    /\ holder = None /\ seq = 0
    /\ pending = None /\ rspview = None /\ semb = FALSE
    /\ skbq = <<>> /\ sending = <<>> /\ unanswered = <<>>
    /\ chip = <<>> /\ up = <<>>
    /\ pc = [t \in Threads |-> "idle"]
    /\ cmd = [t \in Threads |-> NoCommand]
    /\ odd = {}
    /\ issued = 0 /\ faults = 0 /\ restarts = 0

Notice(timing, occurs) == odd' = IF occurs THEN odd \cup {timing} ELSE odd

Goto(t, label) == pc' = [pc EXCEPT ![t] = label]

\* Something that may fail does not, or it does and is counted.
Works(ok) ==
    /\ ok \/ faults < MaxFaults
    /\ faults' = IF ok THEN faults ELSE faults + 1

-----------------------------------------------------------------------------
(* morse_cmd_tx                                                            *)

\* the sequence number of the next command, never 0
NextSeq(s) == IF s + 1 > MaxSeq THEN 1 ELSE s + 1

\* A command waits for its turn ...
Enter(t) ==
    /\ pc[t] = "idle" /\ started
    /\ issued < MaxCommands
    /\ Goto(t, "want")
    /\ UNCHANGED <<odd, started, running, cmdVars, queues, link, cmd, issued,
                   faults, restarts>>

\* ... and has it; the driver may have been stopped meanwhile.
Acquire(t) ==
    /\ pc[t] = "want" /\ holder = None
    /\ \/ /\ ~started
          /\ Goto(t, "idle")
          /\ UNCHANGED <<cmdVars, cmd, issued>>
       \/ /\ started /\ issued < MaxCommands
          /\ Goto(t, "send")
          /\ holder' = t
          /\ seq' = NextSeq(seq)
          /\ issued' = issued + 1
          /\ \E id \in Ids :
                cmd' = [cmd EXCEPT ![t] =
                          [req |-> Request(issued + 1, id, seq', 0),
                           rsp |-> None]]
          /\ UNCHANGED <<pending, rspview, semb>>
    /\ UNCHANGED <<odd, started, running, queues, link, faults, restarts>>

\* A try: the packet is queued and noted as pending under cmd.lock.
Send(t) ==
    /\ pc[t] = "send"
    /\ \E ok \in BOOLEAN :
          /\ Works(ok)
          /\ Notice("no room", ~ok /\ cmd[t].req.retry > 0)
          /\ IF ok
             THEN /\ skbq' = Append(skbq, cmd[t].req)
                  /\ pending' = cmd[t].req
                  /\ Goto(t, "wait")
             ELSE /\ Goto(t, "return")
                  /\ UNCHANGED <<skbq, pending>>
    /\ UNCHANGED <<started, running, holder, seq, rspview, semb, sending,
                   unanswered, link, cmd, issued, restarts>>

\* The try is over: cmd.semb was given, or the timeout passed.
StopsWaiting(t) ==
    /\ pc[t] = "wait"
    /\ Goto(t, "take")
    /\ Notice("overlap", sending # <<>>)

Wake(t) ==
    /\ StopsWaiting(t) /\ semb
    /\ semb' = FALSE
    /\ UNCHANGED <<started, running, holder, seq, pending, rspview, queues,
                   link, cmd, issued, faults, restarts>>

TimeOut(t) ==
    /\ StopsWaiting(t)
    /\ UNCHANGED <<started, running, cmdVars, queues, link, cmd, issued,
                   faults, restarts>>

\* the try after which the command is given up
LastTry(r) == r.retry + 1 = MaxRetry

\* The response is taken under cmd.lock; only the last try stops expecting
\* one.
Take(t) ==
    /\ pc[t] = "take"
    /\ cmd' = [cmd EXCEPT ![t].rsp = rspview]
    /\ rspview' = None
    /\ pending' = IF LastTry(cmd[t].req) THEN None ELSE pending
    /\ Goto(t, "finish")
    /\ UNCHANGED <<odd, started, running, holder, seq, semb, queues, link, issued,
                   faults, restarts>>

\* morse_skbq_tx_finish: mmpkt_list_remove asserts that the packet is in the
\* list it is removed from.
Finishable(t) ==
    \/ cmd[t].req \in Range(unanswered)
    \/ unanswered = <<>> /\ (cmd[t].req \in Range(skbq) \/ skbq = <<>>)

\* no response, or a malformed one
Unanswered(t) == cmd[t].rsp = None \/ ~cmd[t].rsp.good

\* mutant of Without: the packet stays in the list
WithoutNothing(list, r) == list

\* mmpkt_list_remove, of a packet that is in the list
Without(list, r) ==
    IF r \in Range(list) THEN RemoveAt(list, CHOOSE i \in DOMAIN list : list[i] = r)
                         ELSE list

TxFinish(t) ==
    /\ pc[t] = "finish" /\ Finishable(t)
    /\ unanswered' = Without(unanswered, cmd[t].req)
    /\ skbq' = IF unanswered = <<>> THEN Without(skbq, cmd[t].req) ELSE skbq
    /\ IF Unanswered(t) /\ ~LastTry(cmd[t].req)
       THEN /\ cmd' = [cmd EXCEPT ![t].req.retry = @ + 1]
            /\ Goto(t, "send")
       ELSE /\ Goto(t, "return")
            /\ UNCHANGED cmd
    /\ UNCHANGED <<odd, started, running, cmdVars, sending, link, issued, faults,
                   restarts>>

\* mutant of Return: cmd.wait is kept when there was no response
ReturnHolding(t) ==
    /\ pc[t] = "return"
    /\ holder' = IF cmd[t].rsp = None THEN holder ELSE None
    /\ cmd' = [cmd EXCEPT ![t] = NoCommand]
    /\ Goto(t, "idle")
    /\ UNCHANGED <<odd, started, running, seq, pending, rspview, semb, queues,
                   link, issued, faults, restarts>>

Return(t) ==
    /\ pc[t] = "return"
    /\ holder' = None
    /\ cmd' = [cmd EXCEPT ![t] = NoCommand]
    /\ Goto(t, "idle")
    /\ UNCHANGED <<odd, started, running, seq, pending, rspview, semb, queues,
                   link, issued, faults, restarts>>

-----------------------------------------------------------------------------
(* The driver task                                                         *)

\* morse_yaps_tx of the command queue: what is still pending has timed out.
TakeQueue ==
    /\ running /\ sending = <<>> /\ skbq # <<>>
    /\ Notice("overlap", \E t \in Threads : pc[t] \in {"take", "finish"})
    /\ unanswered' = <<>>
    /\ sending' = skbq
    /\ skbq' = <<>>
    /\ UNCHANGED <<started, running, cmdVars, link, pc, cmd, issued, faults,
                   restarts>>

\* A packet that cannot be written is released.
Write ==
    /\ running /\ sending # <<>>
    /\ \E ok \in BOOLEAN :
          /\ Works(ok)
          /\ sending' = Tail(sending)
          /\ IF ok
             THEN /\ unanswered' = Append(unanswered, Head(sending))
                  /\ chip' = Append(chip, Head(sending))
             ELSE UNCHANGED <<unanswered, chip>>
    /\ UNCHANGED <<odd, started, running, cmdVars, skbq, up, pc, cmd, issued,
                   restarts>>

\* mutant of Expected: any response to the same kind of command will do
ExpectedKind(r) == pending # None /\ pending.id = r.id

\* The response of a command is expected whichever of its tries it answers.
Expected(r) == pending # None /\ pending.id = r.id /\ pending.seq = r.seq

\* the caller is between two tries
InGap == \E t \in Threads : pc[t] \in {"finish", "send"}

\* morse_cmd_resp_process, called by the task that also writes.  A response
\* as old as the range of sequence numbers does not occur.
RespProcess ==
    /\ running /\ sending = <<>> /\ up # <<>>
    /\ Notice("gap", InGap)
    /\ issued - Head(up).req.n < MaxSeq
    /\ up' = Tail(up)
    /\ IF Expected(Head(up).req)
       THEN rspview' = Head(up) /\ pending' = None /\ semb' = TRUE
       ELSE UNCHANGED <<rspview, pending, semb>>
    /\ UNCHANGED <<started, running, holder, seq, queues, chip, pc, cmd,
                   issued, faults, restarts>>

-----------------------------------------------------------------------------
(* The chip                                                                *)

ChipAnswers ==
    /\ chip # <<>>
    /\ \E good \in BOOLEAN :
          /\ Works(good)
          /\ up' = Append(up, [req |-> Head(chip), good |-> good])
    /\ chip' = Tail(chip)
    /\ UNCHANGED <<odd, started, running, cmdVars, queues, pc, cmd, issued,
                   restarts>>

ChipLoses ==
    /\ chip # <<>> /\ Works(FALSE)
    /\ chip' = Tail(chip)
    /\ UNCHANGED <<odd, started, running, cmdVars, queues, up, pc, cmd, issued,
                   restarts>>

ResponseLost ==
    /\ up # <<>>
    /\ \/ Works(FALSE)
       \/ issued - Head(up).req.n >= MaxSeq /\ Works(TRUE)
    /\ up' = Tail(up)
    /\ UNCHANGED <<odd, started, running, cmdVars, queues, chip, pc, cmd, issued,
                   restarts>>

-----------------------------------------------------------------------------
(* mmdrv_deinit and mmdrv_init, in the thread of the event loop            *)

Deinit ==
    /\ pc[Loop] = "idle" /\ started /\ restarts < MaxRestarts
    /\ restarts' = restarts + 1
    /\ started' = FALSE
    /\ Goto(Loop, "stop task")
    /\ UNCHANGED <<odd, running, cmdVars, queues, link, cmd, issued, faults>>

\* driver_task_stop waits until the task has left its loop.
StopTask ==
    /\ pc[Loop] = "stop task" /\ sending = <<>>
    /\ running' = FALSE
    /\ Goto(Loop, "wake caller")
    /\ UNCHANGED <<odd, started, cmdVars, queues, link, cmd, issued, faults,
                   restarts>>

\* morse_cmd_deinit: a caller that waits is woken ...
WakeCaller ==
    /\ pc[Loop] = "wake caller"
    /\ pending' = None
    /\ semb' = (semb \/ pending # None)
    /\ Goto(Loop, "delete")
    /\ UNCHANGED <<odd, started, running, holder, seq, rspview, queues, link, cmd,
                   issued, faults, restarts>>

\* ... and its command waited for.  A thread that waits for cmd.wait when it
\* is deleted is not modelled.
Delete ==
    /\ pc[Loop] = "delete" /\ holder = None /\ pc[App] # "want"
    /\ seq' = 0 /\ pending' = None /\ rspview' = None /\ semb' = FALSE
    /\ skbq' = <<>> /\ unanswered' = <<>>
    /\ chip' = <<>> /\ up' = <<>>
    /\ Goto(Loop, "init")
    /\ UNCHANGED <<odd, started, running, holder, sending, cmd, issued, faults,
                   restarts>>

DriverInit ==
    /\ pc[Loop] = "init"
    /\ started' = TRUE /\ running' = TRUE
    /\ Goto(Loop, "idle")
    /\ UNCHANGED <<odd, cmdVars, queues, link, cmd, issued, faults, restarts>>

-----------------------------------------------------------------------------

CmdTx(t) ==
    Acquire(t) \/ Send(t) \/ Wake(t) \/ TimeOut(t) \/ Take(t)
    \/ TxFinish(t) \/ Return(t)

Restart == StopTask \/ WakeCaller \/ Delete \/ DriverInit

Next ==
    \/ \E t \in Threads : Enter(t) \/ CmdTx(t)
    \/ TakeQueue \/ Write \/ RespProcess
    \/ ChipAnswers \/ ChipLoses \/ ResponseLost
    \/ Deinit \/ Restart

Spec == Init /\ [][Next]_vars

\* Every thread that can go on does, a timeout ends every wait, and the
\* driver task finishes what it writes.  Nothing is asked of the chip.
FairSpec ==
    /\ Spec
    /\ \A t \in Threads : WF_vars(CmdTx(t))
    /\ WF_vars(TakeQueue) /\ WF_vars(Write) /\ WF_vars(Restart)

-----------------------------------------------------------------------------
(* Properties                                                              *)

\* Every variable keeps its range; in particular sequence numbers and packets
\* stay well formed whichever way the tries before ended.
TypeOK ==
    /\ {started, running, semb} \subseteq BOOLEAN
    /\ holder \in Threads \cup {None}
    /\ seq \in 0 .. MaxSeq
    /\ pending \in Requests \cup {None}
    /\ rspview \in Responses \cup {None}
    /\ Range(skbq) \cup Range(sending) \cup Range(unanswered) \cup Range(chip)
          \subseteq Requests
    /\ Range(up) \subseteq Responses
    /\ pc \in [Threads -> {"idle", "want", "send", "wait", "take", "finish",
                           "return", "stop task", "wake caller", "delete",
                           "init"}]
    /\ odd \subseteq Timings
    /\ \A t \in Threads : /\ cmd[t].req \in Requests \cup {None}
                          /\ cmd[t].rsp \in Responses \cup {None}

\* The response that morse_cmd_tx hands to its caller answers the command of
\* that call: a late answer to a command that was given up, or to an earlier
\* try, never becomes the answer of another (command.c:178 asserts it), unless
\* a response came between two tries or there was no packet for a second one.
OwnResponse ==
    \A t \in Threads :
        pc[t] = "finish" /\ cmd[t].rsp # None =>
            cmd[t].rsp.req.n = cmd[t].req.n \/ "gap" \in odd \/ "no room" \in odd

\* When a try is over its packet is removed from the list that holds it
\* (mmpkt_list.c:146 asserts it), although the caller only asks whether the
\* lists are empty, unless the driver task wrote it just then.
PacketFound == \A t \in Threads : pc[t] = "finish" => Finishable(t) \/ "overlap" \in odd

\* The command queue as callers and the driver task move packets through it
\* (skbq.c).
QueueSound == TypeOK /\ PacketFound

\* A call of morse_cmd_tx has the mutex, or the driver is being restarted.
Busy == holder # None \/ pc[Loop] \in {"stop task", "wake caller", "delete", "init"}

\* Every call of morse_cmd_tx returns, and the driver is stopped and started
\* again under a caller, whatever the chip does or leaves undone, unless an
\* assertion has stopped a caller.  (There are finitely many commands, so that
\* the driver comes to rest when each has returned.)
CommandReturns == Busy ~> (~Busy \/ "overlap" \in odd)

-----------------------------------------------------------------------------
(* What the code says and does not do: not a property of the model (README,  *)
(* Deviations).                                                              *)

\* A try that got no response waited its whole timeout for it: the log of
\* morse_cmd_tx says that it did (command.c:156).
TimeoutMeansWaited ==
    [][\A t \in Threads : started /\ Wake(t) => rspview # None]_vars
=============================================================================
