---------------------------- MODULE SlipDatalink ----------------------------
(***************************************************************************)
(* The SLIP codec (slip.c) and the receive side of the UART data link of   *)
(* the mmagic agent (mmagic_datalink_uart.c).                              *)
(*                                                                         *)
(* A sender frames packets with slip_tx, one call of the transport per     *)
(* character.  The wire may lose or change characters.  The receiver runs  *)
(* slip_rx on each character and hands complete packets up.  A call of     *)
(* datalink_uart_rx_handler covers one or more characters: where a call    *)
(* begins matters, because that is where a failed allocation is retried.   *)
(*                                                                         *)
(* Characters are bytes.  Each character on the wire carries the number of *)
(* the frame it belongs to, for the properties only.                       *)
(***************************************************************************)
EXTENDS Naturals, Sequences, SequencesExt

CONSTANTS
    Packets,        \* what the sender sends: packets, header included
    BufferLength,   \* max_rx_packet_size
    Noise,          \* what a damaged character may turn into
    MaxFrames,      \* bound: frames sent
    MaxFaults,      \* bound: faults
    Faulty          \* what may fail, a subset of Failures

Failures == {"wire", "alloc", "transport"}

Byte == 0 .. 255

ASSUME SlipAssumption ==
    /\ \A p \in Packets : p \in Seq(Byte) /\ p # <<>>
    /\ BufferLength \in Nat \ {0}
    /\ Noise \subseteq Byte
    /\ MaxFrames \in Nat
    /\ MaxFaults \in Nat
    /\ Faulty \subseteq Failures

END     == 192      \* SLIP_FRAME_END
ESC     == 219      \* SLIP_FRAME_ESC
ESC_END == 220      \* SLIP_FRAME_ESC_END
ESC_ESC == 221      \* SLIP_FRAME_ESC_ESC

VARIABLES
    todo,       \* slip_tx: the calls of the transport still to make
    ret,        \* slip_tx: its ret
    refused,    \* whether the transport refused a character of the packet
    sent,       \* the packets given to slip_tx
    wire,       \* the characters on the wire
    rx,         \* slip_rx_state
    rxbuf,      \* whether the data link holds the buffer rx writes to
    intruded,   \* whether slip_rx wrote to a buffer it does not hold
    up,         \* the packets handed up
    damaged,    \* the frames hit by a fault
    faults      \* bound: faults left

txVars == <<todo, ret, refused, sent>>
vars == <<txVars, wire, rx, rxbuf, intruded, up, damaged, faults>>

-----------------------------------------------------------------------------
(* The sender                                                              *)

Escaped(c) ==
    CASE c = ESC -> <<ESC, ESC_ESC>>
      [] c = END -> <<ESC, ESC_END>>
      [] OTHER   -> <<c>>

Frame(p) == <<END>> \o FlattenSeq([i \in DOMAIN p |-> Escaped(p[i])]) \o <<END>>

SlipTx(p) ==
    /\ todo = <<>>
    /\ Len(sent) < MaxFrames
    /\ sent' = Append(sent, p)
    /\ todo' = Frame(p)
    /\ ret' = 0
    /\ refused' = FALSE
    /\ UNCHANGED <<wire, rx, rxbuf, intruded, up, damaged, faults>>

\* transport_tx_fn takes the next character.  slip_tx ignores what it says of
\* the characters that delimit the frame.
TransportTakes ==
    /\ todo # <<>>
    /\ wire' = Append(wire, [c |-> Head(todo), frame |-> Len(sent)])
    /\ todo' = Tail(todo)
    /\ ret' = IF Head(todo) = END THEN ret ELSE 0
    /\ UNCHANGED <<refused, sent, rx, rxbuf, intruded, up, damaged, faults>>

\* transport_tx_fn refuses it.  The break leaves the switch and not the loop:
\* of an escape sequence the rest is skipped, and the next character is sent.
TransportRefuses ==
    /\ "transport" \in Faulty
    /\ faults > 0
    /\ todo # <<>>
    /\ todo' = SubSeq(todo, IF Head(todo) = ESC THEN 3 ELSE 2, Len(todo))
    /\ ret' = IF Head(todo) = END THEN ret ELSE 1
    /\ refused' = (refused \/ Head(todo) # END)
    /\ damaged' = damaged \cup {Len(sent)}
    /\ faults' = faults - 1
    /\ UNCHANGED <<sent, wire, rx, rxbuf, intruded, up>>

-----------------------------------------------------------------------------
(* The wire                                                                *)

Damage ==
    /\ "wire" \in Faulty
    /\ faults > 0
    /\ wire # <<>>
    /\ damaged' = damaged \cup {Head(wire).frame}
    /\ faults' = faults - 1
    /\ UNCHANGED <<txVars, rx, rxbuf, intruded, up>>

Lose == Damage /\ wire' = Tail(wire)

Garble(b) ==
    /\ Damage
    /\ b # Head(wire).c
    /\ wire' = [wire EXCEPT ![1].c = b]

-----------------------------------------------------------------------------
(* slip_rx: the state after a character, and what it returns               *)

Reinit == [buffer |-> <<>>, escape |-> FALSE, started |-> FALSE]

Result(state, status) == [state |-> state, status |-> status]

RxAppend(s, c) ==
    IF Len(s.buffer) = BufferLength
    THEN Result([s EXCEPT !.started = FALSE], "BUFFER_LIMIT")
    ELSE Result([s EXCEPT !.buffer = Append(@, c)], "IN_PROGRESS")

RxEnd(s) ==
    CASE s.escape -> Result(Reinit, "ERROR")
      [] ~s.escape /\ s.buffer # <<>> -> Result(s, "COMPLETE")
      [] OTHER -> Result([s EXCEPT !.started = TRUE], "IN_PROGRESS")

\* Mutant of RxEscaped: the escape state is left set after an escape sequence.
RxEscapedTwice(s, c) ==
    CASE c = ESC_END -> RxAppend(s, END)
      [] c = ESC_ESC -> RxAppend(s, ESC)
      [] OTHER -> Result(Reinit, "ERROR")

RxEscaped(s, c) ==
    LET t == [s EXCEPT !.escape = FALSE]
    IN  CASE c = ESC_END -> RxAppend(t, END)
          [] c = ESC_ESC -> RxAppend(t, ESC)
          [] OTHER -> Result(Reinit, "ERROR")

SlipRx(s, c) ==
    CASE c = END -> RxEnd(s)
      [] c # END /\ s.escape -> RxEscaped(s, c)
      [] c = ESC /\ ~s.escape -> Result([s EXCEPT !.escape = TRUE], "IN_PROGRESS")
      [] c \notin {END, ESC} /\ ~s.escape /\ s.started -> RxAppend(s, c)
      [] OTHER -> Result(s, "IN_PROGRESS")

-----------------------------------------------------------------------------
(* The data link                                                           *)

\* mmcrc_16_xmodem, which is not modelled: any function of the data will do.
Crc16(p) == LET s == FoldLeft(+, 0, p) IN <<s % 256, (s \div 256) % 256>>

\* datalink_process_rxbuf: what is handed up of a packet received, at most
\* one payload.
Processed(p) ==
    LET hasCrc == p[1] \div 128 = 1
        body   == SubSeq(p, IF hasCrc THEN 4 ELSE 2, Len(p))
        valid  == /\ hasCrc => Len(p) >= 3 /\ SubSeq(p, 2, 3) = Crc16(body)
                  /\ p[1] % 16 = 0
    IN  IF valid THEN <<body>> ELSE <<>>

\* One character in datalink_uart_rx_handler.  first: it is the first of its
\* call, which allocates a buffer if there is none.  ok1, ok2: whether that
\* allocation, and the one after a complete packet, succeed.
Receive(first, ok1, ok2) ==
    LET c     == Head(wire).c
        frame == Head(wire).frame
        retry == first /\ ~rxbuf
        held  == rxbuf \/ (retry /\ ok1)
        res   == SlipRx(IF retry /\ ok1 THEN Reinit ELSE rx, c)
        done  == res.status = "COMPLETE"
        failed == (retry /\ ~ok1) \/ (done /\ ~ok2)
    IN  /\ wire # <<>>
        /\ ~retry => ok1
        /\ ~done => ok2
        /\ failed => "alloc" \in Faulty /\ faults > 0
        /\ faults' = IF failed THEN faults - 1 ELSE faults
        /\ damaged' = IF failed THEN damaged \cup {frame} ELSE damaged
        /\ wire' = Tail(wire)
        /\ rx' = IF done /\ ok2 THEN Reinit ELSE res.state
        /\ rxbuf' = IF done THEN ok2 ELSE held
        /\ intruded' = (intruded \/ (~held /\ Len(res.state.buffer) > Len(rx.buffer)))
        /\ up' = IF done /\ held
                 THEN up \o [i \in DOMAIN Processed(res.state.buffer) |->
                              [frame |-> frame, p |-> Processed(res.state.buffer)[i]]]
                 ELSE up
        /\ UNCHANGED txVars

-----------------------------------------------------------------------------
\* mmagic_datalink_agent_init
Init ==
    /\ todo = <<>>
    /\ ret = 0
    /\ refused = FALSE
    /\ sent = <<>>
    /\ wire = <<>>
    /\ rx = Reinit
    /\ rxbuf = TRUE
    /\ intruded = FALSE
    /\ up = <<>>
    /\ damaged = {}
    /\ faults = MaxFaults

Next ==
    \/ \E p \in Packets : SlipTx(p)
    \/ TransportTakes
    \/ TransportRefuses
    \/ Lose
    \/ \E b \in Noise : Garble(b)
    \/ \E first, ok1, ok2 \in BOOLEAN : Receive(first, ok1, ok2)

Spec == Init /\ [][Next]_vars

-----------------------------------------------------------------------------
(* Properties                                                              *)

\* Every variable has its type; in particular slip_rx never holds more than
\* its buffer has room for (slip_rx_append).
TypeOK ==
    /\ todo \in Seq(Byte)
    /\ ret \in {0, 1}
    /\ refused \in BOOLEAN
    /\ sent \in Seq(Packets)
    /\ wire \in Seq([c : Byte, frame : Nat])
    /\ rx \in [buffer : Seq(Byte), escape : BOOLEAN, started : BOOLEAN]
    /\ Len(rx.buffer) <= BufferLength
    /\ rxbuf \in BOOLEAN
    /\ intruded \in BOOLEAN
    /\ up \in Seq([frame : Nat, p : Seq(Byte)])
    /\ damaged \in SUBSET Nat
    /\ faults \in 0 .. MaxFaults

Ended(f) == (f < Len(sent) \/ todo = <<>>) /\ \A i \in DOMAIN wire : wire[i].frame > f

HandedUpBy(f) == SelectSeq(up, LAMBDA u : u.frame = f)

\* The receiver finds its feet again: whatever was lost, changed or dropped
\* before, a frame that arrives whole after another that arrived whole is
\* handed up exactly once and exactly as it was sent, special characters
\* included (slip_rx and slip_tx are inverse, and every END that follows an
\* error leads back to the start of a frame).
Resynchronises ==
    \A f \in DOMAIN sent :
        /\ Ended(f)
        /\ {f - 1, f} \cap damaged = {}
        /\ Len(sent[f]) <= BufferLength
        => HandedUpBy(f) = [i \in DOMAIN Processed(sent[f]) |->
                              [frame |-> f, p |-> Processed(sent[f])[i]]]

\* The receiver on a faulty wire: it stays within its buffer and finds its feet
\* again (slip_rx, datalink_uart_rx_handler).
ReceiverSound == TypeOK /\ Resynchronises

-----------------------------------------------------------------------------
(* What the documentation says and the code does not do: none of these is a  *)
(* property of the specification (README, Deviations).                       *)

\* A packet reported by slip_rx as SLIP_RX_COMPLETE is complete: nothing that
\* arrived undamaged is handed up cut short.
CompleteMeansWhole ==
    \A i \in DOMAIN up :
        {up[i].frame - 1, up[i].frame} \cap damaged = {} =>
            <<up[i].p>> = Processed(sent[up[i].frame])

\* slip_tx returns the error of a transport that refused a character of the
\* packet.
TxErrorReported == todo = <<>> /\ refused => ret # 0

\* A buffer handed to the callback is the callback's: slip_rx writes no more
\* to it (datalink_uart_rx_handler).
BufferLeftAlone == ~intruded
=============================================================================
