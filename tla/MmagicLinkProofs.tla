-------------------------- MODULE MmagicLinkProofs --------------------------
(***************************************************************************)
(* Proofs about MmagicLink, for every number of sequence numbers below the *)
(* invalid one and every budget of calls, faults and restarts: both        *)
(* receive callbacks drop nothing but repetitions and use no dead queue    *)
(* (LinkSound), a call gets the response to its own command (OwnAnswer),   *)
(* and no command is carried out twice (CarriedOutOnce).                   *)
(*                                                                         *)
(* The argument has two levels.  What the faults of a data link and the    *)
(* sequence numbers do to a queue of packets is stated of a queue alone    *)
(* (Wire, Position) and proved once for both directions.  What remains of  *)
(* a queue is the set of its live items: the commands, or responses, which *)
(* the receiver has not yet seen the original of.  The rest of the         *)
(* invariant follows each command, by its number, from the controller to   *)
(* the agent and back.                                                     *)
(***************************************************************************)
EXTENDS MmagicLink, TLAPS

-----------------------------------------------------------------------------
(* Queues of packets                                                       *)

Info == Command \cup {"NONE", "FAILED"} \cup Nat

PacketSet == [type : PacketType, sid : Stream, info : Info, n : Nat,
              seq : Seqno, copy : BOOLEAN]

\* The two types of which a packet carries the number of a call.
Numbered == {"COMMAND", "RESPONSE"}

\* Two packets are the same but for being a repetition.
Same(p, q) ==
    p.type = q.type /\ p.sid = q.sid /\ p.info = q.info /\ p.n = q.n /\ p.seq = q.seq

\* Before a repetition there is nothing but its original.
CopiesFollow(q) ==
    \A i \in 1 .. Len(q) : q[i].copy => \A j \in 1 .. i : Same(q[j], q[i])

\* Two commands, or responses, of one call are a packet and its repetition.
CopiesOnly(q) ==
    \A i, j \in 1 .. Len(q) :
        /\ i < j
        /\ q[i].type = q[j].type
        /\ q[i].type \in Numbered
        /\ q[i].n = q[j].n
        => q[j].copy

\* A packet that is no repetition has the sequence number after the one
\* before it, unless it is the first one of an agent that restarted.
Numbering(q) ==
    \A i, j \in 1 .. Len(q) :
        j = i + 1 => \/ q[j].copy
                     \/ q[j].type = "AGENT_START_NOTIFICATION"
                     \/ q[j].seq = NextSeq(q[i].seq)

Wire(q) == CopiesFollow(q) /\ CopiesOnly(q) /\ Numbering(q)

\* The sequence number k after x, for k < SeqMod.
Add(x, k) == IF x + k < SeqMod THEN x + k ELSE x + k - SeqMod

\* The receiver's last number, the number of packets lost since and the head
\* of the queue: as long as not so many were lost that the numbers came round,
\* the head is the next packet, or a repetition of the one that was lost last.
HeadFollows(q, last, gap) ==
    last # INVALID /\ gap + 1 < SeqMod /\ q # <<>> =>
        \/ q[1].copy /\ q[1].seq = Add(last, gap)
        \/ ~q[1].copy /\ q[1].type = "AGENT_START_NOTIFICATION"
        \/ ~q[1].copy /\ q[1].seq = Add(last, gap + 1)

\* The sender's last number is that of the end of the queue.
EndSent(q, last, gap, sent) ==
    /\ q # <<>> => sent = q[Len(q)].seq
    /\ last # INVALID /\ gap + 1 < SeqMod /\ q = <<>> => sent = Add(last, gap)

\* The items of a type that the receiver, who saw last, may still take: the
\* others are repetitions of the packet it saw last.
Item(p) == [sid |-> p.sid, info |-> p.info, n |-> p.n]

LiveAt(q, last, type) ==
    {k \in 1 .. Len(q) : q[k].type = type /\ ~(q[k].copy /\ q[k].seq = last)}

Live(q, last, type) == {Item(q[i]) : i \in LiveAt(q, last, type)}

\* The call numbers of all packets of a type.
Calls(q, type) == {q[i].n : i \in {k \in 1 .. Len(q) : q[k].type = type}}

\* No live use of the socket comes after a live CLOSE.
Orderly(q, last) ==
    \A i, j \in LiveAt(q, last, "COMMAND") :
        i < j => ~(q[i].info = "CLOSE" /\ q[j].sid = Socket)

-----------------------------------------------------------------------------
(* The invariant                                                           *)

\* The last number the agent's receive callback took off the data link.
Last == IF arx = <<>> THEN agt.seen ELSE arx[1].seq

Cmds  == Live(down, Last, "COMMAND")
Resps == Live(up, ctl.seen, "RESPONSE")

\* A command of the application: the socket is opened and closed on the
\* control stream.
CommandOK(sid, info) == info \in Command /\ (sid = Socket => info = "OTHER")

PacketFits(p) ==
    /\ p.type = "COMMAND" => CommandOK(p.sid, p.info)
    /\ p.type = "RESPONSE" /\ p.info = "OPEN" => p.sid = Control

DownType == {"COMMAND", "SYNC_REQ", "AGENT_RESET"}

Queued(s) == aq[s] # <<>> /\ aq[s][1].type = "COMMAND"
Busy(s)   == task[s].at = "busy"

CtlTypes ==
    /\ ctl \in [seen : Seqno \cup {INVALID}, sent : Seqno \cup {INVALID},
                token : Nat, status : {"NONE", "TIMEOUT", "OK"}]
    /\ call \in [Stream -> [at : {"idle", "wait"}, req : [cmd : Command \cup {"NONE"}, n : Nat]]]
    /\ open \subseteq Stream
    /\ left \in [Happenings -> Nat]

SyncTypes ==
    /\ DOMAIN sync = {"at", "n", "seq", "answered", "ret"}
    /\ sync.at \in {"idle", "sent", "noted", "poll"}
    /\ sync.n \in Nat

CqTypes ==
    /\ cq \in [Stream -> Seq(PacketSet)]
    /\ \A s \in Stream :
          /\ Len(cq[s]) <= 1
          /\ cq[s] # <<>> => cq[s][1].sid = s /\ cq[s][1].type = "RESPONSE"
                /\ PacketFits(cq[s][1])

LogTypes ==
    /\ DOMAIN log = {"stale", "mixed", "late", "fresh", "gapUp", "gapDown", "asked", "started",
                     "outOfSync", "twice", "dead", "taken", "again", "lost", "restarted"}
    /\ log.late \subseteq Stream
    /\ log.taken \subseteq Nat
    /\ log.gapUp \in Nat
    /\ log.gapDown \in Nat

DownTypes ==
    /\ down \in Seq(PacketSet)
    /\ \A i \in 1 .. Len(down) : down[i].type \in DownType /\ PacketFits(down[i])

UpTypes ==
    /\ up \in Seq(PacketSet)
    /\ \A i \in 1 .. Len(up) : PacketFits(up[i])

\* An agent that is off has nothing; one that is on has its control stream, and
\* nothing is queued for a stream that does not exist.
AgtTypes ==
    /\ agt \in [on : BOOLEAN, seen : Seqno \cup {INVALID}, sent : Seqno \cup {INVALID}]
    /\ agt.on = (Control \in streams)
    /\ agt.on => agt.sent \in Seqno
    /\ ~agt.on => agt.seen = INVALID /\ arx = <<>> /\ log.restarted
    /\ streams \subseteq Stream
    /\ task \in [Stream -> [at : {"idle", "busy", "closing"},
                            req : [cmd : Command \cup {"NONE"}, n : Nat]]]
    /\ task[Control].at # "closing"
    /\ \A s \in Stream \ streams : aq[s] = <<>> /\ task[s].at = "idle"
    /\ Socket \in streams => Control \in streams
    /\ \A s \in Stream : Busy(s) => CommandOK(s, task[s].req.cmd)

\* What the agent's receive callback and the queues of the streams hold.
ArxTypes ==
    /\ arx \in Seq(PacketSet)
    /\ Len(arx) <= 1
    /\ arx # <<>> => arx[1].type = "COMMAND" /\ PacketFits(arx[1])

AqTypes ==
    /\ aq \in [Stream -> Seq(PacketSet \cup {Packet("CLOSE", Socket, "NONE", 0)})]
    /\ \A s \in Stream :
          /\ Len(aq[s]) <= 1
          /\ aq[s] # <<>> =>
                /\ aq[s][1].sid = s
                /\ \/ aq[s][1].type = "COMMAND" /\ aq[s][1] \in PacketSet
                      /\ PacketFits(aq[s][1])
                   \/ s = Socket /\ aq[s][1].type = "CLOSE"

Types ==
    /\ CtlTypes /\ SyncTypes /\ CqTypes /\ LogTypes
    /\ DownTypes /\ UpTypes
    /\ AgtTypes /\ ArxTypes /\ AqTypes

\* The queue to the agent, and the one to the controller.
DownOK ==
    /\ Wire(down)
    /\ HeadFollows(down, Last, log.gapDown)
    /\ EndSent(down, Last, log.gapDown, ctl.sent)

UpOK ==
    /\ Wire(up)
    /\ HeadFollows(up, ctl.seen, log.gapUp)
    /\ agt.on => EndSent(up, ctl.seen, log.gapUp, agt.sent)

\* The number of a call is at one place: among the live commands, in the hands
\* of the agent's receive callback, in a stream's queue, with a task, or in a
\* response.  It counts as taken from the task on.
NumbersDown ==
    /\ \A n \in Calls(down, "COMMAND") : n > left["call"]
    /\ \A c \in Cmds : c.n \notin log.taken
    /\ arx # <<>> => /\ arx[1].n > left["call"]
                     /\ arx[1].n \notin log.taken
                     /\ \A c \in Cmds : c.n # arx[1].n
    /\ \A s \in Stream : Queued(s) =>
          /\ aq[s][1].n > left["call"]
          /\ aq[s][1].n \notin log.taken
          /\ \A c \in Cmds : c.n # aq[s][1].n
          /\ arx # <<>> => arx[1].n # aq[s][1].n
    /\ Queued(Control) /\ Queued(Socket) => aq[Control][1].n # aq[Socket][1].n

NumbersUp ==
    /\ \A n \in log.taken : n > left["call"]
    /\ \A s \in Stream : Busy(s) => task[s].req.n \in log.taken
    /\ Busy(Control) /\ Busy(Socket) => task[Control].req.n # task[Socket].req.n
    /\ \A n \in Calls(up, "RESPONSE") :
          n \in log.taken /\ \A s \in Stream : Busy(s) => n # task[s].req.n
    /\ \A s \in Stream : cq[s] # <<>> =>
          /\ cq[s][1].n \in log.taken
          /\ \A t \in Stream : Busy(t) => cq[s][1].n # task[t].req.n

\* The call of a stream waits, and has this number.
Mine(s, n) == call[s].at = "wait" /\ call[s].req.n = n

\* Whatever belongs to a stream on which no call was given up belongs to the
\* call that waits.
Own ==
    \A s \in Stream \ log.late :
        /\ \A c \in Cmds : c.sid = s => Mine(s, c.n) /\ c.info = call[s].req.cmd
        /\ arx # <<>> /\ arx[1].sid = s =>
              Mine(s, arx[1].n) /\ arx[1].info = call[s].req.cmd
        /\ Queued(s) => Mine(s, aq[s][1].n) /\ aq[s][1].info = call[s].req.cmd
        /\ Busy(s) => Mine(s, task[s].req.n) /\ task[s].req.cmd = call[s].req.cmd
        /\ \A r \in Resps : r.sid = s => Mine(s, r.n) /\ cq[s] = <<>>
        /\ cq[s] # <<>> => Mine(s, cq[s][1].n)

\* The socket is opened once and closed once.  A CLOSE numbered n is on its way
\* to the agent's task; an OPEN numbered n succeeded and is on its way to the
\* application; the agent's stream is being closed.
CloseSent(n) ==
    \/ \E c \in Cmds : c.info = "CLOSE" /\ c.n = n
    \/ arx # <<>> /\ arx[1].info = "CLOSE" /\ arx[1].n = n
    \/ Queued(Control) /\ aq[Control][1].info = "CLOSE" /\ aq[Control][1].n = n
    \/ Busy(Control) /\ task[Control].req.cmd = "CLOSE" /\ task[Control].req.n = n

OpenReturning == cq[Control] # <<>> /\ cq[Control][1].info = "OPEN"

Opened == OpenReturning \/ \E r \in Resps : r.info = "OPEN"

Closing ==
    \/ aq[Socket] # <<>> /\ aq[Socket][1].type = "CLOSE"
    \/ task[Socket].at = "closing"

\* What the proof of NoDeadQueue is about: see there.
Trusted == ~(log.restarted /\ Control \in log.late)

OneOwner ==
    /\ Socket \in open => ~Opened /\ ~Closing /\ \A n \in Nat : ~CloseSent(n)
    /\ Opened => ~Closing /\ \A n \in Nat : ~CloseSent(n)
    /\ Closing => \A n \in Nat : ~CloseSent(n)
    /\ \A m, n \in Nat : CloseSent(m) /\ CloseSent(n) => m = n
    /\ \A q, r \in Resps : q.info = "OPEN" /\ r.info = "OPEN" => q.n = r.n
    /\ OpenReturning => \A r \in Resps : r.info # "OPEN"

NobodyOwns == Socket \notin open /\ ~Opened /\ ~Closing /\ \A n \in Nat : ~CloseSent(n)

UseBeforeClose ==
    /\ Orderly(down, Last)
    /\ arx # <<>> /\ arx[1].sid = Socket =>
          /\ ~Closing
          /\ Queued(Control) => aq[Control][1].info # "CLOSE"
          /\ Busy(Control) => task[Control].req.cmd # "CLOSE"
          /\ Socket \in streams
    /\ (\E c \in Cmds : c.sid = Socket) =>
          /\ ~Closing
          /\ arx # <<>> => arx[1].info # "CLOSE"
          /\ Queued(Control) => aq[Control][1].info # "CLOSE"
          /\ Busy(Control) => task[Control].req.cmd # "CLOSE"

Token ==
    /\ call[Control].at = "wait" /\ call[Control].req.cmd = "OPEN" => Socket \notin open
    /\ Trusted => /\ OneOwner
                  /\ UseBeforeClose
                  /\ ~log.restarted /\ Socket \notin streams => NobodyOwns

Verdicts == ~log.fresh /\ ~log.mixed /\ ~log.again /\ (log.dead => ~Trusted)

Inv == Types /\ DownOK /\ UpOK /\ NumbersDown /\ NumbersUp /\ Own /\ Token /\ Verdicts

-----------------------------------------------------------------------------
(* Sequence numbers                                                        *)

LEMMA NextSeqIs ==
    ASSUME NEW x \in Seqno
    PROVE  /\ NextSeq(x) = IF x + 1 = SeqMod THEN 0 ELSE x + 1
           /\ NextSeq(x) \in Seqno
           /\ First(x) = NextSeq(x)
BY LinkAssumption DEF NextSeq, First, Seqno, INVALID

LEMMA FirstSeqno ==
    ASSUME NEW x \in Seqno \cup {INVALID}
    PROVE  First(x) \in Seqno
BY NextSeqIs, LinkAssumption DEF First, Seqno, INVALID

LEMMA InvalidSeqno == INVALID \notin Seqno /\ 0 \in Seqno
BY LinkAssumption DEF INVALID, Seqno

LEMMA AddFacts ==
    ASSUME NEW x \in Seqno, NEW k \in Nat, k < SeqMod
    PROVE  /\ Add(x, k) \in Seqno
           /\ Add(x, 0) = x
           /\ k > 0 => Add(x, k) # x
           /\ k + 1 < SeqMod => NextSeq(Add(x, k)) = Add(x, k + 1)
<1>1. x \in Nat /\ x < SeqMod /\ SeqMod \in Nat
  BY LinkAssumption DEF Seqno
<1>2. Add(x, k) \in Seqno /\ Add(x, 0) = x /\ (k > 0 => Add(x, k) # x)
  BY <1>1 DEF Add, Seqno
<1>3. ASSUME k + 1 < SeqMod PROVE NextSeq(Add(x, k)) = Add(x, k + 1)
  BY <1>1, <1>2, <1>3, NextSeqIs DEF Add, Seqno
<1> QED
  BY <1>2, <1>3

-----------------------------------------------------------------------------
(* What the operations on a queue do to it, place by place                 *)

LEMMA TailPlaces ==
    ASSUME NEW q \in Seq(PacketSet), q # <<>>
    PROVE  /\ Tail(q) \in Seq(PacketSet)
           /\ Len(q) \in Nat \ {0}
           /\ Len(Tail(q)) = Len(q) - 1
           /\ \A i \in 1 .. Len(Tail(q)) : Tail(q)[i] = q[i + 1]
           /\ Head(q) = q[1]
           /\ q[1] \in PacketSet
           /\ Tail(q) = <<>> <=> Len(q) = 1
<1> HIDE DEF PacketSet
<1>1. q[1] \in PacketSet /\ Head(q) = q[1] /\ Len(q) \in Nat \ {0}
  OBVIOUS
<1>2. /\ Tail(q) \in Seq(PacketSet)
      /\ Len(Tail(q)) = Len(q) - 1
      /\ \A i \in 1 .. Len(Tail(q)) : Tail(q)[i] = q[i + 1]
  OBVIOUS
<1>3. Tail(q) = <<>> <=> Len(Tail(q)) = 0
  BY <1>2
<1> QED
  BY <1>1, <1>2, <1>3

LEMMA AppendPlaces ==
    ASSUME NEW q \in Seq(PacketSet), NEW p \in PacketSet
    PROVE  /\ Append(q, p) \in Seq(PacketSet)
           /\ Len(q) \in Nat
           /\ Len(Append(q, p)) = Len(q) + 1
           /\ \A i \in 1 .. Len(q) : Append(q, p)[i] = q[i]
           /\ Append(q, p)[Len(q) + 1] = p
           /\ Append(q, p) # <<>>
           /\ q = <<>> <=> Len(q) = 0
<1> HIDE DEF PacketSet
<1> QED
  OBVIOUS

LEMMA RepeatedPlaces ==
    ASSUME NEW q \in Seq(PacketSet), q # <<>>, ~Head(q).copy
    PROVE  /\ Repeated(q) \in Seq(PacketSet)
           /\ Len(q) \in Nat \ {0}
           /\ Len(Repeated(q)) = Len(q) + 1
           /\ Repeated(q)[1] = q[1]
           /\ Repeated(q)[2].copy /\ Same(Repeated(q)[2], q[1])
           /\ \A i \in 2 .. Len(q) : Repeated(q)[i + 1] = q[i]
           /\ Repeated(q) # <<>>
           /\ ~q[1].copy
<1> DEFINE a == [q[1] EXCEPT !.copy = FALSE]
           b == [q[1] EXCEPT !.copy = TRUE]
<1>1. q[1] \in PacketSet /\ Head(q) = q[1]
  BY TailPlaces
<1>2. a = q[1]
  BY <1>1 DEF PacketSet
<1>3. b \in PacketSet /\ b.copy /\ Same(b, q[1])
  BY <1>1 DEF PacketSet, Same
<1>4. Repeated(q) = <<a, b>> \o Tail(q)
  BY DEF Repeated
<1> HIDE DEF a, b, PacketSet
<1>5. ASSUME NEW S, NEW r \in Seq(S), r # <<>>, NEW c \in S, NEW d \in S
      PROVE  LET t == <<c, d>> \o Tail(r)
             IN  /\ t \in Seq(S) /\ Len(r) \in Nat \ {0} /\ Len(t) = Len(r) + 1
                 /\ t[1] = c /\ t[2] = d /\ t # <<>>
                 /\ \A i \in 2 .. Len(r) : t[i + 1] = r[i]
  BY <1>5
<1> QED
  BY <1>1, <1>2, <1>3, <1>4, <1>5

-----------------------------------------------------------------------------
(* A packet leaves the head of a queue, is repeated there, or is appended  *)

LEMMA WireTail ==
    ASSUME NEW q \in Seq(PacketSet), q # <<>>, Wire(q)
    PROVE  Wire(Tail(q))
<1> DEFINE r == Tail(q)
           m == Len(q)
<1>1. /\ m \in Nat \ {0} /\ Len(r) = m - 1
      /\ \A i \in 1 .. m - 1 : r[i] = q[i + 1]
  BY TailPlaces
<1> HIDE DEF r
<1>2. CopiesFollow(r)
  <2> SUFFICES ASSUME NEW i \in 1 .. m - 1, r[i].copy, NEW j \in 1 .. i
               PROVE  Same(r[j], r[i])
    BY <1>1 DEF CopiesFollow
  <2>1. i + 1 \in 1 .. m /\ j + 1 \in 1 .. i + 1 /\ r[i] = q[i + 1] /\ r[j] = q[j + 1]
    BY <1>1
  <2> QED
    BY <2>1 DEF Wire, CopiesFollow
<1>3. CopiesOnly(r)
  <2> SUFFICES ASSUME NEW i \in 1 .. m - 1, NEW j \in 1 .. m - 1, i < j, r[i].type = r[j].type,
                      r[i].type \in Numbered, r[i].n = r[j].n
               PROVE  r[j].copy
    BY <1>1 DEF CopiesOnly
  <2>1. i + 1 \in 1 .. m /\ j + 1 \in 1 .. m /\ i + 1 < j + 1 /\ r[i] = q[i + 1]
        /\ r[j] = q[j + 1]
    BY <1>1
  <2> QED
    BY <2>1 DEF Wire, CopiesOnly
<1>4. Numbering(r)
  <2> SUFFICES ASSUME NEW i \in 1 .. m - 1, NEW j \in 1 .. m - 1, j = i + 1
               PROVE  \/ r[j].copy
                      \/ r[j].type = "AGENT_START_NOTIFICATION"
                      \/ r[j].seq = NextSeq(r[i].seq)
    BY <1>1 DEF Numbering
  <2>1. i + 1 \in 1 .. m /\ j + 1 \in 1 .. m /\ j + 1 = (i + 1) + 1 /\ r[i] = q[i + 1]
        /\ r[j] = q[j + 1]
    BY <1>1
  <2> QED
    BY <2>1 DEF Wire, Numbering
<1> QED
  BY <1>2, <1>3, <1>4 DEF Wire, r

LEMMA WireAppend ==
    ASSUME NEW q \in Seq(PacketSet), NEW p \in PacketSet, Wire(q), ~p.copy,
           \/ q = <<>>
           \/ p.type = "AGENT_START_NOTIFICATION"
           \/ p.seq = NextSeq(q[Len(q)].seq),
           p.type \in Numbered => p.n \notin Calls(q, p.type)
    PROVE  Wire(Append(q, p))
<1> DEFINE r == Append(q, p)
           m == Len(q)
<1>1. /\ m \in Nat /\ Len(r) = m + 1 /\ r[m + 1] = p
      /\ \A i \in 1 .. m : r[i] = q[i]
      /\ q = <<>> => m = 0
  BY AppendPlaces
<1> HIDE DEF r
<1>2. CopiesFollow(r)
  <2> SUFFICES ASSUME NEW i \in 1 .. m + 1, r[i].copy, NEW j \in 1 .. i
               PROVE  Same(r[j], r[i])
    BY <1>1 DEF CopiesFollow
  <2>1. i \in 1 .. m /\ j \in 1 .. i /\ r[i] = q[i] /\ r[j] = q[j]
    BY <1>1
  <2> QED
    BY <2>1 DEF Wire, CopiesFollow
<1>3. CopiesOnly(r)
  <2> SUFFICES ASSUME NEW i \in 1 .. m + 1, NEW j \in 1 .. m + 1, i < j, r[i].type = r[j].type,
                      r[i].type \in Numbered, r[i].n = r[j].n
               PROVE  r[j].copy
    BY <1>1 DEF CopiesOnly
  <2>1. i \in 1 .. m /\ r[i] = q[i]
    BY <1>1
  <2>2. CASE j = m + 1
    <3>1. r[j] = p
      BY <1>1, <2>2
    <3>2. q[i].n \in Calls(q, p.type)
      BY <2>1, <3>1 DEF Calls
    <3> QED
      BY <2>1, <3>1, <3>2
  <2>3. CASE j \in 1 .. m
    BY <1>1, <2>1, <2>3 DEF Wire, CopiesOnly
  <2> QED
    BY <1>1, <2>2, <2>3
<1>4. Numbering(r)
  <2> SUFFICES ASSUME NEW i \in 1 .. m + 1, NEW j \in 1 .. m + 1, j = i + 1
               PROVE  \/ r[j].copy
                      \/ r[j].type = "AGENT_START_NOTIFICATION"
                      \/ r[j].seq = NextSeq(r[i].seq)
    BY <1>1 DEF Numbering
  <2>1. i \in 1 .. m /\ r[i] = q[i]
    BY <1>1
  <2>2. CASE j = m + 1
    BY <1>1, <2>1, <2>2
  <2>3. CASE j \in 1 .. m
    BY <1>1, <2>1, <2>3 DEF Wire, Numbering
  <2> QED
    BY <1>1, <2>2, <2>3
<1> QED
  BY <1>2, <1>3, <1>4 DEF Wire, r

LEMMA WireRepeated ==
    ASSUME NEW q \in Seq(PacketSet), q # <<>>, ~Head(q).copy, Wire(q)
    PROVE  Wire(Repeated(q))
<1> DEFINE r == Repeated(q)
           m == Len(q)
<1>1. /\ m \in Nat \ {0} /\ Len(r) = m + 1
      /\ r[1] = q[1] /\ r[2].copy /\ Same(r[2], q[1]) /\ ~q[1].copy
      /\ \A i \in 2 .. m : r[i + 1] = q[i]
  BY RepeatedPlaces
<1> HIDE DEF r
\* Every place but the second one is a place of q.
<1>2. \A i \in 1 .. m + 1 : i = 1 \/ i = 2 \/ (i - 1 \in 2 .. m /\ r[i] = q[i - 1])
  <2> TAKE i \in 1 .. m + 1
  <2>1. i = 1 \/ i = 2 \/ i - 1 \in 2 .. m
    BY <1>1
  <2>2. i - 1 \in 2 .. m => r[(i - 1) + 1] = q[i - 1] /\ (i - 1) + 1 = i
    BY <1>1
  <2> QED
    BY <2>1, <2>2
<1>3. CopiesFollow(r)
  <2> SUFFICES ASSUME NEW i \in 1 .. m + 1, r[i].copy, NEW j \in 1 .. i
               PROVE  Same(r[j], r[i])
    BY <1>1 DEF CopiesFollow
  <2>1. CASE i = 1
    BY <1>1, <2>1
  <2>2. CASE i = 2
    BY <1>1, <2>2 DEF Same
  <2>3. CASE i - 1 \in 2 .. m /\ r[i] = q[i - 1]
    <3>1. \A k \in 1 .. i - 1 : Same(q[k], q[i - 1])
      BY <2>3 DEF Wire, CopiesFollow
    <3>2. CASE j = 1 \/ j = 2
      <4>1. Same(q[1], q[i - 1])
        BY <3>1, <2>3, <1>1
      <4> QED
        BY <1>1, <2>3, <3>2, <4>1 DEF Same
    <3>3. CASE j - 1 \in 2 .. m /\ r[j] = q[j - 1]
      BY <1>1, <2>3, <3>1, <3>3
    <3> QED
      BY <1>1, <1>2, <3>2, <3>3
  <2> QED
    BY <1>2, <2>1, <2>2, <2>3
<1>4. CopiesOnly(r)
  <2> SUFFICES ASSUME NEW i \in 1 .. m + 1, NEW j \in 1 .. m + 1, i < j, r[i].type = r[j].type,
                      r[i].type \in Numbered, r[i].n = r[j].n
               PROVE  r[j].copy
    BY <1>1 DEF CopiesOnly
  <2>1. CASE j = 2
    BY <1>1, <2>1
  <2>2. CASE j - 1 \in 2 .. m /\ r[j] = q[j - 1]
    <3>1. CASE i = 1 \/ i = 2
      <4>1. r[i].type = q[1].type /\ r[i].n = q[1].n /\ 1 \in 1 .. m /\ 1 < j - 1
        BY <1>1, <2>2, <3>1 DEF Same
      <4> QED
        BY <2>2, <4>1 DEF Wire, CopiesOnly
    <3>2. CASE i - 1 \in 2 .. m /\ r[i] = q[i - 1]
      <4>1. i - 1 < j - 1 /\ i - 1 \in 1 .. m /\ j - 1 \in 1 .. m
        BY <1>1, <2>2, <3>2
      <4> QED
        BY <2>2, <3>2, <4>1 DEF Wire, CopiesOnly
    <3> QED
      BY <1>2, <3>1, <3>2
  <2> QED
    BY <1>1, <1>2, <2>1, <2>2
<1>5. Numbering(r)
  <2> SUFFICES ASSUME NEW i \in 1 .. m + 1, NEW j \in 1 .. m + 1, j = i + 1
               PROVE  \/ r[j].copy
                      \/ r[j].type = "AGENT_START_NOTIFICATION"
                      \/ r[j].seq = NextSeq(r[i].seq)
    BY <1>1 DEF Numbering
  <2>1. CASE j = 2
    BY <1>1, <2>1
  <2>2. CASE j - 1 \in 2 .. m /\ r[j] = q[j - 1]
    <3>1. CASE i = 2
      <4>1. j - 1 = 1 + 1 /\ 1 \in 1 .. m /\ j - 1 \in 1 .. m /\ r[i].seq = q[1].seq
        BY <1>1, <2>2, <3>1 DEF Same
      <4> QED
        BY <2>2, <4>1 DEF Wire, Numbering
    <3>2. CASE i - 1 \in 2 .. m /\ r[i] = q[i - 1]
      <4>1. j - 1 = (i - 1) + 1 /\ i - 1 \in 1 .. m /\ j - 1 \in 1 .. m
        BY <1>1, <2>2, <3>2
      <4> QED
        BY <2>2, <3>2, <4>1 DEF Wire, Numbering
    <3> QED
      BY <1>1, <1>2, <2>2, <3>1, <3>2
  <2> QED
    BY <1>1, <1>2, <2>1, <2>2
<1> QED
  BY <1>3, <1>4, <1>5 DEF Wire, r

-----------------------------------------------------------------------------
(* The receiver's last number, and the sender's                            *)

\* The head is received, or dropped as the repetition of what was received.
LEMMA PositionSeen ==
    ASSUME NEW q \in Seq(PacketSet), q # <<>>, Wire(q)
    PROVE  /\ HeadFollows(Tail(q), q[1].seq, 0)
           /\ \A sent, last, gap :
                 EndSent(q, last, gap, sent) => EndSent(Tail(q), q[1].seq, 0, sent)
<1> DEFINE r == Tail(q)
           m == Len(q)
<1>1. /\ m \in Nat \ {0} /\ Len(r) = m - 1 /\ r \in Seq(PacketSet)
      /\ \A i \in 1 .. Len(r) : r[i] = q[i + 1]
      /\ r = <<>> <=> m = 1
      /\ q[1] \in PacketSet
  BY TailPlaces
<1> HIDE DEF r
<1>2. /\ q[1].seq \in Seqno
      /\ Add(q[1].seq, 0) = q[1].seq
      /\ NextSeq(q[1].seq) = Add(q[1].seq, 0 + 1)
  <2>1. q[1].seq \in Seqno
    BY <1>1 DEF PacketSet
  <2>2. 0 \in Nat /\ 0 < SeqMod /\ 0 + 1 < SeqMod
    BY LinkAssumption
  <2> QED
    BY <2>1, <2>2, AddFacts
<1>3. HeadFollows(r, q[1].seq, 0)
  <2> SUFFICES ASSUME r # <<>>
               PROVE  \/ r[1].copy /\ r[1].seq = Add(q[1].seq, 0)
                      \/ ~r[1].copy /\ r[1].type = "AGENT_START_NOTIFICATION"
                      \/ ~r[1].copy /\ r[1].seq = Add(q[1].seq, 0 + 1)
    BY DEF HeadFollows
  <2>1. r[1] = q[2] /\ 1 \in 1 .. m /\ 2 \in 1 .. m /\ 2 = 1 + 1 /\ 1 \in 1 .. 2
    BY <1>1
  <2>2. q[2].copy => q[1].seq = q[2].seq
    BY <2>1 DEF Wire, CopiesFollow, Same
  <2>3. q[2].copy \/ q[2].type = "AGENT_START_NOTIFICATION" \/ q[2].seq = NextSeq(q[1].seq)
    BY <2>1 DEF Wire, Numbering
  <2> QED
    BY <1>2, <2>1, <2>2, <2>3
<1>4. ASSUME NEW sent, NEW last, NEW gap, EndSent(q, last, gap, sent)
      PROVE  EndSent(r, q[1].seq, 0, sent)
  <2>1. sent = q[m].seq
    BY <1>4 DEF EndSent
  <2>2. r # <<>> => r[Len(r)] = q[m]
    BY <1>1
  <2>3. r = <<>> => sent = Add(q[1].seq, 0)
    BY <1>1, <1>2, <2>1
  <2> QED
    BY <2>1, <2>2, <2>3 DEF EndSent
<1> QED
  BY <1>3, <1>4 DEF r

\* The head is lost.
LEMMA PositionLost ==
    ASSUME NEW q \in Seq(PacketSet), q # <<>>, Wire(q), NEW last \in Seqno \cup {INVALID},
           NEW gap \in Nat, HeadFollows(q, last, gap), NEW new \in Nat,
           \/ new = SeqMod
           \/ q[1].copy /\ new = gap
           \/ q[1].type # "AGENT_START_NOTIFICATION" /\ ~q[1].copy /\ new = gap + 1
    PROVE  /\ HeadFollows(Tail(q), last, new)
           /\ \A sent : EndSent(q, last, gap, sent) => EndSent(Tail(q), last, new, sent)
<1> DEFINE r == Tail(q)
           m == Len(q)
<1>1. /\ m \in Nat \ {0} /\ Len(r) = m - 1 /\ r \in Seq(PacketSet)
      /\ \A i \in 1 .. Len(r) : r[i] = q[i + 1]
      /\ r = <<>> <=> m = 1
      /\ q[1] \in PacketSet
  BY TailPlaces
<1> HIDE DEF r
<1>2. last # INVALID /\ new + 1 < SeqMod =>
         /\ q[1].seq = Add(last, new)
         /\ NextSeq(q[1].seq) = Add(last, new + 1)
  <2> SUFFICES ASSUME last # INVALID, new + 1 < SeqMod
               PROVE  q[1].seq = Add(last, new) /\ NextSeq(q[1].seq) = Add(last, new + 1)
    OBVIOUS
  <2>0. SeqMod \in Nat
    BY LinkAssumption
  <2>1. new # SeqMod /\ gap + 1 < SeqMod /\ new < SeqMod
    BY <2>0
  <2>2. q[1].seq = Add(last, new)
    BY <2>1 DEF HeadFollows
  <2>3. NextSeq(Add(last, new)) = Add(last, new + 1)
    BY <2>1, AddFacts
  <2> QED
    BY <2>2, <2>3
<1>3. HeadFollows(r, last, new)
  <2> SUFFICES ASSUME r # <<>>, last # INVALID, new + 1 < SeqMod
               PROVE  \/ r[1].copy /\ r[1].seq = Add(last, new)
                      \/ ~r[1].copy /\ r[1].type = "AGENT_START_NOTIFICATION"
                      \/ ~r[1].copy /\ r[1].seq = Add(last, new + 1)
    BY DEF HeadFollows
  <2>1. r[1] = q[2] /\ 1 \in 1 .. m /\ 2 \in 1 .. m /\ 2 = 1 + 1 /\ 1 \in 1 .. 2
    BY <1>1
  <2>2. q[2].copy => q[1].seq = q[2].seq
    BY <2>1 DEF Wire, CopiesFollow, Same
  <2>3. q[2].copy \/ q[2].type = "AGENT_START_NOTIFICATION" \/ q[2].seq = NextSeq(q[1].seq)
    BY <2>1 DEF Wire, Numbering
  <2> QED
    BY <1>2, <2>1, <2>2, <2>3
<1>4. ASSUME NEW sent, EndSent(q, last, gap, sent)
      PROVE  EndSent(r, last, new, sent)
  <2>1. sent = q[m].seq
    BY <1>4 DEF EndSent
  <2>2. r # <<>> => r[Len(r)] = q[m]
    BY <1>1
  <2>3. r = <<>> /\ last # INVALID /\ new + 1 < SeqMod => sent = Add(last, new)
    BY <1>1, <1>2, <2>1
  <2> QED
    BY <2>1, <2>2, <2>3 DEF EndSent
<1> QED
  BY <1>3, <1>4 DEF r

\* The head is repeated.
LEMMA PositionRepeated ==
    ASSUME NEW q \in Seq(PacketSet), q # <<>>, ~Head(q).copy,
           NEW last, NEW gap, HeadFollows(q, last, gap)
    PROVE  /\ HeadFollows(Repeated(q), last, gap)
           /\ \A sent : EndSent(q, last, gap, sent) => EndSent(Repeated(q), last, gap, sent)
<1> DEFINE r == Repeated(q)
           m == Len(q)
<1>1. /\ m \in Nat \ {0} /\ Len(r) = m + 1
      /\ r[1] = q[1] /\ r[2].copy /\ Same(r[2], q[1]) /\ ~q[1].copy
      /\ \A i \in 2 .. m : r[i + 1] = q[i]
      /\ r # <<>>
  BY RepeatedPlaces
<1> HIDE DEF r
<1>2. HeadFollows(r, last, gap)
  BY <1>1 DEF HeadFollows
<1>3. r[Len(r)].seq = q[m].seq
  <2>1. CASE m = 1
    BY <1>1, <2>1 DEF Same
  <2>2. CASE m # 1
    <3>0. \A k \in Nat \ {0} : k # 1 => k \in 2 .. k
      OBVIOUS
    <3>1. m \in 2 .. m
      BY <1>1, <2>2, <3>0
    <3>2. r[m + 1] = q[m] /\ Len(r) = m + 1
      BY <1>1, <3>1
    <3> QED
      BY <3>2
  <2> QED
    BY <2>1, <2>2
<1> QED
  BY <1>1, <1>2, <1>3 DEF EndSent, r

\* A packet is appended: the next one of the sender, or a first one.
LEMMA PositionAppend ==
    ASSUME NEW q \in Seq(PacketSet), NEW p \in PacketSet, ~p.copy,
           NEW last \in Seqno \cup {INVALID}, NEW gap \in Nat, HeadFollows(q, last, gap),
           NEW sent,
           \/ p.type = "AGENT_START_NOTIFICATION"
           \/ EndSent(q, last, gap, sent) /\ p.seq = First(sent)
    PROVE  /\ HeadFollows(Append(q, p), last, gap)
           /\ EndSent(Append(q, p), last, gap, p.seq)
<1> DEFINE r == Append(q, p)
           m == Len(q)
<1>1. /\ m \in Nat /\ Len(r) = m + 1 /\ r[m + 1] = p
      /\ \A i \in 1 .. m : r[i] = q[i]
      /\ q = <<>> <=> m = 0
      /\ r # <<>>
  BY AppendPlaces
<1> HIDE DEF r
<1>2. EndSent(r, last, gap, p.seq)
  BY <1>1 DEF EndSent
<1>3. CASE q # <<>>
  <2>1. r[1] = q[1]
    BY <1>1, <1>3
  <2>2. HeadFollows(r, last, gap)
    BY <1>1, <1>3, <2>1 DEF HeadFollows
  <2> QED
    BY <1>2, <2>2 DEF r
<1>4. CASE q = <<>>
  <2>1. r[1] = p
    BY <1>1, <1>4
  <2>2. ASSUME last # INVALID, gap + 1 < SeqMod, p.type # "AGENT_START_NOTIFICATION"
        PROVE  p.seq = Add(last, gap + 1)
    <3>1. sent = Add(last, gap) /\ p.seq = First(sent)
      BY <1>4, <2>2 DEF EndSent
    <3>2. gap < SeqMod /\ last \in Seqno
      BY <2>2, LinkAssumption
    <3>3. Add(last, gap) \in Seqno /\ NextSeq(Add(last, gap)) = Add(last, gap + 1)
      BY <2>2, <3>2, AddFacts
    <3> QED
      BY <3>1, <3>3, NextSeqIs
  <2>3. HeadFollows(r, last, gap)
    BY <2>1, <2>2 DEF HeadFollows
  <2> QED
    BY <1>2, <2>3 DEF r
<1> QED
  BY <1>3, <1>4

\* The sender's next packet continues the numbering.
LEMMA NumberingContinues ==
    ASSUME NEW q \in Seq(PacketSet), NEW last, NEW gap, NEW sent, EndSent(q, last, gap, sent)
    PROVE  q = <<>> \/ First(sent) = NextSeq(q[Len(q)].seq)
<1>1. CASE q # <<>>
  <2>1. sent = q[Len(q)].seq /\ q[Len(q)] \in PacketSet
    <3> HIDE DEF PacketSet
    <3>1. Len(q) \in 1 .. Len(q)
      BY <1>1
    <3> QED
      BY <1>1, <3>1 DEF EndSent
  <2>2. sent \in Seqno
    BY <2>1 DEF PacketSet
  <2> QED
    BY <2>1, <2>2, NextSeqIs
<1> QED
  BY <1>1

\* What is dropped as a repetition is one, unless the numbers came round.
LEMMA DroppedIsCopy ==
    ASSUME NEW q \in Seq(PacketSet), q # <<>>, NEW last \in Seqno \cup {INVALID},
           NEW gap \in Nat,
           HeadFollows(q, last, gap), q[1].seq = last,
           q[1].type # "AGENT_START_NOTIFICATION"
    PROVE  ~(~q[1].copy /\ gap < SeqMod - 1)
<1> SUFFICES ASSUME ~q[1].copy, gap < SeqMod - 1
             PROVE  FALSE
  OBVIOUS
<1>1. q[1].seq \in Seqno
  BY TailPlaces DEF PacketSet
<1>2. last # INVALID /\ last \in Seqno
  BY <1>1, InvalidSeqno
<1>3. gap + 1 < SeqMod /\ gap + 1 \in Nat /\ gap + 1 > 0
  BY LinkAssumption
<1>4. q[1].seq = Add(last, gap + 1)
  BY <1>2, <1>3 DEF HeadFollows
<1> QED
  BY <1>2, <1>3, <1>4, AddFacts

-----------------------------------------------------------------------------
(* The live items of a queue                                               *)

LEMMA LiveElim ==
    ASSUME NEW q, NEW last, NEW type, NEW c \in Live(q, last, type)
    PROVE  \E i \in LiveAt(q, last, type) : c = Item(q[i])
BY DEF Live

LEMMA ItemFields ==
    ASSUME NEW p
    PROVE  Item(p).sid = p.sid /\ Item(p).info = p.info /\ Item(p).n = p.n
BY DEF Item

\* The head is lost or dropped: nothing becomes live.
LEMMA LiveTail ==
    ASSUME NEW q \in Seq(PacketSet), q # <<>>, NEW last, NEW type
    PROVE  /\ Live(Tail(q), last, type) \subseteq Live(q, last, type)
           /\ Calls(Tail(q), type) \subseteq Calls(q, type)
           /\ Orderly(q, last) => Orderly(Tail(q), last)
<1> DEFINE r == Tail(q)
           m == Len(q)
<1>1. /\ m \in Nat \ {0} /\ Len(r) = m - 1
      /\ \A i \in 1 .. m - 1 : i + 1 \in 1 .. m /\ r[i] = q[i + 1]
  BY TailPlaces
<1> HIDE DEF r
<1>2. \A t : \A i \in LiveAt(r, last, t) : i + 1 \in LiveAt(q, last, t) /\ r[i] = q[i + 1]
      /\ i \in Int
  BY <1>1 DEF LiveAt
<1>3. Live(r, last, type) \subseteq Live(q, last, type)
  BY <1>2 DEF Live
<1>4. Calls(r, type) \subseteq Calls(q, type)
  BY <1>1 DEF Calls
<1>5. Orderly(q, last) => Orderly(r, last)
  BY <1>2 DEF Orderly
<1> QED
  BY <1>3, <1>4, <1>5 DEF r

\* The head is taken: it was live, and its repetitions no longer are.
LEMMA LiveSeen ==
    ASSUME NEW q \in Seq(PacketSet), q # <<>>, Wire(q), NEW last, NEW type
    PROVE  /\ Live(Tail(q), q[1].seq, type) \subseteq Live(q, last, type)
           /\ q[1].type = type /\ type \in Numbered =>
                 \A c \in Live(Tail(q), q[1].seq, type) : c.n # q[1].n
           /\ q[1].type = type /\ q[1].seq # last => Item(q[1]) \in Live(q, last, type)
           /\ Orderly(q, last) => Orderly(Tail(q), q[1].seq)
           /\ Orderly(q, last) /\ q[1].seq # last /\ q[1].type = "COMMAND"
                 /\ q[1].info = "CLOSE" =>
                 \A c \in Live(Tail(q), q[1].seq, "COMMAND") : c.sid # Socket
<1> DEFINE r == Tail(q)
           m == Len(q)
<1>1. /\ m \in Nat \ {0} /\ Len(r) = m - 1
      /\ \A i \in 1 .. m - 1 : i + 1 \in 1 .. m /\ r[i] = q[i + 1]
      /\ 1 \in 1 .. m
  BY TailPlaces
<1> HIDE DEF r
\* What is live behind the head is no repetition.
<1>2. \A t : \A i \in LiveAt(r, q[1].seq, t) :
         /\ i \in Int /\ i > 0 /\ i + 1 \in 1 .. m
         /\ r[i] = q[i + 1] /\ ~q[i + 1].copy
         /\ i + 1 \in LiveAt(q, last, t)
  <2> SUFFICES ASSUME NEW t, NEW i \in LiveAt(r, q[1].seq, t)
               PROVE  /\ i \in Int /\ i > 0 /\ i + 1 \in 1 .. m
                      /\ r[i] = q[i + 1] /\ ~q[i + 1].copy
                      /\ i + 1 \in LiveAt(q, last, t)
    OBVIOUS
  <2>1. /\ i \in Int /\ i > 0 /\ i + 1 \in 1 .. m /\ r[i] = q[i + 1] /\ r[i].type = t
        /\ ~(r[i].copy /\ r[i].seq = q[1].seq)
    BY <1>1 DEF LiveAt
  <2>2. 1 \in 1 .. i + 1
    BY <2>1
  <2>3. q[i + 1].copy => q[1].seq = q[i + 1].seq
    BY <2>1, <2>2 DEF Wire, CopiesFollow, Same
  <2> QED
    BY <2>1, <2>3 DEF LiveAt
<1>3. Live(r, q[1].seq, type) \subseteq Live(q, last, type)
  BY <1>2 DEF Live
<1>4. ASSUME q[1].type = type, type \in Numbered, NEW c \in Live(r, q[1].seq, type)
      PROVE  c.n # q[1].n
  <2>1. PICK i \in LiveAt(r, q[1].seq, type) : c = Item(r[i])
    BY LiveElim
  <2>2. /\ i + 1 \in 1 .. m /\ 1 < i + 1 /\ r[i] = q[i + 1] /\ ~q[i + 1].copy
        /\ q[i + 1].type = type
    BY <1>2 DEF LiveAt
  <2>3. q[1].n # q[i + 1].n
    BY <1>1, <1>4, <2>2 DEF Wire, CopiesOnly
  <2> QED
    BY <2>1, <2>2, <2>3, ItemFields
<1>5. q[1].seq # last => 1 \in LiveAt(q, last, q[1].type)
  BY <1>1 DEF LiveAt
<1>6. q[1].type = type /\ q[1].seq # last => Item(q[1]) \in Live(q, last, type)
  BY <1>5 DEF Live
<1>7. Orderly(q, last) => Orderly(r, q[1].seq)
  BY <1>2 DEF Orderly
<1>8. ASSUME Orderly(q, last), q[1].seq # last, q[1].type = "COMMAND", q[1].info = "CLOSE",
             NEW c \in Live(r, q[1].seq, "COMMAND")
      PROVE  c.sid # Socket
  <2>1. PICK i \in LiveAt(r, q[1].seq, "COMMAND") : c = Item(r[i])
    BY LiveElim
  <2>2. r[i] = q[i + 1] /\ i + 1 \in LiveAt(q, last, "COMMAND") /\ 1 < i + 1
    BY <1>2
  <2>3. q[i + 1].sid # Socket
    BY <1>5, <1>8, <2>2 DEF Orderly
  <2> QED
    BY <2>1, <2>2, <2>3, ItemFields
<1> QED
  BY <1>3, <1>4, <1>6, <1>7, <1>8 DEF r

\* A packet is appended.
LEMMA LiveAppend ==
    ASSUME NEW q \in Seq(PacketSet), NEW p \in PacketSet, NEW last, NEW type
    PROVE  /\ \A c \in Live(Append(q, p), last, type) :
                 c \in Live(q, last, type) \/ (p.type = type /\ c = Item(p))
           /\ \A n \in Calls(Append(q, p), type) :
                 n \in Calls(q, type) \/ (p.type = type /\ n = p.n)
           /\ \A i \in LiveAt(Append(q, p), last, type) :
                 /\ i \in 1 .. Len(q) + 1 /\ Append(q, p)[i].type = type
                 /\ \/ i \in LiveAt(q, last, type) /\ Append(q, p)[i] = q[i]
                    \/ i = Len(q) + 1 /\ Append(q, p)[i] = p
<1> DEFINE r == Append(q, p)
           m == Len(q)
<1>1. /\ m \in Nat /\ Len(r) = m + 1 /\ r[m + 1] = p
      /\ \A i \in 1 .. m : r[i] = q[i]
      /\ \A i \in 1 .. m + 1 : i \in 1 .. m \/ i = m + 1
  BY AppendPlaces
<1> HIDE DEF r
<1>2. \A i \in LiveAt(r, last, type) :
         /\ i \in 1 .. m + 1 /\ r[i].type = type
         /\ (i \in LiveAt(q, last, type) /\ r[i] = q[i]) \/ (i = m + 1 /\ r[i] = p)
  BY <1>1 DEF LiveAt
<1>3. \A c \in Live(r, last, type) : c \in Live(q, last, type) \/ (p.type = type /\ c = Item(p))
  BY <1>2 DEF Live
<1>4. \A n \in Calls(r, type) : n \in Calls(q, type) \/ (p.type = type /\ n = p.n)
  BY <1>1 DEF Calls
<1> QED
  BY <1>2, <1>3, <1>4 DEF r

LEMMA OrderlyAppend ==
    ASSUME NEW q \in Seq(PacketSet), NEW p \in PacketSet, NEW last,
           \/ p.type # "COMMAND"
           \/ p.sid # Socket
           \/ \A c \in Live(q, last, "COMMAND") : c.info # "CLOSE",
           Orderly(q, last)
    PROVE  Orderly(Append(q, p), last)
<1> DEFINE r == Append(q, p)
           m == Len(q)
<1>1. \A i \in LiveAt(r, last, "COMMAND") :
         /\ i \in 1 .. m + 1 /\ r[i].type = "COMMAND"
         /\ (i \in LiveAt(q, last, "COMMAND") /\ r[i] = q[i]) \/ (i = m + 1 /\ r[i] = p)
  BY LiveAppend
<1>2. m \in Nat
  BY AppendPlaces
<1> HIDE DEF r
<1> SUFFICES ASSUME NEW i \in LiveAt(r, last, "COMMAND"), NEW j \in LiveAt(r, last, "COMMAND"),
                    i < j, r[i].info = "CLOSE", r[j].sid = Socket
             PROVE  FALSE
  BY DEF Orderly, r
<1>3. i \in LiveAt(q, last, "COMMAND") /\ r[i] = q[i]
  BY <1>1, <1>2
<1>4. Item(q[i]) \in Live(q, last, "COMMAND") /\ Item(q[i]).info = q[i].info
  BY <1>3, ItemFields DEF Live
<1>5. j \in LiveAt(q, last, "COMMAND") /\ r[j] = q[j]
  BY <1>1, <1>3, <1>4
<1> QED
  BY <1>3, <1>5 DEF Orderly

\* The head is repeated.
LEMMA LiveRepeated ==
    ASSUME NEW q \in Seq(PacketSet), q # <<>>, ~Head(q).copy, NEW last, NEW type
    PROVE  /\ Live(Repeated(q), last, type) \subseteq Live(q, last, type)
           /\ Calls(Repeated(q), type) \subseteq Calls(q, type)
           /\ (\A i \in 1 .. Len(q) : PacketFits(q[i])) /\ Orderly(q, last) =>
                 Orderly(Repeated(q), last)
<1> DEFINE r == Repeated(q)
           m == Len(q)
           At(i) == IF i <= 2 THEN 1 ELSE i - 1
<1>1. /\ m \in Nat \ {0} /\ Len(r) = m + 1
      /\ r[1] = q[1] /\ r[2].copy /\ Same(r[2], q[1]) /\ ~q[1].copy
      /\ \A i \in 2 .. m : r[i + 1] = q[i]
  BY RepeatedPlaces
<1> HIDE DEF r
<1>2. \A i \in 1 .. m + 1 : At(i) \in 1 .. m /\ Same(r[i], q[At(i)])
      /\ (r[i].copy \/ r[i] = q[At(i)])
  <2> TAKE i \in 1 .. m + 1
  <2>1. CASE i = 1
    BY <1>1, <2>1 DEF Same
  <2>2. CASE i = 2
    BY <1>1, <2>2 DEF Same
  <2>3. CASE i > 2
    <3>1. i - 1 \in 2 .. m /\ At(i) = i - 1 /\ (i - 1) + 1 = i
      BY <1>1, <2>3
    <3>2. r[i] = q[i - 1]
      BY <1>1, <3>1
    <3> QED
      BY <1>1, <3>1, <3>2 DEF Same
  <2> QED
    BY <1>1, <2>1, <2>2, <2>3
<1>3. \A i, j \in 1 .. m + 1 : i < j => At(i) < At(j) \/ At(j) = 1
  BY <1>1
<1>4. ASSUME NEW t, NEW i \in LiveAt(r, last, t)
      PROVE  i \in 1 .. m + 1 /\ At(i) \in LiveAt(q, last, t) /\ Same(r[i], q[At(i)])
  <2>1. i \in 1 .. m + 1 /\ r[i].type = t /\ ~(r[i].copy /\ r[i].seq = last)
    BY <1>1, <1>4 DEF LiveAt
  <2>2. CASE i <= 2
    <3>1. At(i) = 1 /\ 1 \in 1 .. m /\ q[1].type = t
      BY <1>1, <1>2, <2>1, <2>2 DEF Same
    <3> QED
      BY <1>1, <1>2, <2>1, <3>1 DEF LiveAt
  <2>3. CASE i > 2
    <3>1. i - 1 \in 2 .. m /\ At(i) = i - 1 /\ (i - 1) + 1 = i
      BY <1>1, <2>1, <2>3
    <3>2. r[i] = q[At(i)]
      BY <1>1, <3>1
    <3> QED
      BY <1>2, <2>1, <3>2 DEF LiveAt
  <2> QED
    BY <2>1, <2>2, <2>3
<1> HIDE DEF At
<1>5. \A a, b : Same(a, b) => Item(a) = Item(b)
  BY DEF Same, Item
<1>6. Live(r, last, type) \subseteq Live(q, last, type)
  <2> SUFFICES ASSUME NEW c \in Live(r, last, type)
               PROVE  c \in Live(q, last, type)
    OBVIOUS
  <2>1. PICK i \in LiveAt(r, last, type) : c = Item(r[i])
    BY LiveElim
  <2>2. At(i) \in LiveAt(q, last, type) /\ c = Item(q[At(i)])
    BY <1>4, <1>5, <2>1
  <2> QED
    BY <2>2 DEF Live
<1>7. Calls(r, type) \subseteq Calls(q, type)
  <2> SUFFICES ASSUME NEW i \in 1 .. m + 1, r[i].type = type
               PROVE  r[i].n \in Calls(q, type)
    BY <1>1 DEF Calls
  <2>1. At(i) \in 1 .. m /\ q[At(i)].type = type /\ q[At(i)].n = r[i].n
    BY <1>2 DEF Same
  <2> QED
    BY <2>1 DEF Calls
<1>8. ASSUME \A i \in 1 .. m : PacketFits(q[i]), Orderly(q, last)
      PROVE  Orderly(r, last)
  <2> SUFFICES ASSUME NEW i \in LiveAt(r, last, "COMMAND"),
                      NEW j \in LiveAt(r, last, "COMMAND"),
                      i < j, r[i].info = "CLOSE", r[j].sid = Socket
               PROVE  FALSE
    BY DEF Orderly
  <2>1. /\ At(i) \in LiveAt(q, last, "COMMAND") /\ Same(r[i], q[At(i)]) /\ i \in 1 .. m + 1
        /\ At(j) \in LiveAt(q, last, "COMMAND") /\ Same(r[j], q[At(j)]) /\ j \in 1 .. m + 1
    BY <1>4
  <2>2. CASE At(i) < At(j)
    BY <1>8, <2>1, <2>2 DEF Orderly, Same
  <2>3. CASE At(i) = At(j)
    <3>1. q[At(j)].type = "COMMAND" /\ q[At(j)].info = "CLOSE" /\ q[At(j)].sid = Socket
          /\ At(j) \in 1 .. m
      BY <2>1, <2>3 DEF Same, LiveAt
    <3> QED
      BY <1>8, <3>1 DEF PacketFits, CommandOK
  <2>4. At(i) < At(j) \/ At(i) = At(j)
    <3>1. At(j) = 1 => At(i) = 1
      BY <1>1, <2>1 DEF At
    <3> QED
      BY <1>3, <2>1, <3>1
  <2> QED
    BY <2>2, <2>3, <2>4
<1> QED
  BY <1>6, <1>7, <1>8 DEF r

-----------------------------------------------------------------------------
(* What is sent                                                            *)

\* A packet before it has its sequence number.
UnsentSet == [type : PacketType, sid : Stream, info : Info, n : Nat,
              seq : {INVALID}, copy : {FALSE}]

LEMMA PacketFields ==
    ASSUME NEW type \in PacketType, NEW sid \in Stream, NEW info \in Info, NEW n \in Nat
    PROVE  /\ Packet(type, sid, info, n) \in UnsentSet
           /\ Packet(type, sid, info, n).type = type
           /\ Packet(type, sid, info, n).sid = sid
           /\ Packet(type, sid, info, n).info = info
           /\ Packet(type, sid, info, n).n = n
BY DEF Packet, UnsentSet

\* It takes its sequence number.
Stamp(p, x) == [p EXCEPT !.seq = x]

LEMMA StampedFields ==
    ASSUME NEW p \in UnsentSet, NEW x \in Seqno
    PROVE  LET r == Stamp(p, x)
           IN  /\ r \in PacketSet /\ r.type = p.type /\ r.sid = p.sid /\ r.info = p.info
               /\ r.n = p.n /\ r.seq = x /\ ~r.copy
BY DEF Stamp, UnsentSet, PacketSet

LEMMA QueueAppend ==
    ASSUME NEW q \in Seq(PacketSet), NEW last \in Seqno \cup {INVALID}, NEW gap \in Nat,
           NEW sent \in Seqno \cup {INVALID}, NEW p \in UnsentSet,
           Wire(q), HeadFollows(q, last, gap), EndSent(q, last, gap, sent),
           p.type \in Numbered => p.n \notin Calls(q, p.type)
    PROVE  /\ Append(q, Stamp(p, First(sent))) \in Seq(PacketSet)
           /\ Wire(Append(q, Stamp(p, First(sent))))
           /\ HeadFollows(Append(q, Stamp(p, First(sent))), last, gap)
           /\ EndSent(Append(q, Stamp(p, First(sent))), last, gap, First(sent))
<1> DEFINE r == Stamp(p, First(sent))
<1>1. First(sent) \in Seqno
  BY FirstSeqno
<1>2. /\ r \in PacketSet /\ r.type = p.type /\ r.sid = p.sid /\ r.info = p.info
      /\ r.n = p.n /\ r.seq = First(sent) /\ ~r.copy
  BY <1>1, StampedFields
<1> HIDE DEF r
<1>4. Append(q, r) \in Seq(PacketSet)
  BY <1>2, AppendPlaces
<1>6. q = <<>> \/ r.seq = NextSeq(q[Len(q)].seq)
  BY <1>2, NumberingContinues
<1>7. Wire(Append(q, r))
  BY <1>2, <1>6, WireAppend
<1>8. HeadFollows(Append(q, r), last, gap) /\ EndSent(Append(q, r), last, gap, r.seq)
  BY <1>2, PositionAppend
<1> QED
  BY <1>2, <1>4, <1>7, <1>8 DEF r

LEMMA QueueAppendTypes ==
    ASSUME NEW q \in Seq(PacketSet), NEW x \in Seqno, NEW p \in UnsentSet,
           PacketFits(p), \A i \in 1 .. Len(q) : PacketFits(q[i])
    PROVE  /\ \A i \in 1 .. Len(Append(q, Stamp(p, x))) : PacketFits(Append(q, Stamp(p, x))[i])
           /\ p.type \in DownType /\ (\A i \in 1 .. Len(q) : q[i].type \in DownType) =>
                 \A i \in 1 .. Len(Append(q, Stamp(p, x))) :
                    Append(q, Stamp(p, x))[i].type \in DownType
<1> DEFINE r == Stamp(p, x)
           a == Append(q, r)
<1>2. r \in PacketSet /\ r.type = p.type /\ r.sid = p.sid /\ r.info = p.info
  BY StampedFields
<1>3. PacketFits(r)
  BY <1>2 DEF PacketFits
<1> HIDE DEF r
<1>4. /\ Len(q) \in Nat /\ Len(a) = Len(q) + 1 /\ a[Len(q) + 1] = r
      /\ \A i \in 1 .. Len(q) : a[i] = q[i]
  BY <1>2, AppendPlaces
<1> HIDE DEF a
<1>5. \A i \in 1 .. Len(a) : a[i] = r \/ (i \in 1 .. Len(q) /\ a[i] = q[i])
  BY <1>4
<1>6. /\ \A i \in 1 .. Len(a) : PacketFits(a[i])
      /\ p.type \in DownType /\ (\A i \in 1 .. Len(q) : q[i].type \in DownType) =>
            \A i \in 1 .. Len(a) : a[i].type \in DownType
  BY <1>2, <1>3, <1>5
<1> QED
  BY <1>6 DEF a, r

LEMMA QueueAppendLive ==
    ASSUME NEW q \in Seq(PacketSet), NEW last, NEW t, NEW x \in Seqno, NEW p \in UnsentSet
    PROVE  /\ \A c \in Live(Append(q, Stamp(p, x)), last, t) :
                 c \in Live(q, last, t) \/ (p.type = t /\ c = Item(p))
           /\ \A n \in Calls(Append(q, Stamp(p, x)), t) :
                 n \in Calls(q, t) \/ (p.type = t /\ n = p.n)
<1> DEFINE r == Stamp(p, x)
<1>2. r \in PacketSet /\ r.type = p.type /\ r.sid = p.sid /\ r.info = p.info /\ r.n = p.n
  BY StampedFields
<1>3. Item(r) = Item(p)
  BY <1>2 DEF Item
<1> HIDE DEF r
<1>5. /\ \A c \in Live(Append(q, r), last, t) : c \in Live(q, last, t)
            \/ (r.type = t /\ c = Item(r))
      /\ \A n \in Calls(Append(q, r), t) : n \in Calls(q, t) \/ (r.type = t /\ n = r.n)
  BY <1>2, LiveAppend
<1> QED
  BY <1>2, <1>3, <1>5 DEF r

LEMMA QueueAppendOrderly ==
    ASSUME NEW q \in Seq(PacketSet), NEW last, NEW x \in Seqno, NEW p \in UnsentSet,
           \/ p.type # "COMMAND"
           \/ p.sid # Socket
           \/ \A c \in Live(q, last, "COMMAND") : c.info # "CLOSE",
           Orderly(q, last)
    PROVE  Orderly(Append(q, Stamp(p, x)), last)
<1> DEFINE r == Stamp(p, x)
<1>2. r \in PacketSet /\ r.type = p.type /\ r.sid = p.sid
  BY StampedFields
<1> HIDE DEF r
<1>5. Orderly(Append(q, r), last)
  BY <1>2, OrderlyAppend
<1> QED
  BY <1>5 DEF r

\* One packet is stamped, or two, or none.
LEMMA StampedNone ==
    ASSUME NEW q \in Seq(PacketSet), NEW sent
    PROVE  q \o Stamped(sent, <<>>) = q /\ LastSent(sent, <<>>) = sent
BY DEF Stamped, LastSent

LEMMA StampedOne ==
    ASSUME NEW q \in Seq(PacketSet), NEW sent, NEW a \in UnsentSet
    PROVE  /\ q \o Stamped(sent, <<a>>) = Append(q, Stamp(a, First(sent)))
           /\ LastSent(sent, <<a>>) = First(sent)
<1> DEFINE r == Stamp(a, First(sent))
<1>1. r.seq = First(sent)
  BY DEF UnsentSet, Stamp
<1>2. Stamped(sent, <<a>>) = <<r>>
  BY DEF Stamped, Stamp
<1> HIDE DEF r
<1>3. q \o <<r>> = Append(q, r) /\ <<a>> # <<>> /\ Len(<<a>>) = 1
  OBVIOUS
<1>4. LastSent(sent, <<a>>) = <<r>>[1].seq
  BY <1>2, <1>3 DEF LastSent
<1> QED
  BY <1>1, <1>2, <1>3, <1>4 DEF r

LEMMA StampedTwo ==
    ASSUME NEW q \in Seq(PacketSet), NEW sent \in Seqno, NEW a \in UnsentSet,
           NEW b \in UnsentSet
    PROVE  /\ q \o Stamped(sent, <<a, b>>) =
                 Append(Append(q, Stamp(a, First(sent))), Stamp(b, First(First(sent))))
           /\ LastSent(sent, <<a, b>>) = First(First(sent))
<1> DEFINE r == Stamp(a, First(sent))
           t == Stamp(b, First(First(sent)))
<1>0. First(sent) \in Seqno /\ First(First(sent)) \in Seqno
  BY FirstSeqno
<1>1. t.seq = First(First(sent))
  BY <1>0, StampedFields
<1>2. Stamped(sent, <<a, b>>) = <<r, t>>
  <2>1. Stamped(sent, <<a, b>>) =
           [i \in DOMAIN <<a, b>> |->
               Stamp(<<a, b>>[i], IF i = 1 THEN First(sent) ELSE First(First(sent)))]
    BY DEF Stamped, Stamp
  <2>2. DOMAIN <<a, b>> = {1, 2} /\ <<a, b>>[1] = a /\ <<a, b>>[2] = b
    OBVIOUS
  <2> QED
    BY <2>1, <2>2
<1>5. r \in PacketSet /\ t \in PacketSet
  BY <1>0, StampedFields
<1> HIDE DEF r, t, PacketSet
<1>3. q \o <<r, t>> = Append(Append(q, r), t) /\ <<a, b>> # <<>> /\ Len(<<a, b>>) = 2
  BY <1>5
<1>4. LastSent(sent, <<a, b>>) = <<r, t>>[2].seq
  BY <1>2, <1>3 DEF LastSent
<1> QED
  BY <1>1, <1>2, <1>3, <1>4 DEF r, t

LEMMA LastSeqno ==
    ASSUME AgtTypes, ArxTypes
    PROVE  Last \in Seqno \cup {INVALID}
<1>1. CASE arx = <<>>
  BY <1>1 DEF AgtTypes, Last
<1>2. CASE arx # <<>>
  <2>1. arx[1] \in PacketSet
    <3> HIDE DEF PacketSet
    <3> QED
      BY <1>2 DEF ArxTypes
  <2> QED
    BY <1>2, <2>1 DEF Last, PacketSet
<1> QED
  BY <1>1, <1>2

LEMMA ControllerTxFacts ==
    ASSUME CtlTypes, LogTypes, DownTypes, AgtTypes, ArxTypes, DownOK,
           NEW p \in UnsentSet, ControllerTx(p),
           p.type \in DownType, PacketFits(p),
           p.type = "COMMAND" => p.n \notin Calls(down, "COMMAND"),
           arx' = arx, agt' = agt, log'.gapDown = log.gapDown
    PROVE  /\ DownTypes' /\ DownOK'
           /\ \A c \in Cmds' : c \in Cmds \/ (p.type = "COMMAND" /\ c = Item(p))
           /\ \A n \in Calls(down, "COMMAND")' :
                 n \in Calls(down, "COMMAND") \/ (p.type = "COMMAND" /\ n = p.n)
           /\ \/ p.type # "COMMAND"
              \/ p.sid # Socket
              \/ \A c \in Cmds : c.info # "CLOSE"
              => (Orderly(down, Last) => Orderly(down, Last)')
           /\ ctl'.seen = ctl.seen /\ ctl'.token = ctl.token
           /\ ctl' \in [seen : Seqno \cup {INVALID}, sent : Seqno \cup {INVALID},
                        token : Nat, status : {"NONE", "TIMEOUT", "OK"}]
<1> DEFINE gap == log.gapDown
           r == Stamp(p, First(ctl.sent))
<1>1. /\ Last' = Last /\ Last \in Seqno \cup {INVALID} /\ gap \in Nat
      /\ ctl.sent \in Seqno \cup {INVALID} /\ down \in Seq(PacketSet)
      /\ gap' = gap
  BY LastSeqno DEF Last, LogTypes, CtlTypes, DownTypes
<1>2. Wire(down) /\ HeadFollows(down, Last, gap) /\ EndSent(down, Last, gap, ctl.sent)
  BY DEF DownOK
<1>3. p.type \in Numbered => p.n \notin Calls(down, p.type)
  BY DEF Numbered, DownType
<1>4. down' = Append(down, r) /\ ctl'.sent = First(ctl.sent) /\ First(ctl.sent) \in Seqno
  BY <1>1, FirstSeqno DEF ControllerTx, CtlTypes, Stamp
<1> HIDE DEF r
<1>5. /\ down' \in Seq(PacketSet)
      /\ \A i \in 1 .. Len(down') : PacketFits(down'[i])
      /\ \A i \in 1 .. Len(down') : down'[i].type \in DownType
  BY <1>1, <1>2, <1>3, <1>4, QueueAppend, QueueAppendTypes DEF DownTypes, r
<1>6. Wire(down') /\ HeadFollows(down', Last, gap) /\ EndSent(down', Last, gap, ctl'.sent)
  BY <1>1, <1>2, <1>3, <1>4, QueueAppend DEF r
<1>7. /\ \A c \in Live(down', Last, "COMMAND") : c \in Live(down, Last, "COMMAND")
            \/ (p.type = "COMMAND" /\ c = Item(p))
      /\ \A n \in Calls(down', "COMMAND") : n \in Calls(down, "COMMAND")
            \/ (p.type = "COMMAND" /\ n = p.n)
  BY <1>1, <1>4, QueueAppendLive DEF r
<1>8. \/ p.type # "COMMAND"
      \/ p.sid # Socket
      \/ \A c \in Live(down, Last, "COMMAND") : c.info # "CLOSE"
      => (Orderly(down, Last) => Orderly(down', Last))
  BY <1>1, <1>4, QueueAppendOrderly DEF r
<1>9. /\ ctl'.seen = ctl.seen /\ ctl'.token = ctl.token
      /\ ctl' \in [seen : Seqno \cup {INVALID}, sent : Seqno \cup {INVALID},
                   token : Nat, status : {"NONE", "TIMEOUT", "OK"}]
  BY <1>4 DEF ControllerTx, CtlTypes
<1>10. DownTypes'
  BY <1>5 DEF DownTypes
<1>11. DownOK'
  BY <1>1, <1>6 DEF DownOK
<1> QED
  BY <1>1, <1>7, <1>8, <1>9, <1>10, <1>11 DEF Cmds

\* What the agent sends that carries no number of a call.
LEMMA AgentTxReports ==
    ASSUME CtlTypes, LogTypes, UpTypes, AgtTypes, UpOK, agt.on,
           NEW ps, NEW seen \in Seqno \cup {INVALID}, AgentTx(ps, seen),
           \/ ps = <<>>
           \/ \E a \in UnsentSet : ps = <<a>> /\ a.type \notin Numbered
           \/ \E a, b \in UnsentSet : ps = <<a, b>> /\ a.type \notin Numbered
                 /\ b.type \notin Numbered,
           ctl' = ctl, log'.gapUp = log.gapUp
    PROVE  /\ UpTypes' /\ UpOK'
           /\ Resps' \subseteq Resps
           /\ Calls(up, "RESPONSE")' \subseteq Calls(up, "RESPONSE")
           /\ agt' \in [on : BOOLEAN, seen : Seqno \cup {INVALID}, sent : Seqno \cup {INVALID}]
           /\ agt'.on = agt.on /\ agt'.seen = seen /\ agt'.sent \in Seqno
<1> DEFINE gap == log.gapUp
<1>1. /\ ctl.seen \in Seqno \cup {INVALID} /\ gap \in Nat /\ agt.sent \in Seqno
      /\ agt.sent \in Seqno \cup {INVALID} /\ up \in Seq(PacketSet) /\ gap' = gap
            /\ ctl'.seen = ctl.seen
  BY DEF LogTypes, CtlTypes, UpTypes, AgtTypes
<1>2. Wire(up) /\ HeadFollows(up, ctl.seen, gap) /\ EndSent(up, ctl.seen, gap, agt.sent)
  BY DEF UpOK
<1>3. up' = up \o Stamped(agt.sent, ps)
      /\ agt' = [agt EXCEPT !.sent = LastSent(@, ps), !.seen = seen]
  BY DEF AgentTx
\* The facts about the queue, for a queue q whose last number is x.
<1> DEFINE Good(q, x) ==
              /\ q \in Seq(PacketSet)
              /\ \A i \in 1 .. Len(q) : PacketFits(q[i])
              /\ Wire(q) /\ HeadFollows(q, ctl.seen, gap) /\ EndSent(q, ctl.seen, gap, x)
              /\ Live(q, ctl.seen, "RESPONSE") \subseteq Live(up, ctl.seen, "RESPONSE")
              /\ Calls(q, "RESPONSE") \subseteq Calls(up, "RESPONSE")
<1>4. Good(up, agt.sent)
  BY <1>1, <1>2 DEF UpTypes
<1>5. ASSUME NEW q, NEW x \in Seqno, Good(q, x), NEW a \in UnsentSet, a.type \notin Numbered
      PROVE  Good(Append(q, Stamp(a, First(x))), First(x)) /\ First(x) \in Seqno
  <2> DEFINE t == Append(q, Stamp(a, First(x)))
  <2>1. a.type # "RESPONSE" /\ PacketFits(a) /\ x \in Seqno \cup {INVALID}
    BY <1>5 DEF Numbered, PacketFits
  <2>2. q \in Seq(PacketSet) /\ Wire(q) /\ HeadFollows(q, ctl.seen, gap)
        /\ EndSent(q, ctl.seen, gap, x)
    BY <1>5
  <2>7. First(x) \in Seqno
    BY FirstSeqno
  <2>3. /\ t \in Seq(PacketSet)
        /\ \A i \in 1 .. Len(t) : PacketFits(t[i])
        /\ Wire(t) /\ HeadFollows(t, ctl.seen, gap) /\ EndSent(t, ctl.seen, gap, First(x))
    BY <1>1, <1>5, <2>1, <2>2, <2>7, QueueAppend, QueueAppendTypes
  <2>4. /\ \A c \in Live(t, ctl.seen, "RESPONSE") : c \in Live(q, ctl.seen, "RESPONSE")
              \/ (a.type = "RESPONSE" /\ c = Item(a))
        /\ \A n \in Calls(t, "RESPONSE") : n \in Calls(q, "RESPONSE")
              \/ (a.type = "RESPONSE" /\ n = a.n)
    BY <1>1, <1>5, <2>1, <2>2, <2>7, QueueAppendLive
  <2> HIDE DEF t
  <2>5. Live(t, ctl.seen, "RESPONSE") \subseteq Live(up, ctl.seen, "RESPONSE")
    BY <1>5, <2>1, <2>4
  <2>6. Calls(t, "RESPONSE") \subseteq Calls(up, "RESPONSE")
    BY <1>5, <2>1, <2>4
  <2> QED
    BY <2>3, <2>5, <2>6, <2>7 DEF t
<1>6. Good(up', LastSent(agt.sent, ps)) /\ LastSent(agt.sent, ps) \in Seqno
  <2> HIDE DEF Good
  <2>1. CASE ps = <<>>
    <3>1. up' = up /\ LastSent(agt.sent, ps) = agt.sent
      BY <1>1, <1>3, <2>1, StampedNone
    <3> QED
      BY <1>1, <1>4, <3>1
  <2>2. ASSUME NEW a \in UnsentSet, ps = <<a>>, a.type \notin Numbered
        PROVE  Good(up', LastSent(agt.sent, ps)) /\ LastSent(agt.sent, ps) \in Seqno
    <3>1. /\ up' = Append(up, Stamp(a, First(agt.sent)))
          /\ LastSent(agt.sent, ps) = First(agt.sent)
      BY <1>1, <1>3, <2>2, StampedOne
    <3> QED
      BY <1>1, <1>4, <1>5, <2>2, <3>1
  <2>3. ASSUME NEW a \in UnsentSet, NEW b \in UnsentSet, ps = <<a, b>>,
               a.type \notin Numbered, b.type \notin Numbered
        PROVE  Good(up', LastSent(agt.sent, ps)) /\ LastSent(agt.sent, ps) \in Seqno
    <3> DEFINE u == Append(up, Stamp(a, First(agt.sent)))
    <3>0. ps = <<a, b>>
      BY <2>3
    <3>1. /\ up' = Append(u, Stamp(b, First(First(agt.sent))))
          /\ LastSent(agt.sent, ps) = First(First(agt.sent))
      <4>1. up' = up \o Stamped(agt.sent, <<a, b>>)
        BY <1>3, <3>0
      <4>2. /\ up \o Stamped(agt.sent, <<a, b>>) = Append(u, Stamp(b, First(First(agt.sent))))
            /\ LastSent(agt.sent, <<a, b>>) = First(First(agt.sent))
        BY <1>1, StampedTwo
      <4> HIDE DEF u
      <4> QED
        BY <3>0, <4>1, <4>2, Zenon
    <3>2. Good(u, First(agt.sent)) /\ First(agt.sent) \in Seqno
      BY <1>1, <1>4, <1>5, <2>3
    <3> HIDE DEF u
    <3> QED
      BY <1>5, <2>3, <3>1, <3>2
  <2> QED
    BY <2>1, <2>2, <2>3
<1>7. /\ agt' \in [on : BOOLEAN, seen : Seqno \cup {INVALID}, sent : Seqno \cup {INVALID}]
      /\ agt'.on = agt.on /\ agt'.seen = seen /\ agt'.sent = LastSent(agt.sent, ps)
  BY <1>3, <1>6 DEF AgtTypes
<1>8. UpTypes'
  BY <1>6 DEF UpTypes
<1>9. UpOK'
  BY <1>1, <1>6, <1>7 DEF UpOK
<1> QED
  BY <1>1, <1>6, <1>7, <1>8, <1>9 DEF Resps

\* A response.
LEMMA AgentTxResponse ==
    ASSUME CtlTypes, LogTypes, UpTypes, AgtTypes, UpOK, agt.on,
           NEW p \in UnsentSet, AgentTx(<<p>>, agt.seen), PacketFits(p),
           p.type = "RESPONSE", p.n \notin Calls(up, "RESPONSE"),
           ctl' = ctl, log' = log
    PROVE  /\ UpTypes' /\ UpOK'
           /\ Resps' \subseteq Resps \cup {Item(p)}
           /\ Calls(up, "RESPONSE")' \subseteq Calls(up, "RESPONSE") \cup {p.n}
           /\ agt' \in [on : BOOLEAN, seen : Seqno \cup {INVALID}, sent : Seqno \cup {INVALID}]
           /\ agt'.on = agt.on /\ agt'.seen = agt.seen /\ agt'.sent \in Seqno
<1> DEFINE gap == log.gapUp
<1>1. /\ ctl.seen \in Seqno \cup {INVALID} /\ gap \in Nat /\ agt.sent \in Seqno
      /\ agt.sent \in Seqno \cup {INVALID} /\ up \in Seq(PacketSet) /\ gap' = gap
            /\ ctl'.seen = ctl.seen
  BY DEF LogTypes, CtlTypes, UpTypes, AgtTypes
<1>2. Wire(up) /\ HeadFollows(up, ctl.seen, gap) /\ EndSent(up, ctl.seen, gap, agt.sent)
  BY DEF UpOK
<1>3. /\ up' = Append(up, Stamp(p, First(agt.sent)))
      /\ LastSent(agt.sent, <<p>>) = First(agt.sent) /\ First(agt.sent) \in Seqno
      /\ agt' = [agt EXCEPT !.sent = LastSent(@, <<p>>), !.seen = agt.seen]
  BY <1>1, StampedOne, FirstSeqno DEF AgentTx
<1>4. /\ up' \in Seq(PacketSet)
      /\ \A i \in 1 .. Len(up') : PacketFits(up'[i])
      /\ Wire(up') /\ HeadFollows(up', ctl.seen, gap)
            /\ EndSent(up', ctl.seen, gap, First(agt.sent))
  BY <1>1, <1>2, <1>3, QueueAppend, QueueAppendTypes DEF UpTypes
<1>5. /\ \A c \in Live(up', ctl.seen, "RESPONSE") : c \in Live(up, ctl.seen, "RESPONSE")
            \/ (p.type = "RESPONSE" /\ c = Item(p))
      /\ \A n \in Calls(up', "RESPONSE") : n \in Calls(up, "RESPONSE")
            \/ (p.type = "RESPONSE" /\ n = p.n)
  BY <1>1, <1>3, QueueAppendLive
<1>7. /\ agt' \in [on : BOOLEAN, seen : Seqno \cup {INVALID}, sent : Seqno \cup {INVALID}]
      /\ agt'.on = agt.on /\ agt'.seen = agt.seen /\ agt'.sent = First(agt.sent)
  BY <1>3 DEF AgtTypes
<1>8. UpTypes'
  BY <1>4 DEF UpTypes
<1>9. UpOK'
  BY <1>1, <1>4, <1>7 DEF UpOK
<1> QED
  BY <1>1, <1>3, <1>5, <1>7, <1>8, <1>9 DEF Resps

-----------------------------------------------------------------------------
(* What happens at the head of the two queues                              *)

\* A packet to the agent is received, or dropped as a repetition.
LEMMA DownSeen ==
    ASSUME DownTypes, DownOK, down # <<>>, down' = Tail(down), Last' = down[1].seq,
           log'.gapDown = 0, ctl'.sent = ctl.sent
    PROVE  /\ DownTypes' /\ DownOK'
           /\ Cmds' \subseteq Cmds
           /\ Calls(down, "COMMAND")' \subseteq Calls(down, "COMMAND")
           /\ down[1].type = "COMMAND" => \A c \in Cmds' : c.n # down[1].n
           /\ down[1].type = "COMMAND" /\ down[1].seq # Last => Item(down[1]) \in Cmds
           /\ Orderly(down, Last) => Orderly(down, Last)'
           /\ Orderly(down, Last) /\ down[1].seq # Last /\ down[1].type = "COMMAND"
                 /\ down[1].info = "CLOSE" => \A c \in Cmds' : c.sid # Socket
<1>1. down \in Seq(PacketSet) /\ Wire(down)
  BY DEF DownTypes, DownOK
<1>2. /\ Tail(down) \in Seq(PacketSet) /\ Len(down) \in Nat \ {0}
            /\ Len(Tail(down)) = Len(down) - 1
      /\ \A i \in 1 .. Len(Tail(down)) : Tail(down)[i] = down[i + 1]
  BY <1>1, TailPlaces
<1>3. \A i \in 1 .. Len(Tail(down)) : i + 1 \in 1 .. Len(down)
  BY <1>2
<1>4. DownTypes'
  BY <1>2, <1>3 DEF DownTypes
<1>5. Wire(down') /\ HeadFollows(down', Last', 0) /\ EndSent(down', Last', 0, ctl.sent)
  BY <1>1, WireTail, PositionSeen DEF DownOK
<1>6. DownOK'
  BY <1>5 DEF DownOK
<1>7. /\ Live(down', Last', "COMMAND") \subseteq Live(down, Last, "COMMAND")
      /\ down[1].type = "COMMAND" => \A c \in Live(down', Last', "COMMAND") : c.n # down[1].n
      /\ down[1].type = "COMMAND" /\ down[1].seq # Last =>
            Item(down[1]) \in Live(down, Last, "COMMAND")
  BY <1>1, LiveSeen DEF Numbered
<1>8. /\ Orderly(down, Last) => Orderly(down', Last')
      /\ Orderly(down, Last) /\ down[1].seq # Last /\ down[1].type = "COMMAND"
            /\ down[1].info = "CLOSE" => \A c \in Live(down', Last', "COMMAND") : c.sid # Socket
  BY <1>1, LiveSeen
<1>9. Calls(down', "COMMAND") \subseteq Calls(down, "COMMAND")
  BY <1>1, LiveTail
<1> QED
  BY <1>4, <1>6, <1>7, <1>8, <1>9 DEF Cmds

LEMMA DownLost ==
    ASSUME DownTypes, DownOK, AgtTypes, ArxTypes, LogTypes, down # <<>>, down' = Tail(down),
           Last' = Last, ctl'.sent = ctl.sent,
           log'.gapDown = IF ~Head(down).copy THEN log.gapDown + 1 ELSE log.gapDown
    PROVE  /\ DownTypes' /\ DownOK'
           /\ Cmds' \subseteq Cmds
           /\ Calls(down, "COMMAND")' \subseteq Calls(down, "COMMAND")
           /\ Orderly(down, Last) => Orderly(down, Last)'
<1>1. down \in Seq(PacketSet) /\ Wire(down) /\ log.gapDown \in Nat
      /\ Last \in Seqno \cup {INVALID}
  BY LastSeqno DEF DownTypes, DownOK, LogTypes
<1>2. /\ Tail(down) \in Seq(PacketSet) /\ Len(down) \in Nat \ {0}
            /\ Len(Tail(down)) = Len(down) - 1
      /\ \A i \in 1 .. Len(Tail(down)) : Tail(down)[i] = down[i + 1]
      /\ Head(down) = down[1]
  BY <1>1, TailPlaces
<1>3. \A i \in 1 .. Len(Tail(down)) : i + 1 \in 1 .. Len(down)
  BY <1>2
<1>4. DownTypes'
  BY <1>2, <1>3 DEF DownTypes
<1>5. /\ log'.gapDown \in Nat
      /\ \/ down[1].copy /\ log'.gapDown = log.gapDown
         \/ down[1].type # "AGENT_START_NOTIFICATION" /\ ~down[1].copy
               /\ log'.gapDown = log.gapDown + 1
  <2>1. down[1].type \in DownType
    BY <1>2 DEF DownTypes
  <2> QED
    BY <1>1, <1>2, <2>1 DEF DownType
<1>6. HeadFollows(down', Last, log'.gapDown) /\ EndSent(down', Last, log'.gapDown, ctl.sent)
  BY <1>1, <1>5, PositionLost DEF DownOK
<1>7. DownOK'
  BY <1>1, <1>6, WireTail DEF DownOK
<1>8. /\ Live(down', Last, "COMMAND") \subseteq Live(down, Last, "COMMAND")
      /\ Calls(down', "COMMAND") \subseteq Calls(down, "COMMAND")
      /\ Orderly(down, Last) => Orderly(down', Last)
  BY <1>1, LiveTail
<1> QED
  BY <1>4, <1>7, <1>8 DEF Cmds

LEMMA DownRepeated ==
    ASSUME DownTypes, DownOK, down # <<>>, ~Head(down).copy, down' = Repeated(down),
           Last' = Last, ctl'.sent = ctl.sent, log'.gapDown = log.gapDown
    PROVE  /\ DownTypes' /\ DownOK'
           /\ Cmds' \subseteq Cmds
           /\ Calls(down, "COMMAND")' \subseteq Calls(down, "COMMAND")
           /\ Orderly(down, Last) => Orderly(down, Last)'
<1>1. down \in Seq(PacketSet) /\ Wire(down)
  BY DEF DownTypes, DownOK
<1>2. DownTypes'
  <2> DEFINE r == Repeated(down)
             m == Len(down)
  <2>1. /\ r \in Seq(PacketSet) /\ m \in Nat \ {0} /\ Len(r) = m + 1
        /\ r[1] = down[1] /\ Same(r[2], down[1])
        /\ \A i \in 2 .. m : r[i + 1] = down[i]
    BY <1>1, RepeatedPlaces
  <2> HIDE DEF r
  <2>2. ASSUME NEW i \in 1 .. m + 1
        PROVE  r[i].type \in DownType /\ PacketFits(r[i])
    <3>1. CASE i <= 2
      <4>1. Same(r[i], down[1]) /\ 1 \in 1 .. m
        BY <2>1, <3>1 DEF Same
      <4> QED
        BY <4>1 DEF DownTypes, Same, PacketFits
    <3>2. CASE i > 2
      <4>1. i - 1 \in 2 .. m /\ (i - 1) + 1 = i /\ i - 1 \in 1 .. m
        BY <2>1, <3>2
      <4>2. r[i] = down[i - 1]
        BY <2>1, <4>1
      <4> QED
        BY <4>1, <4>2 DEF DownTypes
    <3> QED
      BY <3>1, <3>2
  <2>3. down' = r
    BY DEF r
  <2> QED
    BY <2>1, <2>2, <2>3 DEF DownTypes
<1>3. DownOK'
  BY <1>1, WireRepeated, PositionRepeated DEF DownOK
<1>4. \A i \in 1 .. Len(down) : PacketFits(down[i])
  BY DEF DownTypes
<1>5. /\ Live(down', Last, "COMMAND") \subseteq Live(down, Last, "COMMAND")
      /\ Calls(down', "COMMAND") \subseteq Calls(down, "COMMAND")
      /\ Orderly(down, Last) => Orderly(down', Last)
  BY <1>1, <1>4, LiveRepeated
<1> QED
  BY <1>2, <1>3, <1>5 DEF Cmds

\* A packet to the controller is received, or dropped as a repetition.
LEMMA UpSeen ==
    ASSUME UpTypes, UpOK, up # <<>>, up' = Tail(up), ctl'.seen = up[1].seq,
           log'.gapUp = 0, agt' = agt
    PROVE  /\ UpTypes' /\ UpOK'
           /\ Resps' \subseteq Resps
           /\ Calls(up, "RESPONSE")' \subseteq Calls(up, "RESPONSE")
           /\ up[1].type = "RESPONSE" => \A r \in Resps' : r.n # up[1].n
           /\ up[1].type = "RESPONSE" => up[1].n \in Calls(up, "RESPONSE")
           /\ up[1].type = "RESPONSE" /\ up[1].seq # ctl.seen => Item(up[1]) \in Resps
<1>1. up \in Seq(PacketSet) /\ Wire(up)
  BY DEF UpTypes, UpOK
<1>2. /\ Tail(up) \in Seq(PacketSet) /\ Len(up) \in Nat \ {0} /\ Len(Tail(up)) = Len(up) - 1
      /\ \A i \in 1 .. Len(Tail(up)) : Tail(up)[i] = up[i + 1]
  BY <1>1, TailPlaces
<1>3. \A i \in 1 .. Len(Tail(up)) : i + 1 \in 1 .. Len(up)
  BY <1>2
<1>4. UpTypes'
  BY <1>2, <1>3 DEF UpTypes
<1>5. Wire(up') /\ HeadFollows(up', up[1].seq, 0)
  BY <1>1, WireTail, PositionSeen
<1>6. agt.on => EndSent(up', up[1].seq, 0, agt.sent)
  BY <1>1, PositionSeen DEF UpOK
<1>7. UpOK'
  BY <1>5, <1>6 DEF UpOK
<1>8. /\ Live(up', up[1].seq, "RESPONSE") \subseteq Live(up, ctl.seen, "RESPONSE")
      /\ up[1].type = "RESPONSE" => \A r \in Live(up', up[1].seq, "RESPONSE") : r.n # up[1].n
      /\ up[1].type = "RESPONSE" /\ up[1].seq # ctl.seen =>
            Item(up[1]) \in Live(up, ctl.seen, "RESPONSE")
  BY <1>1, LiveSeen DEF Numbered
<1>9. Calls(up', "RESPONSE") \subseteq Calls(up, "RESPONSE")
  BY <1>1, LiveTail
<1>10. up[1].type = "RESPONSE" => up[1].n \in Calls(up, "RESPONSE")
  <2>1. 1 \in 1 .. Len(up)
    BY <1>2
  <2> QED
    BY <2>1 DEF Calls
<1> QED
  BY <1>4, <1>7, <1>8, <1>9, <1>10 DEF Resps

LEMMA UpLost ==
    ASSUME UpTypes, UpOK, CtlTypes, LogTypes, up # <<>>, up' = Tail(up), ctl' = ctl, agt' = agt,
           log'.gapUp = IF Head(up).type = "AGENT_START_NOTIFICATION" THEN SeqMod
                        ELSE IF Head(up).copy THEN log.gapUp ELSE log.gapUp + 1
    PROVE  /\ UpTypes' /\ UpOK'
           /\ Resps' \subseteq Resps
           /\ Calls(up, "RESPONSE")' \subseteq Calls(up, "RESPONSE")
<1>1. up \in Seq(PacketSet) /\ Wire(up) /\ log.gapUp \in Nat
      /\ ctl.seen \in Seqno \cup {INVALID}
  BY DEF UpTypes, UpOK, LogTypes, CtlTypes
<1>2. /\ Tail(up) \in Seq(PacketSet) /\ Len(up) \in Nat \ {0} /\ Len(Tail(up)) = Len(up) - 1
      /\ \A i \in 1 .. Len(Tail(up)) : Tail(up)[i] = up[i + 1]
      /\ Head(up) = up[1]
  BY <1>1, TailPlaces
<1>3. \A i \in 1 .. Len(Tail(up)) : i + 1 \in 1 .. Len(up)
  BY <1>2
<1>4. UpTypes'
  BY <1>2, <1>3 DEF UpTypes
<1>5. /\ log'.gapUp \in Nat
      /\ \/ log'.gapUp = SeqMod
         \/ up[1].copy /\ log'.gapUp = log.gapUp
         \/ up[1].type # "AGENT_START_NOTIFICATION" /\ ~up[1].copy /\ log'.gapUp = log.gapUp + 1
  BY <1>1, <1>2, LinkAssumption
<1>6. /\ HeadFollows(up', ctl.seen, log'.gapUp)
      /\ agt.on => EndSent(up', ctl.seen, log'.gapUp, agt.sent)
  BY <1>1, <1>5, PositionLost DEF UpOK
<1>7. UpOK'
  BY <1>1, <1>6, WireTail DEF UpOK
<1>8. /\ Live(up', ctl.seen, "RESPONSE") \subseteq Live(up, ctl.seen, "RESPONSE")
      /\ Calls(up', "RESPONSE") \subseteq Calls(up, "RESPONSE")
  BY <1>1, LiveTail
<1> QED
  BY <1>4, <1>7, <1>8 DEF Resps

LEMMA UpRepeated ==
    ASSUME UpTypes, UpOK, up # <<>>, ~Head(up).copy, up' = Repeated(up),
           ctl' = ctl, agt' = agt, log'.gapUp = log.gapUp
    PROVE  /\ UpTypes' /\ UpOK'
           /\ Resps' \subseteq Resps
           /\ Calls(up, "RESPONSE")' \subseteq Calls(up, "RESPONSE")
<1>1. up \in Seq(PacketSet) /\ Wire(up)
  BY DEF UpTypes, UpOK
<1>2. UpTypes'
  <2> DEFINE r == Repeated(up)
             m == Len(up)
  <2>1. /\ r \in Seq(PacketSet) /\ m \in Nat \ {0} /\ Len(r) = m + 1
        /\ r[1] = up[1] /\ Same(r[2], up[1])
        /\ \A i \in 2 .. m : r[i + 1] = up[i]
    BY <1>1, RepeatedPlaces
  <2> HIDE DEF r
  <2>2. ASSUME NEW i \in 1 .. m + 1
        PROVE  PacketFits(r[i])
    <3>1. CASE i <= 2
      <4>1. Same(r[i], up[1]) /\ 1 \in 1 .. m
        BY <2>1, <3>1 DEF Same
      <4> QED
        BY <4>1 DEF UpTypes, Same, PacketFits
    <3>2. CASE i > 2
      <4>1. i - 1 \in 2 .. m /\ (i - 1) + 1 = i /\ i - 1 \in 1 .. m
        BY <2>1, <3>2
      <4>2. r[i] = up[i - 1]
        BY <2>1, <4>1
      <4> QED
        BY <4>1, <4>2 DEF UpTypes
    <3> QED
      BY <3>1, <3>2
  <2>3. up' = r
    BY DEF r
  <2> QED
    BY <2>1, <2>2, <2>3 DEF UpTypes
<1>3. UpOK'
  BY <1>1, WireRepeated, PositionRepeated DEF UpOK
<1>5. /\ Live(up', ctl.seen, "RESPONSE") \subseteq Live(up, ctl.seen, "RESPONSE")
      /\ Calls(up', "RESPONSE") \subseteq Calls(up, "RESPONSE")
  BY <1>1, LiveRepeated
<1> QED
  BY <1>2, <1>3, <1>5 DEF Resps

-----------------------------------------------------------------------------
(* Steps that only take items away                                         *)

\* What a step does that leaves the streams of the agent and the calls that
\* are not given up alone, and adds no item.
Shrinks ==
    /\ Cmds' \subseteq Cmds
    /\ Resps' \subseteq Resps
    /\ Calls(down, "COMMAND")' \subseteq Calls(down, "COMMAND")
    /\ Calls(up, "RESPONSE")' \subseteq Calls(up, "RESPONSE")
    /\ Orderly(down, Last) => Orderly(down, Last)'
    /\ UNCHANGED <<arx, aq, streams, task, cq>>
    /\ Socket \in open' => Socket \in open
    /\ left'["call"] = left["call"]
    /\ log'.taken = log.taken
    /\ log.late \subseteq log'.late
    /\ log'.restarted = log.restarted
    /\ \A s \in Stream \ log'.late : call'[s] = call[s]
    /\ call'[Control] = call[Control] \/ call'[Control].at # "wait"

LEMMA ShrinksKeeps ==
    ASSUME NumbersDown, NumbersUp, Own, Token, Shrinks
    PROVE  NumbersDown' /\ NumbersUp' /\ Own' /\ Token'
<1>1. NumbersDown'
  BY DEF Shrinks, NumbersDown, Queued
<1>2. NumbersUp'
  BY DEF Shrinks, NumbersUp, Busy
<1>3. Own'
  <2> SUFFICES ASSUME NEW s \in Stream \ log'.late
               PROVE  /\ \A c \in Cmds' : c.sid = s => Mine(s, c.n)'
                            /\ c.info = call'[s].req.cmd
                      /\ arx' # <<>> /\ arx'[1].sid = s =>
                            Mine(s, arx[1].n)' /\ arx'[1].info = call'[s].req.cmd
                      /\ Queued(s)' => Mine(s, aq[s][1].n)' /\ aq'[s][1].info = call'[s].req.cmd
                      /\ Busy(s)' => Mine(s, task[s].req.n)'
                            /\ task'[s].req.cmd = call'[s].req.cmd
                      /\ \A r \in Resps' : r.sid = s => Mine(s, r.n)' /\ cq'[s] = <<>>
                      /\ cq'[s] # <<>> => Mine(s, cq[s][1].n)'
    BY DEF Own, Mine
  <2>1. s \in Stream \ log.late /\ call'[s] = call[s]
    BY DEF Shrinks
  <2> QED
    BY <2>1 DEF Shrinks, Own, Mine, Queued, Busy
<1>4. Trusted' => Trusted
  BY DEF Shrinks, Trusted
<1>5. /\ \A n : CloseSent(n)' => CloseSent(n)
      /\ Opened' => Opened
      /\ OpenReturning' <=> OpenReturning
      /\ Closing' <=> Closing
  BY DEF Shrinks, CloseSent, Opened, OpenReturning, Closing, Queued, Busy
<1>6. OneOwner => OneOwner'
  BY <1>5 DEF Shrinks, OneOwner
<1>7. UseBeforeClose => UseBeforeClose'
  BY <1>5 DEF Shrinks, UseBeforeClose, Queued, Busy
<1>8. NobodyOwns => NobodyOwns'
  BY <1>5 DEF Shrinks, NobodyOwns
<1>9. Token'
  BY <1>4, <1>6, <1>7, <1>8 DEF Shrinks, Token
<1> QED
  BY <1>1, <1>2, <1>3, <1>9

LEMMA DownStays ==
    ASSUME DownTypes, DownOK, down' = down, Last' = Last, log'.gapDown = log.gapDown,
           ctl'.sent = ctl.sent
    PROVE  /\ DownTypes' /\ DownOK'
           /\ Cmds' = Cmds
           /\ Calls(down, "COMMAND")' = Calls(down, "COMMAND")
           /\ Orderly(down, Last)' <=> Orderly(down, Last)
BY DEF DownTypes, DownOK, Cmds

LEMMA UpStays ==
    ASSUME UpTypes, UpOK, up' = up, ctl'.seen = ctl.seen, log'.gapUp = log.gapUp,
           agt'.on = agt.on, agt'.sent = agt.sent
    PROVE  /\ UpTypes' /\ UpOK'
           /\ Resps' = Resps
           /\ Calls(up, "RESPONSE")' = Calls(up, "RESPONSE")
BY DEF UpTypes, UpOK, Resps

LEMMA AgentStays ==
    ASSUME AgtTypes, ArxTypes, AqTypes, agtVars' = agtVars, log'.restarted = log.restarted
    PROVE  AgtTypes' /\ ArxTypes' /\ AqTypes' /\ Last' = Last
BY DEF AgtTypes, ArxTypes, AqTypes, Last, Busy, agtVars

LEMMA SpendFacts ==
    ASSUME CtlTypes, NEW kind \in Happenings, Spend(kind)
    PROVE  /\ left' \in [Happenings -> Nat]
           /\ kind # "call" => left'["call"] = left["call"]
           /\ kind = "call" => left["call"] \in Nat \ {0} /\ left'["call"] = left["call"] - 1
<1>1. left \in [Happenings -> Nat] /\ "call" \in Happenings
  BY DEF CtlTypes, Happenings
<1>2. left[kind] > 0 /\ left' = [left EXCEPT ![kind] = left[kind] - 1]
  BY DEF Spend
<1> QED
  BY <1>1, <1>2

\* The history, but for its gaps, is as it was.
SameLog ==
    /\ log'.late = log.late /\ log'.taken = log.taken /\ log'.restarted = log.restarted
    /\ log'.fresh = log.fresh /\ log'.mixed = log.mixed /\ log'.again = log.again
    /\ log'.dead = log.dead

LEMMA VerdictsStay ==
    ASSUME Verdicts, SameLog
    PROVE  Verdicts'
BY DEF Verdicts, SameLog, Trusted

LEMMA SyncNoteTokenKeeps ==
    ASSUME Inv, SyncNoteToken
    PROVE  Inv'
<1> USE DEF Inv, Types
<1>1. /\ sync' = [sync EXCEPT !.at = "noted"] /\ ctl' = [ctl EXCEPT !.token = sync.n]
      /\ UNCHANGED <<cq, call, open, down, up, agtVars, left, log>>
  BY DEF SyncNoteToken
<1>2. CtlTypes' /\ SyncTypes' /\ CqTypes' /\ LogTypes' /\ ctl'.seen = ctl.seen
      /\ ctl'.sent = ctl.sent
  BY <1>1 DEF CtlTypes, SyncTypes, CqTypes, LogTypes
<1>3. AgtTypes' /\ ArxTypes' /\ AqTypes' /\ Last' = Last
  BY <1>1, AgentStays
<1>4. DownTypes' /\ DownOK' /\ Cmds' = Cmds /\ Calls(down, "COMMAND")' = Calls(down, "COMMAND")
      /\ (Orderly(down, Last)' <=> Orderly(down, Last))
  BY <1>1, <1>2, <1>3, DownStays
<1>5. UpTypes' /\ UpOK' /\ Resps' = Resps /\ Calls(up, "RESPONSE")' = Calls(up, "RESPONSE")
  BY <1>1, <1>2, UpStays DEF agtVars
<1>6. Shrinks
  BY <1>1, <1>4, <1>5 DEF Shrinks, agtVars
<1>7. Verdicts'
  BY <1>1, VerdictsStay DEF SameLog
<1> QED
  BY <1>2, <1>3, <1>4, <1>5, <1>6, <1>7, ShrinksKeeps

LEMMA SyncPresetKeeps ==
    ASSUME Inv, SyncPreset
    PROVE  Inv'
<1> USE DEF Inv, Types
<1>1. /\ sync' = [sync EXCEPT !.at = "poll"] /\ ctl' = [ctl EXCEPT !.status = "TIMEOUT"]
      /\ UNCHANGED <<cq, call, open, down, up, agtVars, left, log>>
  BY DEF SyncPreset
<1>2. CtlTypes' /\ SyncTypes' /\ CqTypes' /\ LogTypes' /\ ctl'.seen = ctl.seen
      /\ ctl'.sent = ctl.sent
  BY <1>1 DEF CtlTypes, SyncTypes, CqTypes, LogTypes
<1>3. AgtTypes' /\ ArxTypes' /\ AqTypes' /\ Last' = Last
  BY <1>1, <1>2, AgentStays
<1>4. DownTypes' /\ DownOK' /\ Cmds' = Cmds /\ Calls(down, "COMMAND")' = Calls(down, "COMMAND")
      /\ (Orderly(down, Last)' <=> Orderly(down, Last))
  BY <1>1, <1>2, <1>3, DownStays
<1>5. UpTypes' /\ UpOK' /\ Resps' = Resps /\ Calls(up, "RESPONSE")' = Calls(up, "RESPONSE")
  BY <1>1, <1>2, UpStays DEF agtVars
<1>6. Shrinks
  BY <1>1, <1>2, <1>4, <1>5 DEF Shrinks, agtVars
<1>7. Verdicts'
  BY <1>1, <1>2, VerdictsStay DEF SameLog
<1> QED
  BY <1>2, <1>3, <1>4, <1>5, <1>6, <1>7, ShrinksKeeps

LEMMA SyncReturnKeeps ==
    ASSUME Inv, SyncReturn
    PROVE  Inv'
<1> USE DEF Inv, Types
<1>1. /\ sync' = [sync EXCEPT !.at = "idle", !.ret = ctl.status]
      /\ UNCHANGED <<ctl, cq, call, open, down, up, agtVars, log>>
  BY DEF SyncReturn
<1>0. left' \in [Happenings -> Nat] /\ left'["call"] = left["call"]
  BY SpendFacts DEF SyncReturn, CtlTypes, Happenings
<1>2. /\ CtlTypes' /\ SyncTypes' /\ CqTypes' /\ LogTypes' /\ left'["call"] = left["call"]
      /\ ctl'.seen = ctl.seen /\ ctl'.sent = ctl.sent
  BY <1>0, <1>1 DEF CtlTypes, SyncTypes, CqTypes, LogTypes
<1>3. AgtTypes' /\ ArxTypes' /\ AqTypes' /\ Last' = Last
  BY <1>1, <1>2, AgentStays
<1>4. DownTypes' /\ DownOK' /\ Cmds' = Cmds /\ Calls(down, "COMMAND")' = Calls(down, "COMMAND")
      /\ (Orderly(down, Last)' <=> Orderly(down, Last))
  BY <1>1, <1>2, <1>3, DownStays
<1>5. UpTypes' /\ UpOK' /\ Resps' = Resps /\ Calls(up, "RESPONSE")' = Calls(up, "RESPONSE")
  BY <1>1, <1>2, UpStays DEF agtVars
<1>6. Shrinks
  BY <1>1, <1>2, <1>4, <1>5 DEF Shrinks, agtVars
<1>7. Verdicts'
  BY <1>1, <1>2, VerdictsStay DEF SameLog
<1> QED
  BY <1>2, <1>3, <1>4, <1>5, <1>6, <1>7, ShrinksKeeps

LEMMA SyncSendKeeps ==
    ASSUME Inv, SyncSend
    PROVE  Inv'
<1> USE DEF Inv, Types
<1> DEFINE p == Packet("SYNC_REQ", Control, "NONE", left["sync"])
<1>1. /\ ControllerTx(p)
      /\ sync' = [at |-> "sent", n |-> left["sync"], seq |-> ctl'.sent, answered |-> FALSE, ret |-> "NONE"]
      /\ UNCHANGED <<cq, call, open, up, agtVars, log>>
  BY DEF SyncSend
<1>0. p \in UnsentSet /\ p.type = "SYNC_REQ" /\ p.type \in DownType /\ PacketFits(p)
      /\ left["sync"] \in Nat
  <2>1. left["sync"] \in Nat
    BY DEF CtlTypes, Happenings
  <2>3. "SYNC_REQ" \in PacketType /\ Control \in Stream /\ "NONE" \in Info
    BY DEF PacketType, Stream, Info
  <2> HIDE DEF p
  <2>2. p \in UnsentSet /\ p.type = "SYNC_REQ"
    BY <2>1, <2>3, PacketFields DEF p
  <2> QED
    BY <2>1, <2>2 DEF DownType, PacketFits
<1> HIDE DEF p
<1>10. left' \in [Happenings -> Nat] /\ left'["call"] = left["call"]
  BY SpendFacts DEF SyncSend, Happenings
<1>4. /\ DownTypes' /\ DownOK' /\ Cmds' \subseteq Cmds
      /\ Calls(down, "COMMAND")' \subseteq Calls(down, "COMMAND")
      /\ Orderly(down, Last) => Orderly(down, Last)'
      /\ ctl'.seen = ctl.seen /\ ctl'.token = ctl.token
      /\ ctl' \in [seen : Seqno \cup {INVALID}, sent : Seqno \cup {INVALID},
                   token : Nat, status : {"NONE", "TIMEOUT", "OK"}]
  BY <1>0, <1>1, ControllerTxFacts DEF agtVars
<1>2. CtlTypes' /\ SyncTypes' /\ CqTypes' /\ LogTypes' /\ left'["call"] = left["call"]
  BY <1>0, <1>1, <1>10, <1>4 DEF CtlTypes, SyncTypes, CqTypes, LogTypes
<1>3. AgtTypes' /\ ArxTypes' /\ AqTypes' /\ Last' = Last
  BY <1>1, <1>2, AgentStays
<1>5. UpTypes' /\ UpOK' /\ Resps' = Resps /\ Calls(up, "RESPONSE")' = Calls(up, "RESPONSE")
  BY <1>1, <1>4, UpStays DEF agtVars
<1>6. Shrinks
  BY <1>1, <1>2, <1>4, <1>5 DEF Shrinks, agtVars
<1>7. Verdicts'
  BY <1>1, <1>2, VerdictsStay DEF SameLog
<1> QED
  BY <1>2, <1>3, <1>4, <1>5, <1>6, <1>7, ShrinksKeeps

LEMMA RequestResetKeeps ==
    ASSUME Inv, RequestReset
    PROVE  Inv'
<1> USE DEF Inv, Types
<1> DEFINE p == Packet("AGENT_RESET", Control, "NONE", 0)
<1>1. /\ ControllerTx(p)
      /\ log' = [log EXCEPT !.asked = TRUE]
      /\ UNCHANGED <<cq, call, open, sync, up, agtVars>>
  BY DEF RequestReset
<1>0. /\ p \in UnsentSet /\ p.type = "AGENT_RESET" /\ p.type \in DownType /\ PacketFits(p)
      /\ LogTypes' /\ SameLog /\ log'.gapDown = log.gapDown /\ log'.gapUp = log.gapUp
  <2>1. p \in UnsentSet /\ p.type = "AGENT_RESET"
    BY PacketFields DEF PacketType, Stream, Info
  <2>2. p.type \in DownType /\ PacketFits(p)
    BY <2>1 DEF DownType, PacketFits
  <2>3. LogTypes' /\ SameLog /\ log'.gapDown = log.gapDown /\ log'.gapUp = log.gapUp
    BY <1>1 DEF LogTypes, SameLog
  <2> QED
    BY <2>1, <2>2, <2>3
<1> HIDE DEF p
<1>10. left' \in [Happenings -> Nat] /\ left'["call"] = left["call"]
  BY SpendFacts DEF RequestReset, Happenings
<1>4. /\ DownTypes' /\ DownOK' /\ Cmds' \subseteq Cmds
      /\ Calls(down, "COMMAND")' \subseteq Calls(down, "COMMAND")
      /\ Orderly(down, Last) => Orderly(down, Last)'
      /\ ctl'.seen = ctl.seen /\ ctl'.token = ctl.token
      /\ ctl' \in [seen : Seqno \cup {INVALID}, sent : Seqno \cup {INVALID},
                   token : Nat, status : {"NONE", "TIMEOUT", "OK"}]
  BY <1>0, <1>1, ControllerTxFacts DEF agtVars
<1>2. CtlTypes' /\ SyncTypes' /\ CqTypes' /\ LogTypes' /\ SameLog
      /\ left'["call"] = left["call"]
  BY <1>0, <1>1, <1>10, <1>4 DEF CtlTypes, SyncTypes, CqTypes
<1>3. AgtTypes' /\ ArxTypes' /\ AqTypes' /\ Last' = Last
  BY <1>1, <1>2, AgentStays DEF SameLog
<1>5. UpTypes' /\ UpOK' /\ Resps' = Resps /\ Calls(up, "RESPONSE")' = Calls(up, "RESPONSE")
  BY <1>0, <1>1, <1>4, UpStays DEF agtVars
<1>6. Shrinks
  BY <1>1, <1>2, <1>4, <1>5 DEF Shrinks, agtVars, SameLog
<1>7. Verdicts'
  BY <1>1, <1>2, VerdictsStay
<1> QED
  BY <1>2, <1>3, <1>4, <1>5, <1>6, <1>7, ShrinksKeeps

LEMMA LoseDownKeeps ==
    ASSUME Inv, LoseDown
    PROVE  Inv'
<1> USE DEF Inv, Types
<1>1. /\ down # <<>> /\ down' = Tail(down)
      /\ log' = [log EXCEPT !.lost = TRUE, !.gapDown = IF ~Head(down).copy THEN @ + 1 ELSE @]
      /\ UNCHANGED <<ctlVars, up, agtVars>>
  BY DEF LoseDown
<1>0. left' \in [Happenings -> Nat] /\ left'["call"] = left["call"]
  BY SpendFacts DEF LoseDown, Happenings
<1>8. /\ LogTypes' /\ SameLog /\ log'.gapUp = log.gapUp
      /\ log'.gapDown = IF ~Head(down).copy THEN log.gapDown + 1 ELSE log.gapDown
  BY <1>1 DEF LogTypes, SameLog
<1>2. /\ CtlTypes' /\ SyncTypes' /\ CqTypes' /\ LogTypes' /\ SameLog
            /\ left'["call"] = left["call"]
      /\ ctl' = ctl
  BY <1>0, <1>1, <1>8 DEF CtlTypes, SyncTypes, CqTypes, ctlVars
<1>3. AgtTypes' /\ ArxTypes' /\ AqTypes' /\ Last' = Last
  BY <1>1, <1>2, AgentStays DEF SameLog
<1>4. /\ DownTypes' /\ DownOK' /\ Cmds' \subseteq Cmds
      /\ Calls(down, "COMMAND")' \subseteq Calls(down, "COMMAND")
      /\ Orderly(down, Last) => Orderly(down, Last)'
  BY <1>1, <1>2, <1>3, <1>8, DownLost
<1>5. /\ UpTypes' /\ UpOK' /\ Resps' \subseteq Resps
      /\ Calls(up, "RESPONSE")' \subseteq Calls(up, "RESPONSE")
  BY <1>1, <1>2, <1>8, UpStays DEF agtVars
<1>6. Shrinks
  BY <1>1, <1>2, <1>4, <1>5 DEF Shrinks, agtVars, ctlVars, SameLog
<1>7. Verdicts'
  BY <1>1, <1>2, VerdictsStay
<1> QED
  BY <1>2, <1>3, <1>4, <1>5, <1>6, <1>7, ShrinksKeeps

LEMMA LoseUpKeeps ==
    ASSUME Inv, LoseUp
    PROVE  Inv'
<1> USE DEF Inv, Types
<1>1. /\ up # <<>> /\ up' = Tail(up)
      /\ log' = [log EXCEPT !.lost = TRUE, !.gapUp =
                   IF Head(up).type = "AGENT_START_NOTIFICATION" THEN SeqMod
                   ELSE IF Head(up).copy THEN @ ELSE @ + 1]
      /\ UNCHANGED <<ctlVars, down, agtVars>>
  BY DEF LoseUp
<1>0. left' \in [Happenings -> Nat] /\ left'["call"] = left["call"]
  BY SpendFacts DEF LoseUp, Happenings
<1>8. /\ LogTypes' /\ SameLog /\ log'.gapDown = log.gapDown
      /\ log'.gapUp = IF Head(up).type = "AGENT_START_NOTIFICATION" THEN SeqMod
                      ELSE IF Head(up).copy THEN log.gapUp ELSE log.gapUp + 1
  <2>1. /\ SameLog /\ log'.gapDown = log.gapDown
        /\ log'.gapUp = IF Head(up).type = "AGENT_START_NOTIFICATION" THEN SeqMod
                        ELSE IF Head(up).copy THEN log.gapUp ELSE log.gapUp + 1
    BY <1>1 DEF LogTypes, SameLog
  <2>2. DOMAIN log' = DOMAIN log
    BY <1>1
  <2>3. SeqMod \in Nat
    BY LinkAssumption
  <2> QED
    BY <2>1, <2>2, <2>3 DEF LogTypes, SameLog
<1>2. /\ CtlTypes' /\ SyncTypes' /\ CqTypes' /\ LogTypes' /\ SameLog
            /\ left'["call"] = left["call"]
      /\ ctl' = ctl
  BY <1>0, <1>1, <1>8 DEF CtlTypes, SyncTypes, CqTypes, ctlVars
<1>3. AgtTypes' /\ ArxTypes' /\ AqTypes' /\ Last' = Last
  BY <1>1, <1>2, AgentStays DEF SameLog
<1>4. /\ DownTypes' /\ DownOK' /\ Cmds' \subseteq Cmds
      /\ Calls(down, "COMMAND")' \subseteq Calls(down, "COMMAND")
      /\ Orderly(down, Last) => Orderly(down, Last)'
  BY <1>1, <1>2, <1>3, <1>8, DownStays
<1>5. /\ UpTypes' /\ UpOK' /\ Resps' \subseteq Resps
      /\ Calls(up, "RESPONSE")' \subseteq Calls(up, "RESPONSE")
  BY <1>1, <1>2, <1>8, UpLost DEF agtVars
<1>6. Shrinks
  BY <1>1, <1>2, <1>4, <1>5 DEF Shrinks, agtVars, ctlVars, SameLog
<1>7. Verdicts'
  BY <1>1, <1>2, VerdictsStay
<1> QED
  BY <1>2, <1>3, <1>4, <1>5, <1>6, <1>7, ShrinksKeeps

LEMMA RepeatDownKeeps ==
    ASSUME Inv, RepeatDown
    PROVE  Inv'
<1> USE DEF Inv, Types
<1>1. /\ down # <<>> /\ ~Head(down).copy /\ down' = Repeated(down)
      /\ UNCHANGED <<ctlVars, up, agtVars, log>>
  BY DEF RepeatDown
<1>0. left' \in [Happenings -> Nat] /\ left'["call"] = left["call"]
  BY SpendFacts DEF RepeatDown, Happenings
<1>8. LogTypes' /\ SameLog /\ log'.gapDown = log.gapDown /\ log'.gapUp = log.gapUp
  BY <1>1 DEF LogTypes, SameLog
<1>2. /\ CtlTypes' /\ SyncTypes' /\ CqTypes' /\ LogTypes' /\ SameLog
            /\ left'["call"] = left["call"]
      /\ ctl' = ctl
  BY <1>0, <1>1, <1>8 DEF CtlTypes, SyncTypes, CqTypes, ctlVars
<1>3. AgtTypes' /\ ArxTypes' /\ AqTypes' /\ Last' = Last
  BY <1>1, <1>2, AgentStays DEF SameLog
<1>4. /\ DownTypes' /\ DownOK' /\ Cmds' \subseteq Cmds
      /\ Calls(down, "COMMAND")' \subseteq Calls(down, "COMMAND")
      /\ Orderly(down, Last) => Orderly(down, Last)'
  BY <1>1, <1>2, <1>3, <1>8, DownRepeated
<1>5. /\ UpTypes' /\ UpOK' /\ Resps' \subseteq Resps
      /\ Calls(up, "RESPONSE")' \subseteq Calls(up, "RESPONSE")
  BY <1>1, <1>2, <1>8, UpStays DEF agtVars
<1>6. Shrinks
  BY <1>1, <1>2, <1>4, <1>5 DEF Shrinks, agtVars, ctlVars, SameLog
<1>7. Verdicts'
  BY <1>1, <1>2, VerdictsStay
<1> QED
  BY <1>2, <1>3, <1>4, <1>5, <1>6, <1>7, ShrinksKeeps

LEMMA RepeatUpKeeps ==
    ASSUME Inv, RepeatUp
    PROVE  Inv'
<1> USE DEF Inv, Types
<1>1. /\ up # <<>> /\ ~Head(up).copy /\ up' = Repeated(up)
      /\ UNCHANGED <<ctlVars, down, agtVars, log>>
  BY DEF RepeatUp
<1>0. left' \in [Happenings -> Nat] /\ left'["call"] = left["call"]
  BY SpendFacts DEF RepeatUp, Happenings
<1>8. LogTypes' /\ SameLog /\ log'.gapDown = log.gapDown /\ log'.gapUp = log.gapUp
  BY <1>1 DEF LogTypes, SameLog
<1>2. /\ CtlTypes' /\ SyncTypes' /\ CqTypes' /\ LogTypes' /\ SameLog
            /\ left'["call"] = left["call"]
      /\ ctl' = ctl
  BY <1>0, <1>1, <1>8 DEF CtlTypes, SyncTypes, CqTypes, ctlVars
<1>3. AgtTypes' /\ ArxTypes' /\ AqTypes' /\ Last' = Last
  BY <1>1, <1>2, AgentStays DEF SameLog
<1>4. /\ DownTypes' /\ DownOK' /\ Cmds' \subseteq Cmds
      /\ Calls(down, "COMMAND")' \subseteq Calls(down, "COMMAND")
      /\ Orderly(down, Last) => Orderly(down, Last)'
  BY <1>1, <1>2, <1>3, <1>8, DownStays
<1>5. /\ UpTypes' /\ UpOK' /\ Resps' \subseteq Resps
      /\ Calls(up, "RESPONSE")' \subseteq Calls(up, "RESPONSE")
  BY <1>1, <1>2, <1>8, UpRepeated DEF agtVars
<1>6. Shrinks
  BY <1>1, <1>2, <1>4, <1>5 DEF Shrinks, agtVars, ctlVars, SameLog
<1>7. Verdicts'
  BY <1>1, <1>2, VerdictsStay
<1> QED
  BY <1>2, <1>3, <1>4, <1>5, <1>6, <1>7, ShrinksKeeps

LEMMA CallTimesOutKeeps ==
    ASSUME Inv, NEW s \in Stream, CallTimesOut(s)
    PROVE  Inv'
<1> USE DEF Inv, Types
<1>1. /\ call' = [call EXCEPT ![s] = Idle]
      /\ log' = [log EXCEPT !.late = @ \cup {s}]
      /\ UNCHANGED <<ctl, cq, open, sync, down, up, agtVars>>
  BY DEF CallTimesOut
<1>0. left' \in [Happenings -> Nat] /\ left'["call"] = left["call"]
  BY SpendFacts DEF CallTimesOut, Happenings
<1>8. /\ LogTypes' /\ log'.late = log.late \cup {s} /\ log'.taken = log.taken
      /\ log'.restarted = log.restarted /\ log'.fresh = log.fresh /\ log'.mixed = log.mixed
      /\ log'.again = log.again /\ log'.dead = log.dead
      /\ log'.gapDown = log.gapDown /\ log'.gapUp = log.gapUp
  BY <1>1 DEF LogTypes
<1>9. /\ Idle \in [at : {"idle", "wait"}, req : [cmd : Command \cup {"NONE"}, n : Nat]]
      /\ Idle.at # "wait"
  BY DEF Idle, None
<1>2. /\ CtlTypes' /\ SyncTypes' /\ CqTypes' /\ left'["call"] = left["call"]
      /\ call'[s] = Idle /\ \A t \in Stream \ {s} : call'[t] = call[t]
  <2>1. call \in [Stream -> [at : {"idle", "wait"}, req : [cmd : Command \cup {"NONE"}, n : Nat]]]
    BY DEF CtlTypes
  <2>2. /\ call' \in [Stream -> [at : {"idle", "wait"}, req : [cmd : Command \cup {"NONE"}, n : Nat]]]
        /\ call'[s] = Idle /\ \A t \in Stream \ {s} : call'[t] = call[t]
    BY <1>1, <1>9, <2>1
  <2> QED
    BY <1>0, <1>1, <2>2 DEF CtlTypes, SyncTypes, CqTypes
<1>3. AgtTypes' /\ ArxTypes' /\ AqTypes' /\ Last' = Last
  BY <1>1, <1>8, AgentStays
<1>4. DownTypes' /\ DownOK' /\ Cmds' = Cmds /\ Calls(down, "COMMAND")' = Calls(down, "COMMAND")
      /\ (Orderly(down, Last)' <=> Orderly(down, Last))
  BY <1>1, <1>3, <1>8, DownStays
<1>5. UpTypes' /\ UpOK' /\ Resps' = Resps /\ Calls(up, "RESPONSE")' = Calls(up, "RESPONSE")
  BY <1>1, <1>8, UpStays DEF agtVars
<1>10. call'[Control] = call[Control] \/ call'[Control].at # "wait"
  BY <1>2, <1>9 DEF Stream
<1>6. Shrinks
  BY <1>1, <1>2, <1>4, <1>5, <1>8, <1>10 DEF Shrinks, agtVars
<1>7. Verdicts'
  BY <1>8 DEF Verdicts, Trusted
<1> QED
  BY <1>2, <1>3, <1>4, <1>5, <1>6, <1>7, <1>8, ShrinksKeeps

LEMMA ControllerDropsKeeps ==
    ASSUME Inv, ControllerDrops
    PROVE  Inv'
<1> USE DEF Inv, Types
<1>1. /\ up # <<>> /\ up' = Tail(up)
      /\ log' = [log EXCEPT !.fresh = @ \/ (~Head(up).copy /\ log.gapUp < SeqMod - 1), !.gapUp = 0]
      /\ UNCHANGED <<ctlVars, down, agtVars, left>>
  BY DEF ControllerDrops
<1>10. Head(up) = up[1] /\ up \in Seq(PacketSet)
  BY <1>1, TailPlaces DEF UpTypes
<1>11. up[1].seq = ctl.seen /\ up[1].type # "AGENT_START_NOTIFICATION"
  BY <1>10 DEF ControllerDrops, ControllerRepeated
<1>12. ~(~up[1].copy /\ log.gapUp < SeqMod - 1)
  BY <1>1, <1>10, <1>11, DroppedIsCopy DEF UpOK, CtlTypes, LogTypes
<1>8. /\ LogTypes' /\ log'.late = log.late /\ log'.taken = log.taken
      /\ log'.restarted = log.restarted /\ log'.mixed = log.mixed
      /\ log'.again = log.again /\ log'.dead = log.dead
      /\ log'.gapDown = log.gapDown /\ log'.gapUp = 0
      /\ log'.fresh = (log.fresh \/ (~Head(up).copy /\ log.gapUp < SeqMod - 1))
  BY <1>1 DEF LogTypes
<1>2. CtlTypes' /\ SyncTypes' /\ CqTypes' /\ ctl' = ctl
  BY <1>1 DEF CtlTypes, SyncTypes, CqTypes, ctlVars
<1>3. AgtTypes' /\ ArxTypes' /\ AqTypes' /\ Last' = Last
  BY <1>1, <1>8, AgentStays
<1>4. DownTypes' /\ DownOK' /\ Cmds' = Cmds /\ Calls(down, "COMMAND")' = Calls(down, "COMMAND")
      /\ (Orderly(down, Last)' <=> Orderly(down, Last))
  BY <1>1, <1>2, <1>3, <1>8, DownStays
<1>5. UpTypes' /\ UpOK' /\ Resps' \subseteq Resps
      /\ Calls(up, "RESPONSE")' \subseteq Calls(up, "RESPONSE")
  BY <1>1, <1>2, <1>8, <1>11, UpSeen DEF agtVars
<1>6. Shrinks
  BY <1>1, <1>4, <1>5, <1>8 DEF Shrinks, agtVars, ctlVars
<1>7. Verdicts'
  BY <1>8, <1>10, <1>12 DEF Verdicts, Trusted
<1> QED
  BY <1>2, <1>3, <1>4, <1>5, <1>6, <1>7, <1>8, ShrinksKeeps

\* What the agent's receive callback does to the agent's record.
LEMMA AgentTxTypes ==
    ASSUME AgtTypes, AqTypes, agt.on,
           agt' \in [on : BOOLEAN, seen : Seqno \cup {INVALID}, sent : Seqno \cup {INVALID}],
           agt'.on = agt.on, agt'.sent \in Seqno, UNCHANGED <<streams, task, aq>>
    PROVE  AgtTypes' /\ AqTypes'
BY DEF AgtTypes, AqTypes, Busy

\* The first packet to the agent.
LEMMA ArrivesFacts ==
    ASSUME Inv, NEW p, Arrives(p)
    PROVE  /\ agt.on /\ arx = <<>> /\ down # <<>> /\ p = down[1] /\ p = Head(down)
           /\ p \in PacketSet /\ p.type \in DownType /\ PacketFits(p)
           /\ Last = agt.seen
           /\ p.sid \in Stream /\ p.n \in Nat /\ p.seq \in Seqno /\ p.info \in Info
           /\ p.type = "COMMAND" => p.n \in Calls(down, "COMMAND")
<1>1. agt.on /\ arx = <<>> /\ down # <<>> /\ p = Head(down) /\ down \in Seq(PacketSet)
  BY DEF Arrives, Inv, Types, DownTypes
<1>2. Head(down) = down[1] /\ p \in PacketSet /\ Len(down) \in Nat \ {0}
  BY <1>1, TailPlaces
<1>3. p.type \in DownType /\ PacketFits(p) /\ 1 \in 1 .. Len(down)
  BY <1>1, <1>2 DEF Inv, Types, DownTypes
<1>4. p.sid \in Stream /\ p.n \in Nat /\ p.seq \in Seqno /\ p.info \in Info
  BY <1>2 DEF PacketSet
<1>5. p.type = "COMMAND" => p.n \in Calls(down, "COMMAND")
  BY <1>1, <1>2, <1>3 DEF Calls
<1>6. Last = agt.seen
  BY <1>1 DEF Last
<1> QED
  BY <1>1, <1>2, <1>3, <1>4, <1>5, <1>6

LEMMA AgentDropsKeeps ==
    ASSUME Inv, NEW p, AgentDrops(p)
    PROVE  Inv'
<1>0. /\ agt.on /\ arx = <<>> /\ down # <<>> /\ p = down[1] /\ Last = agt.seen
      /\ p.type \in DownType
  BY ArrivesFacts DEF AgentDrops, AgentReceives
<1> USE DEF Inv, Types
<1>1. /\ down' = Tail(down)
      /\ log' = [log EXCEPT !.fresh = @ \/ (~p.copy /\ log.gapDown < SeqMod - 1), !.gapDown = 0]
      /\ UNCHANGED <<ctlVars, up, agtVars, left>>
  BY DEF AgentDrops, AgentReceives
<1>11. down[1].seq = Last /\ down[1].type # "AGENT_START_NOTIFICATION"
  BY <1>0 DEF AgentDrops, AgentRepeated, DownType
<1>12. ~(~p.copy /\ log.gapDown < SeqMod - 1)
  BY <1>0, <1>11, DroppedIsCopy, LastSeqno DEF DownOK, DownTypes, LogTypes
<1>8. /\ LogTypes' /\ log'.late = log.late /\ log'.taken = log.taken
      /\ log'.restarted = log.restarted /\ log'.mixed = log.mixed
      /\ log'.again = log.again /\ log'.dead = log.dead
      /\ log'.gapDown = 0 /\ log'.gapUp = log.gapUp
      /\ log'.fresh = (log.fresh \/ (~p.copy /\ log.gapDown < SeqMod - 1))
  BY <1>1 DEF LogTypes
<1>2. CtlTypes' /\ SyncTypes' /\ CqTypes' /\ ctl' = ctl
  BY <1>1 DEF CtlTypes, SyncTypes, CqTypes, ctlVars
<1>3. AgtTypes' /\ ArxTypes' /\ AqTypes' /\ Last' = Last
  BY <1>1, <1>8, AgentStays
<1>4. DownTypes' /\ DownOK' /\ Cmds' \subseteq Cmds
      /\ Calls(down, "COMMAND")' \subseteq Calls(down, "COMMAND")
      /\ (Orderly(down, Last) => Orderly(down, Last)')
  BY <1>0, <1>1, <1>2, <1>3, <1>8, <1>11, DownSeen
<1>5. UpTypes' /\ UpOK' /\ Resps' = Resps /\ Calls(up, "RESPONSE")' = Calls(up, "RESPONSE")
  BY <1>1, <1>2, <1>8, UpStays DEF agtVars
<1>6. Shrinks
  BY <1>1, <1>4, <1>5, <1>8 DEF Shrinks, agtVars, ctlVars
<1>7. Verdicts'
  BY <1>8, <1>12 DEF Verdicts, Trusted
<1> QED
  BY <1>2, <1>3, <1>4, <1>5, <1>6, <1>7, <1>8, ShrinksKeeps

\* A packet that the agent answers at once and does not keep.
LEMMA AnsweredKeeps ==
    ASSUME Inv, NEW p, Arrives(p), down' = Tail(down),
           NEW ps, AgentTx(ps, p.seq),
           \/ ps = <<>>
           \/ \E a \in UnsentSet : ps = <<a>> /\ a.type \notin Numbered
           \/ \E a, b \in UnsentSet : ps = <<a, b>> /\ a.type \notin Numbered
                 /\ b.type \notin Numbered,
           LogTypes', SameLog, log'.gapDown = 0, log'.gapUp = log.gapUp,
           UNCHANGED <<ctlVars, aq, streams, task, arx, left>>
    PROVE  Inv'
<1>0. /\ agt.on /\ arx = <<>> /\ down # <<>> /\ p = down[1] /\ Last = agt.seen
            /\ p.seq \in Seqno
  BY ArrivesFacts
<1> USE DEF Inv, Types
<1>2. CtlTypes' /\ SyncTypes' /\ CqTypes' /\ ctl' = ctl
  BY DEF CtlTypes, SyncTypes, CqTypes, ctlVars
<1>5. /\ UpTypes' /\ UpOK' /\ Resps' \subseteq Resps
      /\ Calls(up, "RESPONSE")' \subseteq Calls(up, "RESPONSE")
      /\ agt' \in [on : BOOLEAN, seen : Seqno \cup {INVALID}, sent : Seqno \cup {INVALID}]
      /\ agt'.on = agt.on /\ agt'.seen = p.seq /\ agt'.sent \in Seqno
  BY <1>0, <1>2, AgentTxReports
<1>3. AgtTypes' /\ ArxTypes' /\ AqTypes' /\ Last' = p.seq
  BY <1>0, <1>5, AgentTxTypes DEF ArxTypes, Last
<1>4. DownTypes' /\ DownOK' /\ Cmds' \subseteq Cmds
      /\ Calls(down, "COMMAND")' \subseteq Calls(down, "COMMAND")
      /\ (Orderly(down, Last) => Orderly(down, Last)')
  BY <1>0, <1>2, <1>3, DownSeen
<1>6. Shrinks
  BY <1>4, <1>5 DEF Shrinks, ctlVars, SameLog
<1>7. Verdicts'
  BY VerdictsStay
<1> QED
  BY <1>2, <1>3, <1>4, <1>5, <1>6, <1>7, ShrinksKeeps

LEMMA LossReportIs ==
    ASSUME NEW p, p.sid \in Stream
    PROVE  \/ LossReport(p) = <<>>
           \/ \E a \in UnsentSet : LossReport(p) = <<a>> /\ a.type \notin Numbered
<1> DEFINE a == Packet("PACKET_LOSS_DETECTED", p.sid, "NONE", 0)
<1>1. "PACKET_LOSS_DETECTED" \in PacketType /\ "NONE" \in Info
  BY DEF PacketType, Info
<1> HIDE DEF a
<1>2. a \in UnsentSet /\ a.type = "PACKET_LOSS_DETECTED"
  BY <1>1, PacketFields DEF a
<1>3. LossReport(p) = <<>> \/ LossReport(p) = <<a>>
  BY DEF LossReport, a
<1> QED
  BY <1>2, <1>3 DEF Numbered

LEMMA TwoPackets ==
    ASSUME NEW S, NEW x \in S, NEW a \in S
    PROVE  <<x>> \o <<a>> = <<x, a>>
<1>1. <<x>> \in Seq(S) /\ <<x, a>> \in Seq(S) /\ <<a>> \in Seq(S)
  OBVIOUS
<1>2. \A q \in Seq(S) : q \o <<a>> = Append(q, a)
  OBVIOUS
<1>3. Append(<<x>>, a) = <<x, a>>
  <2> DEFINE p == Append(<<x>>, a)
             q == <<x, a>>
  <2>1. /\ p \in Seq(S) /\ Len(p) = 2 /\ p[1] = x /\ p[2] = a
        /\ q \in Seq(S) /\ Len(q) = 2 /\ q[1] = x /\ q[2] = a
    OBVIOUS
  <2> HIDE DEF p, q
  <2>2. \A i \in 1 .. Len(p) : p[i] = q[i]
    BY <2>1
  <2>3. p = q
    BY <2>1, <2>2
  <2> QED
    BY <2>3 DEF p, q
<1> QED
  BY <1>1, <1>2, <1>3

LEMMA AgentRefusesKeeps ==
    ASSUME Inv, NEW p, AgentRefuses(p)
    PROVE  Inv'
<1>1. Arrives(p) /\ p.sid \in Stream /\ down' = Tail(down)
  BY ArrivesFacts DEF AgentRefuses, AgentReceives
<1> DEFINE x == Packet("INVALID_STREAM", p.sid, "NONE", 0)
           ps == <<x>> \o LossReport(p)
<1>2. /\ AgentTx(ps, p.seq)
      /\ log' = [log EXCEPT !.twice = TRUE, !.gapDown = 0]
      /\ UNCHANGED <<ctlVars, aq, streams, task, arx, left>>
  BY DEF AgentRefuses
<1>3. LogTypes' /\ SameLog /\ log'.gapDown = 0 /\ log'.gapUp = log.gapUp
  BY <1>2 DEF Inv, Types, LogTypes, SameLog
<1>4. "INVALID_STREAM" \in PacketType /\ "NONE" \in Info
  BY DEF PacketType, Info
<1>5. x \in UnsentSet /\ x.type \notin Numbered
  <2> HIDE DEF x
  <2>1. x \in UnsentSet /\ x.type = "INVALID_STREAM"
    BY <1>1, <1>4, PacketFields DEF x
  <2> QED
    BY <2>1 DEF Numbered
<1> HIDE DEF x
<1>6. \/ \E a \in UnsentSet : ps = <<a>> /\ a.type \notin Numbered
      \/ \E a, b \in UnsentSet : ps = <<a, b>> /\ a.type \notin Numbered
            /\ b.type \notin Numbered
  <2>1. CASE LossReport(p) = <<>>
    <3>1. ps = <<x>>
      BY <2>1
    <3> QED
      BY <1>5, <3>1
  <2>2. ASSUME NEW a \in UnsentSet, LossReport(p) = <<a>>, a.type \notin Numbered
        PROVE  \E c, b \in UnsentSet : ps = <<c, b>> /\ c.type \notin Numbered
               /\ b.type \notin Numbered
    <3>2. <<x>> \o <<a>> = <<x, a>>
      BY <1>5, TwoPackets
    <3>3. LossReport(p) = <<a>>
      BY <2>2
    <3>1. ps = <<x, a>>
      BY <3>2, <3>3, Zenon
    <3> QED
      BY <1>5, <2>2, <3>1
  <2> QED
    BY <1>1, <2>1, <2>2, LossReportIs
<1> HIDE DEF ps
<1> QED
  BY <1>1, <1>2, <1>3, <1>6, AnsweredKeeps

LEMMA AgentSyncsKeeps ==
    ASSUME Inv, NEW p, AgentSyncs(p)
    PROVE  Inv'
<1>1. Arrives(p) /\ p.sid \in Stream /\ p.n \in Nat /\ down' = Tail(down)
  BY ArrivesFacts DEF AgentSyncs, AgentReceives
<1> DEFINE x == Packet("SYNC_RESP", p.sid, agt.seen, p.n)
<1>2. /\ AgentTx(<<x>>, p.seq)
      /\ log' = [log EXCEPT !.gapDown = 0]
      /\ UNCHANGED <<ctlVars, aq, streams, task, arx, left>>
  BY DEF AgentSyncs
<1>3. LogTypes' /\ SameLog /\ log'.gapDown = 0 /\ log'.gapUp = log.gapUp
  BY <1>2 DEF Inv, Types, LogTypes, SameLog
<1>4. "SYNC_RESP" \in PacketType /\ agt.seen \in Info
  <2>1. agt.seen \in Seqno \cup {INVALID}
    BY DEF Inv, Types, AgtTypes
  <2>2. agt.seen \in Nat
    BY <2>1, LinkAssumption DEF Seqno, INVALID
  <2> QED
    BY <2>2 DEF PacketType, Info
<1>5. x \in UnsentSet /\ x.type \notin Numbered
  <2> HIDE DEF x
  <2>1. x \in UnsentSet /\ x.type = "SYNC_RESP"
    BY <1>1, <1>4, PacketFields DEF x
  <2> QED
    BY <2>1 DEF Numbered
<1> HIDE DEF x
<1> QED
  BY <1>1, <1>2, <1>3, <1>5, AnsweredKeeps

LEMMA AgentEventKeeps ==
    ASSUME Inv, AgentEvent
    PROVE  Inv'
<1> USE DEF Inv, Types
<1> DEFINE x == Packet("EVENT", Control, "NONE", 0)
<1>1. /\ agt.on /\ AgentTx(<<x>>, agt.seen)
      /\ UNCHANGED <<ctlVars, down, aq, streams, task, arx, log>>
  BY DEF AgentEvent
<1>0. left' \in [Happenings -> Nat] /\ left'["call"] = left["call"]
  BY SpendFacts DEF AgentEvent, Happenings
<1>10. "EVENT" \in PacketType /\ "NONE" \in Info /\ Control \in Stream
  BY DEF PacketType, Info, Stream
<1>11. x \in UnsentSet /\ x.type \notin Numbered
  <2> HIDE DEF x
  <2>1. x \in UnsentSet /\ x.type = "EVENT"
    BY <1>10, PacketFields DEF x
  <2> QED
    BY <2>1 DEF Numbered
<1> HIDE DEF x
<1>2. CtlTypes' /\ SyncTypes' /\ CqTypes' /\ LogTypes' /\ ctl' = ctl
  BY <1>0, <1>1 DEF CtlTypes, SyncTypes, CqTypes, ctlVars, LogTypes
<1>5. /\ UpTypes' /\ UpOK' /\ Resps' \subseteq Resps
      /\ Calls(up, "RESPONSE")' \subseteq Calls(up, "RESPONSE")
      /\ agt' \in [on : BOOLEAN, seen : Seqno \cup {INVALID}, sent : Seqno \cup {INVALID}]
      /\ agt'.on = agt.on /\ agt'.seen = agt.seen /\ agt'.sent \in Seqno
  <2>1. agt.seen \in Seqno \cup {INVALID}
    BY DEF AgtTypes
  <2> QED
    BY <1>1, <1>2, <1>11, <2>1, AgentTxReports
<1>3. AgtTypes' /\ ArxTypes' /\ AqTypes' /\ Last' = Last
  BY <1>1, <1>5, AgentTxTypes DEF ArxTypes, Last
<1>4. DownTypes' /\ DownOK' /\ Cmds' = Cmds /\ Calls(down, "COMMAND")' = Calls(down, "COMMAND")
      /\ (Orderly(down, Last)' <=> Orderly(down, Last))
  BY <1>1, <1>2, <1>3, DownStays
<1>6. Shrinks
  BY <1>0, <1>1, <1>4, <1>5 DEF Shrinks, ctlVars
<1>7. Verdicts'
  BY <1>1, VerdictsStay DEF SameLog
<1> QED
  BY <1>2, <1>3, <1>4, <1>5, <1>6, <1>7, ShrinksKeeps

-----------------------------------------------------------------------------
(* The controller's receive callback, and the calls                        *)

\* Whatever the controller receives.
LEMMA ControllerRxFacts ==
    ASSUME Inv, ControllerRx
    PROVE  /\ up # <<>> /\ up[1] \in PacketSet /\ PacketFits(up[1])
           /\ up[1].type = "RESPONSE" => up[1].seq # ctl.seen /\ cq[up[1].sid] = <<>>
           /\ cq' = IF up[1].type = "RESPONSE" THEN [cq EXCEPT ![up[1].sid] = <<up[1]>>] ELSE cq
           /\ Socket \in open' => Socket \in open
           /\ UNCHANGED <<call, down, agtVars, left>>
           /\ CtlTypes' /\ SyncTypes' /\ LogTypes' /\ SameLog
           /\ AgtTypes' /\ ArxTypes' /\ AqTypes' /\ Last' = Last
           /\ DownTypes' /\ DownOK' /\ Cmds' = Cmds
           /\ Calls(down, "COMMAND")' = Calls(down, "COMMAND")
           /\ Orderly(down, Last)' <=> Orderly(down, Last)
           /\ UpTypes' /\ UpOK' /\ Resps' \subseteq Resps
           /\ Calls(up, "RESPONSE")' \subseteq Calls(up, "RESPONSE")
           /\ up[1].type = "RESPONSE" =>
                 /\ \A r \in Resps' : r.n # up[1].n
                 /\ up[1].n \in Calls(up, "RESPONSE")
                 /\ Item(up[1]) \in Resps
           /\ Verdicts'
<1> USE DEF Inv, Types
<1> DEFINE p == up[1]
<1>1. up # <<>> /\ Head(up) = p /\ p \in PacketSet /\ PacketFits(p) /\ up' = Tail(up)
  <2>1. up # <<>> /\ up' = Tail(up)
    BY DEF ControllerRx
  <2>2. Head(up) = up[1] /\ p \in PacketSet /\ Len(up) \in Nat \ {0}
    BY <2>1, TailPlaces DEF UpTypes
  <2>3. 1 \in 1 .. Len(up)
    BY <2>2
  <2> QED
    BY <2>1, <2>2, <2>3 DEF UpTypes
<1>2. p.n \in Nat /\ p.seq \in Seqno /\ p.sid \in Stream
  BY <1>1 DEF PacketSet
<1> HIDE DEF p
<1>3. /\ ~ControllerRepeated(p)
      /\ p.type = "RESPONSE" => cq[p.sid] = <<>>
      /\ IF p.type = "SYNC_RESP"
         THEN SyncResp(p)
         ELSE /\ ctl' = [ctl EXCEPT !.seen = p.seq]
              /\ log' = [log EXCEPT !.gapUp = 0,
                            !.started = @ \/ (p.type = "AGENT_START_NOTIFICATION" /\ p.n = 1)]
              /\ UNCHANGED sync
      /\ cq' = IF p.type = "RESPONSE" THEN [cq EXCEPT ![p.sid] = <<p>>] ELSE cq
      /\ open' = IF p.type = "AGENT_START_NOTIFICATION" THEN {Control} ELSE open
      /\ UNCHANGED <<call, down, agtVars, left>>
  BY <1>1 DEF ControllerRx
<1>4. p.type = "RESPONSE" => p.seq # ctl.seen
  BY <1>3 DEF ControllerRepeated
<1>5. (Socket \in open' => Socket \in open) /\ open' \subseteq Stream
  BY <1>3 DEF CtlTypes, Stream, Socket, Control
<1>6. /\ ctl' \in [seen : Seqno \cup {INVALID}, sent : Seqno \cup {INVALID},
                   token : Nat, status : {"NONE", "TIMEOUT", "OK"}]
      /\ ctl'.seen = p.seq /\ ctl'.sent = ctl.sent
  <2>1. CASE p.type = "SYNC_RESP"
    <3>1. ctl' = IF p.n = ctl.token
                 THEN [ctl EXCEPT !.seen = p.seq, !.status = "OK", !.token = 0]
                 ELSE [ctl EXCEPT !.seen = p.seq]
      BY <1>3, <2>1 DEF SyncResp
    <3>2. CASE p.n = ctl.token
      <4>1. ctl' = [ctl EXCEPT !.seen = p.seq, !.status = "OK", !.token = 0]
        BY <3>1, <3>2
      <4> QED
        BY <1>2, <4>1 DEF CtlTypes
    <3>3. CASE p.n # ctl.token
      <4>1. ctl' = [ctl EXCEPT !.seen = p.seq]
        BY <3>1, <3>3
      <4> QED
        BY <1>2, <4>1 DEF CtlTypes
    <3> QED
      BY <3>2, <3>3
  <2>2. CASE p.type # "SYNC_RESP"
    BY <1>2, <1>3, <2>2 DEF CtlTypes
  <2> QED
    BY <2>1, <2>2
<1>7. LogTypes' /\ SameLog /\ log'.gapDown = log.gapDown /\ log'.gapUp = 0
  <2>1. CASE p.type = "SYNC_RESP"
    <3>1. log' = [log EXCEPT !.gapUp = 0,
              !.outOfSync = @ \/ (p.n = ctl.token /\ ctl.sent = sync.seq /\ p.info # ctl.sent)]
      BY <1>3, <2>1 DEF SyncResp
    <3> QED
      BY <3>1 DEF LogTypes, SameLog
  <2>2. CASE p.type # "SYNC_RESP"
    <3>1. log' = [log EXCEPT !.gapUp = 0,
              !.started = @ \/ (p.type = "AGENT_START_NOTIFICATION" /\ p.n = 1)]
      BY <1>3, <2>2
    <3> QED
      BY <3>1 DEF LogTypes, SameLog
  <2> QED
    BY <2>1, <2>2
<1>8. SyncTypes'
  <2>1. CASE p.type = "SYNC_RESP"
    BY <1>3, <2>1 DEF SyncResp, SyncTypes
  <2>2. CASE p.type # "SYNC_RESP"
    BY <1>3, <2>2 DEF SyncTypes
  <2> QED
    BY <2>1, <2>2
<1>9. CtlTypes'
  BY <1>3, <1>5, <1>6 DEF CtlTypes
<1>10. AgtTypes' /\ ArxTypes' /\ AqTypes' /\ Last' = Last
  BY <1>3, <1>7, AgentStays DEF SameLog
<1>11. DownTypes' /\ DownOK' /\ Cmds' = Cmds /\ Calls(down, "COMMAND")' = Calls(down, "COMMAND")
       /\ (Orderly(down, Last)' <=> Orderly(down, Last))
  BY <1>3, <1>6, <1>7, <1>10, DownStays
<1>12. /\ UpTypes' /\ UpOK' /\ Resps' \subseteq Resps
       /\ Calls(up, "RESPONSE")' \subseteq Calls(up, "RESPONSE")
       /\ p.type = "RESPONSE" => /\ \A r \in Resps' : r.n # p.n
                                 /\ p.n \in Calls(up, "RESPONSE")
                                 /\ Item(p) \in Resps
  BY <1>1, <1>3, <1>4, <1>6, <1>7, UpSeen DEF agtVars, p
<1>13. Verdicts'
  BY <1>7, VerdictsStay
<1> QED
  BY <1>1, <1>3, <1>4, <1>5, <1>7, <1>8, <1>9, <1>10, <1>11, <1>12, <1>13 DEF p

LEMMA ControllerRxKeeps ==
    ASSUME Inv, ControllerRx
    PROVE  Inv'
<1> DEFINE p == up[1]
           s == up[1].sid
<1>1. /\ p \in PacketSet /\ PacketFits(p)
      /\ p.type = "RESPONSE" => cq[s] = <<>>
      /\ cq' = IF p.type = "RESPONSE" THEN [cq EXCEPT ![s] = <<p>>] ELSE cq
      /\ Socket \in open' => Socket \in open
      /\ UNCHANGED <<call, down, agtVars, left>>
      /\ SameLog
      /\ Cmds' = Cmds
      /\ Calls(down, "COMMAND")' = Calls(down, "COMMAND")
      /\ Orderly(down, Last)' <=> Orderly(down, Last)
      /\ Resps' \subseteq Resps
      /\ Calls(up, "RESPONSE")' \subseteq Calls(up, "RESPONSE")
      /\ p.type = "RESPONSE" => /\ \A r \in Resps' : r.n # p.n
                                /\ p.n \in Calls(up, "RESPONSE")
                                /\ Item(p) \in Resps
  BY ControllerRxFacts
<1>2. /\ CtlTypes' /\ SyncTypes' /\ LogTypes' /\ AgtTypes' /\ ArxTypes' /\ AqTypes'
      /\ DownTypes' /\ DownOK' /\ UpTypes' /\ UpOK' /\ Verdicts'
  BY ControllerRxFacts
<1> HIDE DEF p
<1> USE DEF Inv, Types
<1>3. CASE p.type # "RESPONSE"
  <2>1. CqTypes'
    BY <1>1, <1>3 DEF CqTypes
  <2>2. Shrinks
    BY <1>1, <1>3 DEF Shrinks, agtVars, SameLog
  <2> QED
    BY <1>2, <2>1, <2>2, ShrinksKeeps
<1>4. CASE p.type = "RESPONSE"
  <2>0. p = up[1] /\ s \in Stream /\ p.sid = s
    BY <1>1 DEF PacketSet, p
  <2> HIDE DEF s
  <2>1. cq'[s] = <<p>> /\ \A t \in Stream \ {s} : cq'[t] = cq[t]
    BY <1>1, <1>4, <2>0 DEF CqTypes
  <2>3. <<p>> # <<>> /\ <<p>>[1] = p
    OBVIOUS
  <2>2. CqTypes'
    <3> HIDE DEF PacketSet
    <3> QED
      BY <1>1, <1>4, <2>0, <2>1, <2>3 DEF CqTypes
  <2>4. /\ Item(p).sid = s /\ Item(p).n = p.n /\ Item(p).info = p.info
        /\ Item(p) \in Resps /\ cq[s] = <<>>
    BY <1>1, <1>4, <2>0, ItemFields
  <2>5. /\ arx' = arx /\ aq' = aq /\ task' = task /\ streams' = streams /\ call' = call
              /\ left' = left
        /\ log'.taken = log.taken /\ log'.late = log.late /\ log'.restarted = log.restarted
    BY <1>1 DEF agtVars, SameLog
  <2>6. NumbersDown'
    BY <1>1, <2>5 DEF NumbersDown, Queued
  <2>7. NumbersUp'
    BY <1>1, <1>4, <2>1, <2>3, <2>5 DEF NumbersUp, Busy
  <2>8. Own'
    <3> SUFFICES ASSUME NEW t \in Stream \ log.late
                 PROVE  /\ \A r \in Resps' : r.sid = t => Mine(t, r.n)' /\ cq'[t] = <<>>
                        /\ cq'[t] # <<>> => Mine(t, cq[t][1].n)'
      BY <1>1, <2>5 DEF Own, Mine, Queued, Busy
    <3>1. CASE t = s
      <4>1. Mine(s, p.n)
        BY <2>4, <3>1 DEF Own
      <4>2. \A r \in Resps' : r.sid # s
        BY <1>1, <1>4, <3>1, <4>1 DEF Own, Mine
      <4> QED
        BY <2>1, <2>3, <2>5, <3>1, <4>1, <4>2 DEF Mine
    <3>2. CASE t # s
      BY <1>1, <2>1, <2>5, <3>2 DEF Own, Mine
    <3> QED
      BY <3>1, <3>2
  <2>9. (OpenReturning' => OpenReturning \/ p.info = "OPEN") /\ (Opened' => Opened)
    <3>1. OpenReturning' => OpenReturning \/ p.info = "OPEN"
      BY <2>1, <2>3 DEF OpenReturning, Stream
    <3> QED
      BY <1>1, <2>4, <3>1 DEF Opened
  <2>10. (\A n : CloseSent(n)' <=> CloseSent(n)) /\ (Closing' <=> Closing)
         /\ (Trusted' <=> Trusted)
    BY <1>1, <2>5 DEF CloseSent, Closing, Trusted, Queued, Busy
  <2>11. OneOwner => OneOwner'
    <3> SUFFICES ASSUME OneOwner
                 PROVE  OneOwner'
      OBVIOUS
    <3>1. OpenReturning' => \A r \in Resps' : r.info # "OPEN"
      BY <1>1, <1>4, <2>4, <2>9 DEF OneOwner
    <3> QED
      BY <1>1, <2>9, <2>10, <3>1 DEF OneOwner
  <2>12. UseBeforeClose => UseBeforeClose'
    BY <1>1, <2>5, <2>10 DEF UseBeforeClose, Queued, Busy
  <2>13. NobodyOwns => NobodyOwns'
    BY <1>1, <2>9, <2>10 DEF NobodyOwns
  <2>14. Token'
    BY <1>1, <2>5, <2>10, <2>11, <2>12, <2>13 DEF Token
  <2> QED
    BY <1>2, <2>2, <2>6, <2>7, <2>8, <2>14
<1> QED
  BY <1>3, <1>4

\* What the live items are.
LEMMA CmdsAre ==
    ASSUME DownTypes, NEW c \in Cmds
    PROVE  c.n \in Calls(down, "COMMAND") /\ c.n \in Nat /\ c.sid \in Stream
           /\ CommandOK(c.sid, c.info)
<1>1. PICK i \in LiveAt(down, Last, "COMMAND") : c = Item(down[i])
  BY LiveElim DEF Cmds
<1>2. i \in 1 .. Len(down) /\ down[i].type = "COMMAND" /\ PacketFits(down[i])
      /\ down[i] \in PacketSet
  <2> HIDE DEF PacketSet
  <2> QED
    BY DEF LiveAt, DownTypes
<1>3. c.n = down[i].n /\ c.sid = down[i].sid /\ c.info = down[i].info
  BY <1>1, ItemFields
<1>4. down[i].n \in Calls(down, "COMMAND")
  BY <1>2 DEF Calls
<1> QED
  BY <1>2, <1>3, <1>4 DEF PacketSet, PacketFits

LEMMA RespsAre ==
    ASSUME UpTypes, NEW r \in Resps
    PROVE  r.n \in Calls(up, "RESPONSE") /\ (r.info = "OPEN" => r.sid = Control)
<1>1. PICK i \in LiveAt(up, ctl.seen, "RESPONSE") : r = Item(up[i])
  BY LiveElim DEF Resps
<1>2. i \in 1 .. Len(up) /\ up[i].type = "RESPONSE" /\ PacketFits(up[i])
  BY DEF LiveAt, UpTypes
<1>3. r.n = up[i].n /\ r.sid = up[i].sid /\ r.info = up[i].info
  BY <1>1, ItemFields
<1> QED
  BY <1>2, <1>3 DEF PacketFits, Calls

LEMMA CallsNat ==
    ASSUME NEW q \in Seq(PacketSet), NEW type
    PROVE  Calls(q, type) \subseteq Nat
<1>1. \A i \in 1 .. Len(q) : q[i] \in PacketSet
  <2> HIDE DEF PacketSet
  <2> QED
    OBVIOUS
<1> QED
  BY <1>1 DEF Calls, PacketSet

\* The numbers of what the agent holds.
LEMMA HeldNat ==
    ASSUME AgtTypes, ArxTypes, AqTypes
    PROVE  /\ arx # <<>> => arx[1] \in PacketSet /\ arx[1].n \in Nat /\ arx[1].sid \in Stream
           /\ \A s \in Stream : Queued(s) => aq[s][1].n \in Nat
           /\ \A s \in Stream : task[s].req.n \in Nat
<1>1. arx # <<>> => arx[1] \in PacketSet
  <2> HIDE DEF PacketSet
  <2> QED
    BY DEF ArxTypes
<1>2. \A s \in Stream : Queued(s) => aq[s][1] \in PacketSet
  BY DEF Queued, AqTypes
<1> QED
  BY <1>1, <1>2 DEF PacketSet, AgtTypes

\* While the application may use the socket, no CLOSE is on its way.
LEMMA NoCloseItems ==
    ASSUME DownTypes, AgtTypes, ArxTypes, AqTypes, \A n \in Nat : ~CloseSent(n)
    PROVE  /\ \A c \in Cmds : c.info # "CLOSE"
           /\ arx # <<>> => arx[1].info # "CLOSE"
           /\ Queued(Control) => aq[Control][1].info # "CLOSE"
           /\ Busy(Control) => task[Control].req.cmd # "CLOSE"
BY CmdsAre, HeldNat DEF CloseSent, Stream

LEMMA CallKeeps ==
    ASSUME Inv, NEW s \in Stream, NEW cmd \in Command, Call(s, cmd)
    PROVE  Inv'
<1> USE DEF Inv, Types
<1> DEFINE n == left["call"]
           p == Packet("COMMAND", s, cmd, n)
<1>1. /\ call[s].at = "idle"
      /\ IF cmd = "OTHER" THEN s \in open ELSE s = Control
      /\ cmd = "OPEN" => Socket \notin open
      /\ cmd = "CLOSE" => Socket \in open
      /\ ControllerTx(p)
      /\ call' = [call EXCEPT ![s] = [at |-> "wait", req |-> [cmd |-> cmd, n |-> n]]]
      /\ open' = IF cmd = "CLOSE" THEN open \ {Socket} ELSE open
      /\ UNCHANGED <<cq, sync, up, agtVars, log>>
  BY DEF Call
<1>2. left' \in [Happenings -> Nat] /\ n \in Nat \ {0} /\ left'["call"] = n - 1
  BY SpendFacts DEF Call, Happenings
<1>3. Control # Socket /\ Control \in Stream /\ Socket \in Stream
  BY DEF Control, Socket, Stream
<1>4. p \in UnsentSet /\ p.type = "COMMAND" /\ p.sid = s /\ p.info = cmd /\ p.n = n
  <2>1. "COMMAND" \in PacketType /\ cmd \in Info
    BY DEF PacketType, Info
  <2> HIDE DEF p, n
  <2> QED
    BY <1>2, <2>1, PacketFields DEF p
<1> HIDE DEF p
<1>5. CommandOK(s, cmd) /\ PacketFits(p) /\ p.type \in DownType
  BY <1>1, <1>3, <1>4 DEF CommandOK, PacketFits, DownType
<1>6. Item(p).sid = s /\ Item(p).info = cmd /\ Item(p).n = n
  BY <1>4, ItemFields
<1>7. Calls(down, "COMMAND") \subseteq Nat /\ \A m \in Calls(down, "COMMAND") : m > n
  BY CallsNat DEF DownTypes, NumbersDown
<1>8. n \notin Calls(down, "COMMAND") /\ n \notin log.taken
  BY <1>2, <1>7 DEF NumbersUp, LogTypes
<1> HIDE DEF n
<1>10. /\ DownTypes' /\ DownOK'
       /\ \A c \in Cmds' : c \in Cmds \/ c = Item(p)
       /\ \A m \in Calls(down, "COMMAND")' : m \in Calls(down, "COMMAND") \/ m = n
       /\ s # Socket \/ (\A c \in Cmds : c.info # "CLOSE")
             => (Orderly(down, Last) => Orderly(down, Last)')
       /\ ctl'.seen = ctl.seen
       /\ ctl' \in [seen : Seqno \cup {INVALID}, sent : Seqno \cup {INVALID},
                    token : Nat, status : {"NONE", "TIMEOUT", "OK"}]
  BY <1>1, <1>4, <1>5, <1>8, ControllerTxFacts DEF agtVars
<1>11. AgtTypes' /\ ArxTypes' /\ AqTypes' /\ Last' = Last
  BY <1>1, AgentStays
<1>12. UpTypes' /\ UpOK' /\ Resps' = Resps /\ Calls(up, "RESPONSE")' = Calls(up, "RESPONSE")
  BY <1>1, <1>10, UpStays DEF agtVars
<1>13. /\ call'[s].at = "wait" /\ call'[s].req.cmd = cmd /\ call'[s].req.n = n
       /\ \A t \in Stream \ {s} : call'[t] = call[t]
       /\ call' \in [Stream -> [at : {"idle", "wait"}, req : [cmd : Command \cup {"NONE"}, n : Nat]]]
  <2> DEFINE new == [at |-> "wait", req |-> [cmd |-> cmd, n |-> n]]
  <2>1. /\ new.at = "wait" /\ new.req.cmd = cmd /\ new.req.n = n
        /\ new \in [at : {"idle", "wait"}, req : [cmd : Command \cup {"NONE"}, n : Nat]]
    BY <1>2
  <2> HIDE DEF new
  <2>2. call' = [call EXCEPT ![s] = new]
    BY <1>1 DEF new
  <2> QED
    BY <2>1, <2>2 DEF CtlTypes
<1>14. CtlTypes' /\ SyncTypes' /\ CqTypes' /\ LogTypes' /\ Verdicts'
  <2>1. open' \subseteq Stream
    BY <1>1 DEF CtlTypes
  <2>2. CtlTypes'
    BY <1>2, <1>10, <1>13, <2>1 DEF CtlTypes
  <2>3. SyncTypes' /\ CqTypes' /\ LogTypes' /\ Verdicts'
    BY <1>1 DEF SyncTypes, CqTypes, LogTypes, Verdicts, Trusted
  <2> QED
    BY <2>2, <2>3
<1>15. /\ arx' = arx /\ aq' = aq /\ task' = task /\ streams' = streams /\ cq' = cq /\ log' = log
  BY <1>1 DEF agtVars
<1>16. /\ arx # <<>> => arx[1].n \in Nat /\ arx[1].n > n
       /\ \A t \in Stream : Queued(t) => aq[t][1].n \in Nat /\ aq[t][1].n > n
       /\ \A m \in log.taken : m \in Nat /\ m > n
  BY HeldNat DEF n, NumbersDown, NumbersUp, LogTypes
<1>17. NumbersDown'
  <2>1. \A m \in Calls(down, "COMMAND")' : m > n - 1
    BY <1>2, <1>7, <1>10
  <2>2. \A c \in Cmds' : c.n \notin log.taken
    BY <1>6, <1>8, <1>10 DEF NumbersDown
  <2>3. arx # <<>> => /\ arx[1].n > n - 1 /\ arx[1].n \notin log.taken
                      /\ \A c \in Cmds' : c.n # arx[1].n
    BY <1>2, <1>6, <1>10, <1>16 DEF NumbersDown
  <2>4. \A t \in Stream : Queued(t) =>
           /\ aq[t][1].n > n - 1 /\ aq[t][1].n \notin log.taken
           /\ \A c \in Cmds' : c.n # aq[t][1].n
           /\ arx # <<>> => arx[1].n # aq[t][1].n
    BY <1>2, <1>6, <1>10, <1>16 DEF NumbersDown
  <2> QED
    BY <1>2, <1>15, <2>1, <2>2, <2>3, <2>4 DEF NumbersDown, Queued
<1>18. NumbersUp'
  <2>1. \A m \in log.taken : m > n - 1
    BY <1>2, <1>16
  <2> QED
    BY <1>2, <1>12, <1>15, <2>1 DEF NumbersUp, Busy
<1>19. Own'
  <2> SUFFICES ASSUME NEW t \in Stream \ log.late
               PROVE  /\ \A c \in Cmds' : c.sid = t => Mine(t, c.n)'
                            /\ c.info = call'[t].req.cmd
                      /\ arx # <<>> /\ arx[1].sid = t =>
                            Mine(t, arx[1].n)' /\ arx[1].info = call'[t].req.cmd
                      /\ Queued(t) => Mine(t, aq[t][1].n)' /\ aq[t][1].info = call'[t].req.cmd
                      /\ Busy(t) => Mine(t, task[t].req.n)'
                            /\ task[t].req.cmd = call'[t].req.cmd
                      /\ \A r \in Resps : r.sid = t => Mine(t, r.n)' /\ cq[t] = <<>>
                      /\ cq[t] # <<>> => Mine(t, cq[t][1].n)'
    BY <1>12, <1>15 DEF Own, Mine, Queued, Busy
  <2>1. CASE t = s
    <3>1. \A m : ~Mine(t, m)
      BY <1>1, <2>1 DEF Mine
    <3>2. /\ \A c \in Cmds : c.sid # t
          /\ ~(arx # <<>> /\ arx[1].sid = t) /\ ~Queued(t) /\ ~Busy(t)
          /\ \A r \in Resps : r.sid # t
          /\ cq[t] = <<>>
      BY <3>1 DEF Own
    <3> QED
      BY <1>6, <1>10, <1>13, <2>1, <3>2 DEF Mine
  <2>2. CASE t # s
    <3>1. call'[t] = call[t]
      BY <1>13, <2>2
    <3>2. \A c \in Cmds' : c.sid = t => c \in Cmds
      BY <1>6, <1>10, <2>2
    <3> QED
      BY <1>15, <3>1, <3>2 DEF Own, Mine
  <2> QED
    BY <2>1, <2>2
<1>20. call'[Control].at = "wait" /\ call'[Control].req.cmd = "OPEN" => Socket \notin open'
  <2>1. CASE s = Control
    BY <1>1, <1>13, <2>1
  <2>2. CASE s # Control
    <3>1. call'[Control] = call[Control]
      BY <1>3, <1>13, <2>2
    <3> QED
      BY <1>1, <2>2, <3>1 DEF Token
  <2> QED
    BY <2>1, <2>2
<1>21. ASSUME Trusted, OneOwner, UseBeforeClose,
              ~log.restarted /\ Socket \notin streams => NobodyOwns
       PROVE  OneOwner' /\ UseBeforeClose'
              /\ (~log.restarted /\ Socket \notin streams => NobodyOwns')
  <2>1. (Opened' <=> Opened) /\ (OpenReturning' <=> OpenReturning) /\ (Closing' <=> Closing)
    BY <1>12, <1>15 DEF Opened, OpenReturning, Closing
  <2>2. \A m : CloseSent(m)' => CloseSent(m) \/ (cmd = "CLOSE" /\ m = n)
    BY <1>6, <1>10, <1>15 DEF CloseSent, Queued, Busy
  <2>3. /\ cmd = "CLOSE" => Socket \notin open' /\ ~Opened /\ ~Closing
              /\ \A m \in Nat : ~CloseSent(m)
        /\ cmd # "CLOSE" => open' = open
    BY <1>1, <1>21 DEF OneOwner
  <2>4. OneOwner'
    <3>1. CASE cmd = "CLOSE"
      BY <1>12, <2>1, <2>2, <2>3, <3>1 DEF OneOwner, Opened
    <3>2. CASE cmd # "CLOSE"
      BY <1>12, <1>21, <2>1, <2>2, <2>3, <3>2 DEF OneOwner
    <3> QED
      BY <3>1, <3>2
  <2>5. UseBeforeClose'
    <3>1. CASE s = Socket
      <4>1. Socket \in open /\ cmd = "OTHER"
        BY <1>1, <1>3, <3>1
      <4>2. ~Closing /\ \A m \in Nat : ~CloseSent(m)
        BY <1>21, <4>1 DEF OneOwner
      <4>3. /\ \A c \in Cmds : c.info # "CLOSE"
            /\ arx # <<>> => arx[1].info # "CLOSE"
            /\ Queued(Control) => aq[Control][1].info # "CLOSE"
            /\ Busy(Control) => task[Control].req.cmd # "CLOSE"
        BY <4>2, NoCloseItems
      <4> QED
        BY <1>10, <1>15, <1>21, <2>1, <4>2, <4>3 DEF UseBeforeClose, Queued, Busy
    <3>2. CASE s # Socket
      <4>1. \A c \in Cmds' : c.sid = Socket => c \in Cmds
        BY <1>6, <1>10, <3>2
      <4> QED
        BY <1>10, <1>15, <1>21, <2>1, <3>2, <4>1 DEF UseBeforeClose, Queued, Busy
    <3> QED
      BY <3>1, <3>2
  <2>6. NobodyOwns => NobodyOwns'
    BY <1>1, <2>1, <2>2, <2>3 DEF NobodyOwns
  <2> QED
    BY <1>21, <2>4, <2>5, <2>6
<1>22. Token'
  BY <1>15, <1>20, <1>21 DEF Token, Trusted
<1> QED
  BY <1>10, <1>11, <1>12, <1>14, <1>17, <1>18, <1>19, <1>22

LEMMA CallReturnsKeeps ==
    ASSUME Inv, NEW s \in Stream, CallReturns(s)
    PROVE  Inv'
<1> USE DEF Inv, Types
<1> DEFINE p == cq[s][1]
           ok == p.info = call[s].req.cmd
<1>1. /\ call[s].at = "wait" /\ cq[s] # <<>>
      /\ cq' = [cq EXCEPT ![s] = <<>>]
      /\ call' = [call EXCEPT ![s] = Idle]
      /\ open' = IF ok /\ p.info = "OPEN" THEN open \cup {Socket} ELSE open
      /\ log' = [log EXCEPT !.stale = @ \/ (ok /\ p.n # call[s].req.n),
                            !.mixed = @ \/ (p.n # call[s].req.n /\ s \notin log.late)]
      /\ UNCHANGED <<ctl, sync, down, up, agtVars, left>>
  BY DEF CallReturns
<1>2. Control # Socket /\ Control \in Stream /\ Socket \in Stream
  BY DEF Control, Socket, Stream
<1>3. p.info = "OPEN" => s = Control
  BY <1>1 DEF CqTypes, PacketFits
<1> HIDE DEF ok
<1>4. s \notin log.late => Mine(s, p.n)
  BY <1>1 DEF Own
<1>5. ~(p.n # call[s].req.n /\ s \notin log.late)
  BY <1>4 DEF Mine
<1>6. /\ LogTypes' /\ log'.late = log.late /\ log'.taken = log.taken
      /\ log'.restarted = log.restarted /\ log'.fresh = log.fresh
      /\ log'.mixed = (log.mixed \/ (p.n # call[s].req.n /\ s \notin log.late))
      /\ log'.again = log.again /\ log'.dead = log.dead
      /\ log'.gapDown = log.gapDown /\ log'.gapUp = log.gapUp
  <2> HIDE DEF p
  <2> QED
    BY <1>1 DEF LogTypes
<1>7. Verdicts'
  BY <1>5, <1>6 DEF Verdicts, Trusted
<1>8. /\ Idle \in [at : {"idle", "wait"}, req : [cmd : Command \cup {"NONE"}, n : Nat]]
      /\ Idle.at # "wait"
  BY DEF Idle, None
<1>9. /\ call'[s] = Idle /\ \A t \in Stream \ {s} : call'[t] = call[t]
      /\ call' \in [Stream -> [at : {"idle", "wait"}, req : [cmd : Command \cup {"NONE"}, n : Nat]]]
  <2>1. call \in [Stream -> [at : {"idle", "wait"}, req : [cmd : Command \cup {"NONE"}, n : Nat]]]
    BY DEF CtlTypes
  <2> QED
    BY <1>1, <1>8, <2>1
<1>10. CtlTypes' /\ SyncTypes'
  BY <1>1, <1>2, <1>9 DEF CtlTypes, SyncTypes
<1>11. cq'[s] = <<>> /\ \A t \in Stream \ {s} : cq'[t] = cq[t]
  BY <1>1 DEF CqTypes
<1>12. CqTypes'
  <2> HIDE DEF PacketSet
  <2>1. cq' \in [Stream -> Seq(PacketSet)]
    BY <1>1 DEF CqTypes
  <2> QED
    BY <1>11, <2>1 DEF CqTypes
<1>13. AgtTypes' /\ ArxTypes' /\ AqTypes' /\ Last' = Last
  BY <1>1, <1>6, AgentStays
<1>14. DownTypes' /\ DownOK' /\ Cmds' = Cmds /\ Calls(down, "COMMAND")' = Calls(down, "COMMAND")
       /\ (Orderly(down, Last)' <=> Orderly(down, Last))
  BY <1>1, <1>6, <1>13, DownStays
<1>15. UpTypes' /\ UpOK' /\ Resps' = Resps /\ Calls(up, "RESPONSE")' = Calls(up, "RESPONSE")
  BY <1>1, <1>6, UpStays DEF agtVars
<1>16. arx' = arx /\ aq' = aq /\ task' = task /\ streams' = streams /\ left' = left
  BY <1>1 DEF agtVars
<1>17. NumbersDown'
  BY <1>6, <1>14, <1>16 DEF NumbersDown, Queued
<1>18. NumbersUp'
  BY <1>6, <1>11, <1>15, <1>16 DEF NumbersUp, Busy
<1>19. Own'
  <2> SUFFICES ASSUME NEW t \in Stream \ log.late
               PROVE  /\ \A c \in Cmds : c.sid = t => Mine(t, c.n)' /\ c.info = call'[t].req.cmd
                      /\ arx # <<>> /\ arx[1].sid = t =>
                            Mine(t, arx[1].n)' /\ arx[1].info = call'[t].req.cmd
                      /\ Queued(t) => Mine(t, aq[t][1].n)' /\ aq[t][1].info = call'[t].req.cmd
                      /\ Busy(t) => Mine(t, task[t].req.n)'
                            /\ task[t].req.cmd = call'[t].req.cmd
                      /\ \A r \in Resps : r.sid = t => Mine(t, r.n)' /\ cq'[t] = <<>>
                      /\ cq'[t] # <<>> => Mine(t, cq[t][1].n)'
    BY <1>6, <1>14, <1>15, <1>16 DEF Own, Mine, Queued, Busy
  <2>1. CASE t = s
    <3>1. call[s].req.n = p.n /\ p.n \in log.taken /\ (Busy(s) => p.n # task[s].req.n)
      BY <1>1, <1>4, <2>1 DEF Mine, NumbersUp
    <3>2. /\ \A c \in Cmds : c.sid # t
          /\ ~(arx # <<>> /\ arx[1].sid = t) /\ ~Queued(t)
      BY <2>1, <3>1 DEF Own, Mine, NumbersDown
    <3>3. ~Busy(t) /\ \A r \in Resps : r.sid # t
      BY <1>1, <2>1, <3>1 DEF Own, Mine
    <3> QED
      BY <1>11, <2>1, <3>2, <3>3
  <2>2. CASE t # s
    <3>1. call'[t] = call[t] /\ cq'[t] = cq[t]
      BY <1>9, <1>11, <2>2
    <3>2. /\ \A c \in Cmds : c.sid = t => Mine(t, c.n) /\ c.info = call[t].req.cmd
          /\ arx # <<>> /\ arx[1].sid = t => Mine(t, arx[1].n) /\ arx[1].info = call[t].req.cmd
          /\ Queued(t) => Mine(t, aq[t][1].n) /\ aq[t][1].info = call[t].req.cmd
          /\ Busy(t) => Mine(t, task[t].req.n) /\ task[t].req.cmd = call[t].req.cmd
          /\ \A r \in Resps : r.sid = t => Mine(t, r.n) /\ cq[t] = <<>>
          /\ cq[t] # <<>> => Mine(t, cq[t][1].n)
      BY DEF Own
    <3> QED
      BY <1>16, <3>1, <3>2 DEF Mine
  <2> QED
    BY <2>1, <2>2
<1>20. call'[Control].at = "wait" /\ call'[Control].req.cmd = "OPEN" => Socket \notin open'
  <2>1. CASE s = Control
    BY <1>8, <1>9, <2>1
  <2>2. CASE s # Control
    <3>1. call'[Control] = call[Control] /\ open' = open
      BY <1>1, <1>2, <1>3, <1>9, <2>2
    <3> QED
      BY <3>1 DEF Token
  <2> QED
    BY <2>1, <2>2
<1>21. ASSUME Trusted, OneOwner, UseBeforeClose,
              ~log.restarted /\ Socket \notin streams => NobodyOwns
       PROVE  OneOwner' /\ UseBeforeClose'
              /\ (~log.restarted /\ Socket \notin streams => NobodyOwns')
  <2>1. (OpenReturning' => OpenReturning) /\ (Opened' => Opened) /\ (Closing' <=> Closing)
    <3>1. OpenReturning' => OpenReturning
      BY <1>2, <1>11 DEF OpenReturning
    <3> QED
      BY <1>15, <1>16, <3>1 DEF Opened, Closing
  <2>2. \A m : CloseSent(m)' <=> CloseSent(m)
    BY <1>14, <1>16 DEF CloseSent, Queued, Busy
  <2>3. UseBeforeClose'
    BY <1>14, <1>16, <1>21, <2>1 DEF UseBeforeClose, Queued, Busy
  <2>4. CASE ok /\ p.info = "OPEN"
    <3>1. s = Control /\ OpenReturning /\ Opened
      BY <1>1, <1>3, <2>4 DEF OpenReturning, Opened
    <3>2. ~OpenReturning' /\ ~Opened'
      BY <1>11, <1>15, <1>21, <3>1 DEF OneOwner, Opened, OpenReturning
    <3>3. OneOwner'
      BY <1>15, <1>21, <2>1, <2>2, <3>1, <3>2 DEF OneOwner
    <3>4. ~(~log.restarted /\ Socket \notin streams)
      BY <1>21, <3>1 DEF NobodyOwns
    <3> QED
      BY <2>3, <3>3, <3>4
  <2>5. CASE ~(ok /\ p.info = "OPEN")
    <3>1. open' = open
      BY <1>1, <2>5
    <3>2. OneOwner'
      BY <1>15, <1>21, <2>1, <2>2, <3>1 DEF OneOwner
    <3>3. NobodyOwns => NobodyOwns'
      BY <2>1, <2>2, <3>1 DEF NobodyOwns
    <3> QED
      BY <1>21, <2>3, <3>2, <3>3
  <2> QED
    BY <2>4, <2>5
<1>22. Token'
  BY <1>6, <1>16, <1>20, <1>21 DEF Token, Trusted
<1> QED
  BY <1>6, <1>7, <1>10, <1>12, <1>13, <1>14, <1>15, <1>17, <1>18, <1>19, <1>22

-----------------------------------------------------------------------------
(* The agent's receive callback takes a command                            *)

LEMMA AgentAcceptsKeeps ==
    ASSUME Inv, NEW p, AgentAccepts(p)
    PROVE  Inv'
<1>0. /\ agt.on /\ arx = <<>> /\ down # <<>> /\ p = down[1] /\ Last = agt.seen
      /\ p \in PacketSet /\ PacketFits(p) /\ p.n \in Calls(down, "COMMAND")
  BY ArrivesFacts DEF AgentAccepts, AgentReceives
<1> USE DEF Inv, Types
<1>1. /\ down' = Tail(down) /\ arx' = <<p>>
      /\ p.type = "COMMAND" /\ p.sid \in streams /\ p.seq # Last
      /\ log' = [log EXCEPT !.gapDown = 0]
      /\ UNCHANGED <<ctlVars, up, agt, aq, streams, task, left>>
  BY <1>0 DEF AgentAccepts, AgentReceives, AgentRepeated
<1>2. arx' # <<>> /\ arx'[1] = p
  BY <1>1
<1>3. LogTypes' /\ SameLog /\ log'.gapDown = 0 /\ log'.gapUp = log.gapUp
  BY <1>1 DEF LogTypes, SameLog
<1>4. /\ CtlTypes' /\ SyncTypes' /\ CqTypes' /\ ctl' = ctl /\ cq' = cq /\ call' = call
            /\ open' = open
      /\ log'.taken = log.taken /\ log'.late = log.late /\ log'.restarted = log.restarted
  BY <1>1, <1>3 DEF CtlTypes, SyncTypes, CqTypes, ctlVars, SameLog
<1>5. Verdicts'
  BY <1>3, VerdictsStay
<1>6. AgtTypes' /\ AqTypes'
  BY <1>0, <1>1 DEF AgtTypes, AqTypes, Busy
<1>7. ArxTypes' /\ Last' = down[1].seq
  <2>1. Last' = p.seq
    BY <1>2 DEF Last
  <2> HIDE DEF PacketSet
  <2> QED
    BY <1>0, <1>1, <1>2, <2>1 DEF ArxTypes
<1>8. /\ DownTypes' /\ DownOK' /\ Cmds' \subseteq Cmds
      /\ Calls(down, "COMMAND")' \subseteq Calls(down, "COMMAND")
      /\ \A c \in Cmds' : c.n # p.n
      /\ Item(p) \in Cmds
      /\ Orderly(down, Last) => Orderly(down, Last)'
      /\ Orderly(down, Last) /\ p.info = "CLOSE" => \A c \in Cmds' : c.sid # Socket
  BY <1>0, <1>1, <1>3, <1>4, <1>7, DownSeen
<1>9. UpTypes' /\ UpOK' /\ Resps' = Resps /\ Calls(up, "RESPONSE")' = Calls(up, "RESPONSE")
  BY <1>1, <1>3, <1>4, UpStays
<1>10. Item(p).sid = p.sid /\ Item(p).n = p.n /\ Item(p).info = p.info
  BY ItemFields
<1>11. NumbersDown'
  BY <1>0, <1>1, <1>2, <1>4, <1>8, <1>10 DEF NumbersDown, Queued
<1>12. NumbersUp'
  BY <1>1, <1>4, <1>9 DEF NumbersUp, Busy
<1>13. Own'
  BY <1>1, <1>2, <1>4, <1>8, <1>9, <1>10 DEF Own, Mine, Queued, Busy
<1>14. \A n : CloseSent(n)' => CloseSent(n)
  BY <1>1, <1>2, <1>8, <1>10 DEF CloseSent, Queued, Busy
<1>15. /\ Opened' <=> Opened
       /\ OpenReturning' <=> OpenReturning
       /\ Closing' <=> Closing
       /\ Trusted' <=> Trusted
  BY <1>1, <1>4, <1>9 DEF Opened, OpenReturning, Closing, Trusted
<1>16. OneOwner => OneOwner'
  BY <1>4, <1>9, <1>14, <1>15 DEF OneOwner
<1>17. UseBeforeClose => UseBeforeClose'
  BY <1>1, <1>2, <1>8, <1>10, <1>15 DEF UseBeforeClose, Queued, Busy
<1>18. NobodyOwns => NobodyOwns'
  BY <1>4, <1>14, <1>15 DEF NobodyOwns
<1>19. Token'
  BY <1>1, <1>4, <1>15, <1>16, <1>17, <1>18 DEF Token
<1> QED
  BY <1>3, <1>4, <1>5, <1>6, <1>7, <1>8, <1>9, <1>11, <1>12, <1>13, <1>19

\* An agent that runs goes on running, with the same streams and tasks.
LEMMA AgentOnTypes ==
    ASSUME AgtTypes, agt.on, agt'.on = agt.on, agt'.sent \in Seqno,
           agt' \in [on : BOOLEAN, seen : Seqno \cup {INVALID}, sent : Seqno \cup {INVALID}],
           streams' = streams, task' = task,
           \A t \in Stream \ streams : aq'[t] = aq[t]
    PROVE  AgtTypes'
BY DEF AgtTypes, Busy

LEMMA AgentPushesKeeps ==
    ASSUME Inv, AgentPushes
    PROVE  Inv'
<1> USE DEF Inv, Types
<1> DEFINE p == arx[1]
           s == arx[1].sid
<1>1. /\ arx # <<>>
      /\ s \in streams => aq[s] = <<>>
      /\ arx' = <<>>
      /\ AgentTx(LossReport(p), p.seq)
      /\ aq' = IF s \in streams THEN [aq EXCEPT ![s] = <<p>>] ELSE aq
      /\ log' = [log EXCEPT !.dead = @ \/ s \notin streams]
      /\ UNCHANGED <<ctlVars, down, streams, task, left>>
  BY DEF AgentPushes
<1>2. p \in PacketSet /\ p.type = "COMMAND" /\ PacketFits(p) /\ s \in Stream /\ p.n \in Nat
      /\ p.seq \in Seqno /\ p.sid = s
  BY <1>1, HeldNat DEF ArxTypes, PacketSet
<1>3. agt.on /\ Control \in streams /\ Last = p.seq
  BY <1>1 DEF AgtTypes, Last
<1>4. /\ LogTypes' /\ log'.late = log.late /\ log'.taken = log.taken
      /\ log'.restarted = log.restarted /\ log'.fresh = log.fresh /\ log'.mixed = log.mixed
      /\ log'.again = log.again /\ log'.dead = (log.dead \/ s \notin streams)
      /\ log'.gapDown = log.gapDown /\ log'.gapUp = log.gapUp
  BY <1>1 DEF LogTypes
<1>5. CtlTypes' /\ SyncTypes' /\ CqTypes' /\ ctl' = ctl /\ cq' = cq /\ call' = call
      /\ open' = open
  BY <1>1 DEF CtlTypes, SyncTypes, CqTypes, ctlVars
<1>6. /\ UpTypes' /\ UpOK' /\ Resps' \subseteq Resps
      /\ Calls(up, "RESPONSE")' \subseteq Calls(up, "RESPONSE")
      /\ agt' \in [on : BOOLEAN, seen : Seqno \cup {INVALID}, sent : Seqno \cup {INVALID}]
      /\ agt'.on = agt.on /\ agt'.seen = p.seq /\ agt'.sent \in Seqno
  <2>1. \/ LossReport(p) = <<>>
        \/ \E a \in UnsentSet : LossReport(p) = <<a>> /\ a.type \notin Numbered
    BY <1>2, LossReportIs
  <2> HIDE DEF p
  <2> QED
    BY <1>1, <1>2, <1>3, <1>4, <1>5, <2>1, AgentTxReports
<1>7. ArxTypes' /\ Last' = Last
  <2>1. Last' = p.seq
    BY <1>1, <1>6 DEF Last
  <2> HIDE DEF PacketSet
  <2> QED
    BY <1>1, <1>3, <2>1 DEF ArxTypes
<1>8. DownTypes' /\ DownOK' /\ Cmds' = Cmds /\ Calls(down, "COMMAND")' = Calls(down, "COMMAND")
      /\ (Orderly(down, Last)' <=> Orderly(down, Last))
  BY <1>1, <1>4, <1>5, <1>7, DownStays
<1> HIDE DEF p, s
<1>9. \/ s \notin streams /\ aq' = aq
      \/ /\ s \in streams /\ aq[s] = <<>> /\ aq'[s] = <<p>> /\ <<p>> # <<>> /\ <<p>>[1] = p
         /\ \A t \in Stream \ {s} : aq'[t] = aq[t]
  BY <1>1, <1>2 DEF AqTypes
<1>10. AqTypes'
  <2>1. CASE s \notin streams
    BY <1>9, <2>1 DEF AqTypes
  <2>2. CASE s \in streams
    <3> HIDE DEF PacketSet
    <3>1. aq' = [aq EXCEPT ![s] = <<p>>] /\ Len(<<p>>) = 1
      BY <1>1, <2>2
    <3>2. aq' \in [Stream -> Seq(PacketSet \cup {Packet("CLOSE", Socket, "NONE", 0)})]
      BY <1>2, <3>1 DEF AqTypes
    <3> QED
      BY <1>2, <1>9, <2>2, <3>1, <3>2 DEF AqTypes
  <2> QED
    BY <2>1, <2>2
<1>11. AgtTypes'
  <2>1. \A t \in Stream \ streams : aq'[t] = aq[t]
    BY <1>9
  <2> QED
    BY <1>1, <1>3, <1>6, <2>1, AgentOnTypes
<1>12. s \notin streams => ~Trusted
  <2>1. s = Control \/ s = Socket
    BY <1>2 DEF Stream
  <2>2. Trusted /\ s = Socket => Socket \in streams
    BY <1>1 DEF Token, UseBeforeClose, s
  <2> QED
    BY <1>3, <2>1, <2>2
<1>13. Verdicts'
  BY <1>4, <1>12 DEF Verdicts, Trusted
<1>14. \A t \in Stream : Queued(t)' =>
          \/ Queued(t) /\ aq'[t] = aq[t]
          \/ t = s /\ aq'[t][1] = p
  BY <1>9 DEF Queued
<1>15. NumbersDown'
  <2>1. /\ p.n > left["call"] /\ p.n \notin log.taken /\ \A c \in Cmds : c.n # p.n
        /\ \A t \in Stream : Queued(t) => p.n # aq[t][1].n
    BY <1>1 DEF NumbersDown, p
  <2>2. \A t \in Stream : Queued(t)' =>
           /\ aq'[t][1].n > left["call"] /\ aq'[t][1].n \notin log.taken
           /\ \A c \in Cmds : c.n # aq'[t][1].n
    BY <1>14, <2>1 DEF NumbersDown
  <2>3. Queued(Control)' /\ Queued(Socket)' => aq'[Control][1].n # aq'[Socket][1].n
    BY <1>14, <2>1 DEF NumbersDown, Stream, Control, Socket
  <2>4. (\A n \in Calls(down, "COMMAND") : n > left["call"])
        /\ \A c \in Cmds : c.n \notin log.taken
    BY DEF NumbersDown
  <2> QED
    BY <1>1, <1>4, <1>8, <2>2, <2>3, <2>4 DEF NumbersDown
<1>16. NumbersUp'
  BY <1>1, <1>4, <1>5, <1>6 DEF NumbersUp, Busy
<1>17. Own'
  <2>1. s \notin log.late => Mine(s, p.n) /\ p.info = call[s].req.cmd
    BY <1>1, <1>2 DEF Own, p, s
  <2>2. \A t \in Stream \ log.late :
           Queued(t)' => Mine(t, aq[t][1].n)' /\ aq'[t][1].info = call'[t].req.cmd
    BY <1>5, <1>14, <2>1 DEF Own, Mine
  <2> QED
    BY <1>1, <1>4, <1>5, <1>6, <1>8, <2>2 DEF Own, Mine, Busy
<1>18. \A n : CloseSent(n)' => CloseSent(n)
  <2>1. Queued(Control)' => \/ Queued(Control) /\ aq'[Control] = aq[Control]
                            \/ aq'[Control][1] = p
    BY <1>14 DEF Stream
  <2>2. arx[1] = p
    BY DEF p
  <2> QED
    BY <1>1, <1>8, <2>1, <2>2 DEF CloseSent, Busy
<1>19. /\ Opened' => Opened
       /\ OpenReturning' <=> OpenReturning
       /\ Trusted' <=> Trusted
  BY <1>4, <1>5, <1>6 DEF Opened, OpenReturning, Trusted
<1>20. Closing' => Closing
  BY <1>1, <1>2, <1>9 DEF Closing, Stream
<1>21. OneOwner => OneOwner'
  BY <1>5, <1>6, <1>18, <1>19, <1>20 DEF OneOwner
<1>22. UseBeforeClose => UseBeforeClose'
  <2>1. Queued(Control)' => \/ Queued(Control) /\ aq'[Control] = aq[Control]
                            \/ aq'[Control][1] = arx[1]
    BY <1>14 DEF Stream, p
  <2> QED
    BY <1>1, <1>8, <1>20, <2>1 DEF UseBeforeClose, Busy
<1>23. NobodyOwns => NobodyOwns'
  BY <1>5, <1>18, <1>19, <1>20 DEF NobodyOwns
<1>24. Token'
  BY <1>1, <1>4, <1>5, <1>19, <1>21, <1>22, <1>23 DEF Token
<1> QED
  BY <1>4, <1>5, <1>6, <1>7, <1>8, <1>10, <1>11, <1>13, <1>15, <1>16, <1>17, <1>24

-----------------------------------------------------------------------------
(* The agent's tasks                                                       *)

\* What a stream's queue holds: a command of the stream, or the request to
\* close the socket.
LEMMA QueueHolds ==
    ASSUME AqTypes, NEW s \in Stream, aq[s] # <<>>
    PROVE  \/ /\ Queued(s) /\ aq[s][1].sid = s /\ aq[s][1].n \in Nat
              /\ aq[s][1].type = "COMMAND" /\ CommandOK(s, aq[s][1].info)
           \/ /\ s = Socket /\ aq[s][1].type = "CLOSE"
              /\ aq[s][1].info = "NONE" /\ aq[s][1].n = 0
<1> DEFINE a == aq[s][1]
           close == Packet("CLOSE", Socket, "NONE", 0)
<1>1. a \in PacketSet \cup {close}
  <2> HIDE DEF PacketSet, close
  <2>1. aq[s] \in Seq(PacketSet \cup {close})
    BY DEF AqTypes, close
  <2> QED
    BY <2>1
<1>2. close.info = "NONE" /\ close.n = 0
  BY DEF Packet
<1> HIDE DEF close
<1>3. CASE a.type = "COMMAND"
  <2>1. a \in PacketSet /\ PacketFits(a) /\ a.sid = s
    BY <1>3 DEF AqTypes
  <2> QED
    BY <1>3, <2>1 DEF Queued, PacketSet, PacketFits
<1>4. CASE a.type = "CLOSE"
  <2>1. a \notin PacketSet
    BY <1>4 DEF PacketSet, PacketType
  <2> QED
    BY <1>1, <1>2, <1>4, <2>1 DEF AqTypes
<1> QED
  BY <1>3, <1>4 DEF AqTypes

\* A stream's queue is emptied.
LEMMA QueueEmptied ==
    ASSUME AqTypes, NEW s \in Stream, aq' = [aq EXCEPT ![s] = <<>>]
    PROVE  AqTypes' /\ aq'[s] = <<>> /\ \A t \in Stream \ {s} : aq'[t] = aq[t]
<1> DEFINE S == PacketSet \cup {Packet("CLOSE", Socket, "NONE", 0)}
<1>1. aq \in [Stream -> Seq(S)]
  BY DEF AqTypes
<1> HIDE DEF S
<1>2. aq' \in [Stream -> Seq(S)] /\ aq'[s] = <<>> /\ \A t \in Stream \ {s} : aq'[t] = aq[t]
  BY <1>1
<1>3. Len(<<>>) = 0
  OBVIOUS
<1>4. \A t \in Stream :
         /\ Len(aq'[t]) <= 1
         /\ aq'[t] # <<>> =>
               /\ aq'[t][1].sid = t
               /\ \/ aq'[t][1].type = "COMMAND" /\ aq'[t][1] \in PacketSet
                     /\ PacketFits(aq'[t][1])
                  \/ t = Socket /\ aq'[t][1].type = "CLOSE"
  <2> TAKE t \in Stream
  <2>1. CASE t = s
    BY <1>2, <1>3, <2>1
  <2>2. CASE t # s
    <3>1. aq'[t] = aq[t]
      BY <1>2, <2>2
    <3> HIDE DEF PacketSet
    <3> QED
      BY <3>1 DEF AqTypes
  <2> QED
    BY <2>1, <2>2
<1> QED
  BY <1>2, <1>4 DEF AqTypes, S

LEMMA TaskTakesKeeps ==
    ASSUME Inv, NEW s \in Stream, TaskTakes(s)
    PROVE  Inv'
<1> USE DEF Inv, Types
<1> DEFINE p == aq[s][1]
           new == [at |-> IF p.type = "CLOSE" THEN "closing" ELSE "busy",
                   req |-> [cmd |-> p.info, n |-> p.n]]
           again == p.type = "COMMAND" /\ p.n \in log.taken
           taken == IF p.type = "COMMAND" THEN log.taken \cup {p.n} ELSE log.taken
<1>1. /\ s \in streams /\ task[s].at = "idle" /\ aq[s] # <<>>
      /\ task' = [task EXCEPT ![s] = new]
      /\ log' = [log EXCEPT !.again = @ \/ again, !.taken = taken]
      /\ aq' = [aq EXCEPT ![s] = <<>>]
      /\ UNCHANGED <<ctlVars, down, up, agt, streams, arx, left>>
  BY DEF TaskTakes
<1>2. \/ /\ Queued(s) /\ p.n \in Nat /\ p.type = "COMMAND" /\ CommandOK(s, p.info)
      \/ s = Socket /\ p.type = "CLOSE" /\ p.info = "NONE" /\ p.n = 0
  BY <1>1, QueueHolds
<1>3. Control # Socket /\ Control \in Stream /\ Socket \in Stream
  BY DEF Control, Socket, Stream
<1>4. p.n \in Nat /\ p.info \in Command \cup {"NONE"}
  BY <1>2 DEF CommandOK
<1>5. /\ new \in [at : {"idle", "busy", "closing"}, req : [cmd : Command \cup {"NONE"}, n : Nat]]
      /\ new.req.cmd = p.info /\ new.req.n = p.n
      /\ new.at = IF p.type = "CLOSE" THEN "closing" ELSE "busy"
  BY <1>4
<1> HIDE DEF p, new
<1>6. /\ task'[s] = new /\ \A t \in Stream \ {s} : task'[t] = task[t]
      /\ task' \in [Stream -> [at : {"idle", "busy", "closing"},
                               req : [cmd : Command \cup {"NONE"}, n : Nat]]]
  <2>1. task \in [Stream -> [at : {"idle", "busy", "closing"},
                             req : [cmd : Command \cup {"NONE"}, n : Nat]]]
    BY DEF AgtTypes
  <2> QED
    BY <1>1, <1>5, <2>1
<1>7. AqTypes' /\ aq'[s] = <<>> /\ \A t \in Stream \ {s} : aq'[t] = aq[t]
  BY <1>1, QueueEmptied
<1>9. ~again
  BY <1>2 DEF NumbersDown, p
<1>10. taken \subseteq Nat /\ log.taken \subseteq taken
  BY <1>4 DEF LogTypes
<1> HIDE DEF again, taken
<1>11. /\ LogTypes' /\ log'.late = log.late /\ log'.taken = taken
       /\ log'.restarted = log.restarted /\ log'.fresh = log.fresh /\ log'.mixed = log.mixed
       /\ log'.again = (log.again \/ again) /\ log'.dead = log.dead
       /\ log'.gapDown = log.gapDown /\ log'.gapUp = log.gapUp
  BY <1>1, <1>10 DEF LogTypes
<1>12. Verdicts'
  BY <1>9, <1>11 DEF Verdicts, Trusted
<1>13. CtlTypes' /\ SyncTypes' /\ CqTypes' /\ ctl' = ctl /\ cq' = cq /\ call' = call
       /\ open' = open
       /\ left' = left
  BY <1>1 DEF CtlTypes, SyncTypes, CqTypes, ctlVars
<1>14. ArxTypes' /\ Last' = Last
  BY <1>1 DEF ArxTypes, Last
<1>15. AgtTypes'
  <2>1. new.at = "closing" => s = Socket
    BY <1>2, <1>5
  <2>2. task'[Control].at # "closing"
    BY <1>3, <1>6, <2>1 DEF AgtTypes
  <2>3. \A t \in Stream \ streams : aq'[t] = <<>> /\ task'[t].at = "idle"
    BY <1>1, <1>6, <1>7 DEF AgtTypes
  <2>4. \A t \in Stream : Busy(t)' => CommandOK(t, task'[t].req.cmd)
    <3>1. Busy(s)' => CommandOK(s, task'[s].req.cmd)
      BY <1>2, <1>5, <1>6 DEF Busy
    <3>2. \A t \in Stream \ {s} : Busy(t)' => CommandOK(t, task'[t].req.cmd)
      BY <1>6 DEF AgtTypes, Busy
    <3> QED
      BY <3>1, <3>2
  <2> QED
    BY <1>1, <1>6, <1>11, <2>2, <2>3, <2>4 DEF AgtTypes
<1>16. DownTypes' /\ DownOK' /\ Cmds' = Cmds /\ Calls(down, "COMMAND")' = Calls(down, "COMMAND")
       /\ (Orderly(down, Last)' <=> Orderly(down, Last))
  BY <1>1, <1>11, <1>13, <1>14, DownStays
<1>17. UpTypes' /\ UpOK' /\ Resps' = Resps /\ Calls(up, "RESPONSE")' = Calls(up, "RESPONSE")
  BY <1>1, <1>11, <1>13, UpStays
\* What it takes was queued, and what it leaves is as it was.
<1>18. /\ \A t \in Stream : Queued(t)' => t # s /\ Queued(t) /\ aq'[t] = aq[t]
       /\ \A t \in Stream \ {s} : Busy(t)' <=> Busy(t)
       /\ Busy(s)' => /\ Queued(s) /\ p.type = "COMMAND"
                      /\ task'[s].req.cmd = p.info /\ task'[s].req.n = p.n
  BY <1>2, <1>5, <1>6, <1>7 DEF Queued, Busy
<1>19. /\ Queued(s) => p.n > left["call"] /\ p.n \notin log.taken
             /\ taken = log.taken \cup {p.n}
                       /\ \A c \in Cmds : c.n # p.n
       /\ Queued(s) /\ arx # <<>> => arx[1].n # p.n
       /\ \A t \in Stream \ {s} : Queued(s) /\ Queued(t) => aq[t][1].n # p.n
       /\ ~Queued(s) => taken = log.taken
  BY <1>2 DEF NumbersDown, Queued, p, taken, Stream
<1>20. NumbersDown'
  <2>1. \A c \in Cmds : c.n \notin taken
    BY <1>19 DEF NumbersDown
  <2>2. arx # <<>> => arx[1].n > left["call"] /\ arx[1].n \notin taken
        /\ \A c \in Cmds : c.n # arx[1].n
    BY <1>19 DEF NumbersDown
  <2>3. \A t \in Stream : Queued(t)' =>
           /\ aq'[t][1].n > left["call"] /\ aq'[t][1].n \notin taken
           /\ \A c \in Cmds : c.n # aq'[t][1].n
           /\ arx # <<>> => arx[1].n # aq'[t][1].n
    BY <1>18, <1>19 DEF NumbersDown
  <2>4. Queued(Control)' /\ Queued(Socket)' => aq'[Control][1].n # aq'[Socket][1].n
    BY <1>3, <1>18 DEF NumbersDown
  <2>5. \A n \in Calls(down, "COMMAND") : n > left["call"]
    BY DEF NumbersDown
  <2> QED
    BY <1>1, <1>11, <1>16, <2>1, <2>2, <2>3, <2>4, <2>5 DEF NumbersDown
<1>21. NumbersUp'
  <2>1. \A n \in taken : n > left["call"]
    BY <1>19 DEF NumbersUp
  <2>2. \A t \in Stream : Busy(t)' =>
           \/ t # s /\ Busy(t) /\ task'[t] = task[t] /\ task[t].req.n \in log.taken
           \/ t = s /\ Queued(s) /\ task'[t].req.n = p.n
    BY <1>6, <1>18 DEF NumbersUp
  <2>3. \A t \in Stream : Busy(t)' => task'[t].req.n \in taken
    BY <1>10, <1>19, <2>2
  <2>4. Busy(Control)' /\ Busy(Socket)' => task'[Control].req.n # task'[Socket].req.n
    BY <1>3, <1>19, <2>2 DEF NumbersUp
  <2>5. \A n \in log.taken : \A t \in Stream :
           (Busy(t) => n # task[t].req.n) => (Busy(t)' => n # task'[t].req.n)
    BY <1>19, <2>2
  <2>6. \A n \in Calls(up, "RESPONSE") : n \in taken /\ \A t \in Stream : Busy(t)'
        => n # task'[t].req.n
    BY <1>10, <2>5 DEF NumbersUp
  <2>7. \A u \in Stream : cq[u] # <<>> =>
           /\ cq[u][1].n \in taken
           /\ \A t \in Stream : Busy(t)' => cq[u][1].n # task'[t].req.n
    BY <1>10, <2>5 DEF NumbersUp
  <2> QED
    BY <1>11, <1>13, <1>17, <2>1, <2>3, <2>4, <2>6, <2>7 DEF NumbersUp
<1>22. Own'
  <2>1. \A t \in Stream \ log.late :
           Queued(t)' => Mine(t, aq[t][1].n)' /\ aq'[t][1].info = call'[t].req.cmd
    BY <1>13, <1>18 DEF Own, Mine
  <2>2. \A t \in Stream \ log.late :
           Busy(t)' => Mine(t, task[t].req.n)' /\ task'[t].req.cmd = call'[t].req.cmd
    <3>1. \A t \in Stream \ log.late : t # s /\ Busy(t)' =>
             Mine(t, task[t].req.n)' /\ task'[t].req.cmd = call'[t].req.cmd
      BY <1>6, <1>13, <1>18 DEF Own, Mine
    <3>2. s \notin log.late /\ Busy(s)' => Mine(s, task[s].req.n)'
          /\ task'[s].req.cmd = call'[s].req.cmd
      BY <1>13, <1>18 DEF Own, Mine, p
    <3> QED
      BY <3>1, <3>2
  <2> QED
    BY <1>1, <1>11, <1>13, <1>16, <1>17, <2>1, <2>2 DEF Own, Mine
<1>23. Busy(Control)' => \/ Queued(Control) /\ task'[Control].req.cmd = aq[Control][1].info
                            /\ task'[Control].req.n = aq[Control][1].n
                         \/ Busy(Control) /\ task'[Control] = task[Control]
  BY <1>3, <1>6, <1>18 DEF p
<1>24. \A n : CloseSent(n)' => CloseSent(n)
  BY <1>1, <1>3, <1>16, <1>18, <1>23 DEF CloseSent
<1>25. /\ Opened' <=> Opened
       /\ OpenReturning' <=> OpenReturning
       /\ Trusted' <=> Trusted
  BY <1>11, <1>13, <1>17 DEF Opened, OpenReturning, Trusted
<1>26. Closing' => Closing
  <2>1. CASE s = Socket
    BY <1>1, <1>5, <1>6, <1>7, <2>1 DEF Closing, p
  <2>2. CASE s # Socket
    BY <1>3, <1>6, <1>7, <2>2 DEF Closing
  <2> QED
    BY <2>1, <2>2
<1>27. OneOwner => OneOwner'
  BY <1>13, <1>17, <1>24, <1>25, <1>26 DEF OneOwner
<1>28. UseBeforeClose => UseBeforeClose'
  BY <1>1, <1>3, <1>16, <1>18, <1>23, <1>26 DEF UseBeforeClose
<1>29. NobodyOwns => NobodyOwns'
  BY <1>13, <1>24, <1>25, <1>26 DEF NobodyOwns
<1>30. Token'
  BY <1>1, <1>11, <1>13, <1>25, <1>27, <1>28, <1>29 DEF Token
<1> QED
  BY <1>7, <1>11, <1>12, <1>13, <1>14, <1>15, <1>16, <1>17, <1>20, <1>21, <1>22, <1>30

LEMMA TaskFreesKeeps ==
    ASSUME Inv, NEW s \in Stream, TaskFrees(s)
    PROVE  Inv'
<1> USE DEF Inv, Types
<1>1. /\ task[s].at = "closing" /\ streams' = streams \ {s}
      /\ aq' = [aq EXCEPT ![s] = <<>>]
      /\ task' = [task EXCEPT ![s] = Idle]
      /\ UNCHANGED <<ctlVars, down, up, agt, arx, left, log>>
  BY DEF TaskFrees
<1>2. Control # Socket /\ Control \in Stream /\ Socket \in Stream
  BY DEF Control, Socket, Stream
<1>3. s = Socket
  BY <1>1 DEF AgtTypes, Stream
<1>4. AqTypes' /\ aq'[s] = <<>> /\ \A t \in Stream \ {s} : aq'[t] = aq[t]
  BY <1>1, QueueEmptied
<1>5. /\ Idle \in [at : {"idle", "busy", "closing"}, req : [cmd : Command \cup {"NONE"}, n : Nat]]
      /\ Idle.at = "idle"
  BY DEF Idle, None
<1>6. /\ task'[s] = Idle /\ \A t \in Stream \ {s} : task'[t] = task[t]
      /\ task' \in [Stream -> [at : {"idle", "busy", "closing"},
                               req : [cmd : Command \cup {"NONE"}, n : Nat]]]
  <2>1. task \in [Stream -> [at : {"idle", "busy", "closing"},
                             req : [cmd : Command \cup {"NONE"}, n : Nat]]]
    BY DEF AgtTypes
  <2> QED
    BY <1>1, <1>5, <2>1
<1>7. /\ \A t \in Stream : Queued(t)' => Queued(t) /\ aq'[t] = aq[t]
      /\ \A t \in Stream : Busy(t)' => Busy(t) /\ task'[t] = task[t]
      /\ aq'[Control] = aq[Control] /\ task'[Control] = task[Control]
  BY <1>2, <1>3, <1>4, <1>5, <1>6 DEF Queued, Busy
<1>8. AgtTypes'
  <2>1. \A t \in Stream \ streams' : aq'[t] = <<>> /\ task'[t].at = "idle"
    BY <1>1, <1>4, <1>5, <1>6 DEF AgtTypes
  <2>2. \A t \in Stream : Busy(t)' => CommandOK(t, task'[t].req.cmd)
    BY <1>7 DEF AgtTypes
  <2> QED
    BY <1>1, <1>2, <1>3, <1>6, <1>7, <2>1, <2>2 DEF AgtTypes
<1>9. CtlTypes' /\ SyncTypes' /\ CqTypes' /\ LogTypes' /\ Verdicts' /\ ArxTypes' /\ Last' = Last
      /\ ctl' = ctl /\ cq' = cq /\ call' = call /\ open' = open
  BY <1>1 DEF CtlTypes, SyncTypes, CqTypes, LogTypes, Verdicts, Trusted, ArxTypes, Last,
     ctlVars
<1>10. DownTypes' /\ DownOK' /\ Cmds' = Cmds /\ Calls(down, "COMMAND")' = Calls(down, "COMMAND")
       /\ (Orderly(down, Last)' <=> Orderly(down, Last))
  BY <1>1, <1>9, DownStays
<1>11. UpTypes' /\ UpOK' /\ Resps' = Resps /\ Calls(up, "RESPONSE")' = Calls(up, "RESPONSE")
  BY <1>1, <1>9, UpStays
<1>12. NumbersDown'
  <2>1. \A t \in Stream : Queued(t)' =>
           /\ aq'[t][1].n > left["call"] /\ aq'[t][1].n \notin log.taken
           /\ \A c \in Cmds : c.n # aq'[t][1].n
           /\ arx # <<>> => arx[1].n # aq'[t][1].n
    BY <1>7 DEF NumbersDown
  <2>2. ~Queued(Socket)'
    BY <1>3, <1>4 DEF Queued
  <2> QED
    BY <1>1, <1>10, <2>1, <2>2 DEF NumbersDown
<1>13. NumbersUp'
  <2>1. ~Busy(Socket)'
    BY <1>3, <1>5, <1>6 DEF Busy
  <2> QED
    BY <1>1, <1>7, <1>9, <1>11, <2>1 DEF NumbersUp
<1>14. Own'
  <2>1. \A t \in Stream \ log.late :
           Queued(t)' => Mine(t, aq[t][1].n)' /\ aq'[t][1].info = call'[t].req.cmd
    BY <1>7, <1>9 DEF Own, Mine
  <2>2. \A t \in Stream \ log.late :
           Busy(t)' => Mine(t, task[t].req.n)' /\ task'[t].req.cmd = call'[t].req.cmd
    BY <1>7, <1>9 DEF Own, Mine
  <2> QED
    BY <1>1, <1>9, <1>10, <1>11, <2>1, <2>2 DEF Own, Mine
<1>15. \A n : CloseSent(n)' => CloseSent(n)
  BY <1>1, <1>7, <1>10 DEF CloseSent, Queued, Busy
<1>16. /\ Opened' <=> Opened
       /\ OpenReturning' <=> OpenReturning
       /\ Trusted' <=> Trusted
  BY <1>1, <1>9, <1>11 DEF Opened, OpenReturning, Trusted
<1>17. Closing /\ ~Closing'
  BY <1>1, <1>3, <1>4, <1>5, <1>6 DEF Closing
\* The stream that is freed belongs to nobody, and no command is for it.
<1>18. OneOwner => OneOwner' /\ NobodyOwns'
  BY <1>9, <1>11, <1>15, <1>16, <1>17 DEF OneOwner, NobodyOwns
<1>19. UseBeforeClose => UseBeforeClose'
  BY <1>1, <1>7, <1>10, <1>17 DEF UseBeforeClose, Queued, Busy
<1>20. Token'
  BY <1>1, <1>9, <1>16, <1>18, <1>19 DEF Token
<1> QED
  BY <1>4, <1>8, <1>9, <1>10, <1>11, <1>12, <1>13, <1>14, <1>20

LEMMA TaskRespondsKeeps ==
    ASSUME Inv, NEW s \in Stream, TaskResponds(s)
    PROVE  Inv'
<1> USE DEF Inv, Types
<1> DEFINE r == task[s].req
           info == IF r.cmd = "OPEN" /\ ~Free(Socket) THEN "FAILED" ELSE r.cmd
           p == Packet("RESPONSE", s, info, r.n)
           close == Packet("CLOSE", Socket, "NONE", 0)
           closes == r.cmd = "CLOSE" /\ Socket \in streams
<1>1. /\ task[s].at = "busy"
      /\ closes => aq[Socket] = <<>>
      /\ aq' = IF closes THEN [aq EXCEPT ![Socket] = <<close>>] ELSE aq
      /\ streams' = IF r.cmd = "OPEN" THEN streams \cup {Socket} ELSE streams
      /\ AgentTx(<<p>>, agt.seen)
      /\ task' = [task EXCEPT ![s] = Idle]
      /\ UNCHANGED <<ctlVars, down, arx, left, log>>
  BY DEF TaskResponds, Response
<1>2. Control # Socket /\ Control \in Stream /\ Socket \in Stream /\ Stream = {Control, Socket}
  BY DEF Control, Socket, Stream
<1>3. Busy(s) /\ s \in streams /\ Control \in streams /\ agt.on
  BY <1>1, <1>2 DEF Busy, AgtTypes
<1>4. CommandOK(s, r.cmd) /\ r.cmd \in Command /\ r.n \in Nat
      /\ (r.cmd # "OTHER" => s = Control)
  BY <1>2, <1>3, HeldNat DEF AgtTypes, CommandOK
<1>5. p \in UnsentSet /\ p.type = "RESPONSE" /\ p.sid = s /\ p.info = info /\ p.n = r.n
  <2>1. "RESPONSE" \in PacketType /\ info \in Info
    BY <1>4 DEF PacketType, Info
  <2> HIDE DEF info, r
  <2> QED
    BY <1>4, <2>1, PacketFields
<1>6. close.type = "CLOSE" /\ close.sid = Socket
  BY DEF Packet
<1>7. info = "OPEN" <=> r.cmd = "OPEN" /\ Socket \notin streams
  BY DEF Free
<1> HIDE DEF p, close, info
<1>8. PacketFits(p)
  BY <1>4, <1>5, <1>7 DEF PacketFits
<1>9. Item(p).sid = s /\ Item(p).n = r.n /\ Item(p).info = info
  BY <1>5, ItemFields
<1>10. r.n \in log.taken /\ r.n \notin Calls(up, "RESPONSE")
       /\ \A t \in Stream : cq[t] # <<>> => cq[t][1].n # r.n
  BY <1>3 DEF NumbersUp
<1> HIDE DEF r, closes
<1>11. CtlTypes' /\ SyncTypes' /\ CqTypes' /\ LogTypes' /\ Verdicts' /\ ArxTypes'
       /\ ctl' = ctl /\ cq' = cq /\ call' = call /\ open' = open
  BY <1>1 DEF CtlTypes, SyncTypes, CqTypes, LogTypes, Verdicts, Trusted, ArxTypes,
     ctlVars
<1>12. /\ UpTypes' /\ UpOK'
       /\ \A x \in Resps' : x \in Resps \/ x = Item(p)
       /\ \A n \in Calls(up, "RESPONSE")' : n \in Calls(up, "RESPONSE") \/ n = r.n
       /\ agt' \in [on : BOOLEAN, seen : Seqno \cup {INVALID}, sent : Seqno \cup {INVALID}]
       /\ agt'.on = agt.on /\ agt'.seen = agt.seen /\ agt'.sent \in Seqno
  BY <1>1, <1>3, <1>5, <1>8, <1>10, <1>11, AgentTxResponse
<1>13. Last' = Last
  BY <1>1, <1>12 DEF Last
<1>14. DownTypes' /\ DownOK' /\ Cmds' = Cmds /\ Calls(down, "COMMAND")' = Calls(down, "COMMAND")
       /\ (Orderly(down, Last)' <=> Orderly(down, Last))
  BY <1>1, <1>11, <1>13, DownStays
<1>15. /\ Idle \in [at : {"idle", "busy", "closing"}, req : [cmd : Command \cup {"NONE"}, n : Nat]]
       /\ Idle.at = "idle"
  BY DEF Idle, None
<1>16. /\ task'[s] = Idle /\ \A t \in Stream \ {s} : task'[t] = task[t]
       /\ task' \in [Stream -> [at : {"idle", "busy", "closing"},
                                req : [cmd : Command \cup {"NONE"}, n : Nat]]]
  <2>1. task \in [Stream -> [at : {"idle", "busy", "closing"},
                             req : [cmd : Command \cup {"NONE"}, n : Nat]]]
    BY DEF AgtTypes
  <2> QED
    BY <1>1, <1>15, <2>1
<1>17. /\ ~closes => aq' = aq
       /\ closes => /\ aq[Socket] = <<>> /\ aq'[Socket] = <<close>>
                    /\ aq'[Control] = aq[Control]
       /\ <<close>> # <<>> /\ <<close>>[1] = close /\ Len(<<close>>) = 1
  BY <1>1, <1>2 DEF AqTypes
<1>18. AqTypes'
  <2>1. CASE ~closes
    BY <1>17, <2>1 DEF AqTypes
  <2>2. CASE closes
    <3> HIDE DEF PacketSet
    <3>1. aq' = [aq EXCEPT ![Socket] = <<close>>]
      BY <1>1, <2>2
    <3>2. aq' \in [Stream -> Seq(PacketSet \cup {Packet("CLOSE", Socket, "NONE", 0)})]
      BY <1>2, <3>1 DEF AqTypes, close
    <3>3. \A t \in Stream :
             /\ Len(aq'[t]) <= 1
             /\ aq'[t] # <<>> =>
                   /\ aq'[t][1].sid = t
                   /\ \/ aq'[t][1].type = "COMMAND" /\ aq'[t][1] \in PacketSet
                         /\ PacketFits(aq'[t][1])
                      \/ t = Socket /\ aq'[t][1].type = "CLOSE"
      <4> TAKE t \in Stream
      <4>1. CASE t = Socket
        <5>1. aq'[t] = <<close>>
          BY <1>17, <2>2, <4>1
        <5>2. Len(aq'[t]) = 1 /\ aq'[t][1] = close
          BY <1>17, <5>1, Zenon
        <5> QED
          BY <1>6, <4>1, <5>2
      <4>2. CASE t = Control
        <5>1. aq'[t] = aq[t]
          BY <1>17, <2>2, <4>2
        <5> QED
          BY <5>1 DEF AqTypes
      <4> QED
        BY <1>2, <4>1, <4>2
    <3> QED
      BY <3>2, <3>3 DEF AqTypes
  <2> QED
    BY <2>1, <2>2
\* The other task, and what is queued for both, are as they were.
<1>19. /\ \A t \in Stream : Queued(t)' => Queued(t) /\ aq'[t] = aq[t]
       /\ \A t \in Stream : Busy(t)' => t # s /\ Busy(t) /\ task'[t] = task[t]
  <2>1. \A t \in Stream : Queued(t)' => Queued(t) /\ aq'[t] = aq[t]
    BY <1>2, <1>6, <1>17 DEF Queued
  <2>2. \A t \in Stream : Busy(t)' => t # s /\ Busy(t) /\ task'[t] = task[t]
    BY <1>15, <1>16 DEF Busy
  <2> QED
    BY <2>1, <2>2
<1>20. AgtTypes'
  <2>1. streams \subseteq streams' /\ streams' \subseteq Stream
    BY <1>1, <1>2 DEF AgtTypes
  <2>2. \A t \in Stream \ streams' : aq'[t] = <<>> /\ task'[t].at = "idle"
    <3>1. closes => Socket \in streams
      BY DEF closes
    <3>2. \A t \in Stream \ streams' : aq'[t] = aq[t]
      BY <1>2, <1>3, <1>17, <2>1, <3>1
    <3>3. \A t \in Stream \ streams : aq[t] = <<>> /\ task[t].at = "idle"
      BY DEF AgtTypes
    <3>4. \A t \in Stream : task'[t] = Idle \/ task'[t] = task[t]
      BY <1>16
    <3> QED
      BY <1>15, <2>1, <3>2, <3>3, <3>4
  <2>3. \A t \in Stream : Busy(t)' => CommandOK(t, task'[t].req.cmd)
    BY <1>19 DEF AgtTypes
  <2>4. task'[Control].at # "closing"
    BY <1>2, <1>15, <1>16 DEF AgtTypes
  <2>5. Control \in streams' /\ agt'.on = TRUE
    BY <1>3, <1>12, <2>1 DEF AgtTypes
  <2> QED
    BY <1>12, <1>16, <2>1, <2>2, <2>3, <2>4, <2>5 DEF AgtTypes
<1>21. NumbersDown'
  <2>1. \A t \in Stream : Queued(t)' =>
           /\ aq'[t][1].n > left["call"] /\ aq'[t][1].n \notin log.taken
           /\ \A c \in Cmds : c.n # aq'[t][1].n
           /\ arx # <<>> => arx[1].n # aq'[t][1].n
    BY <1>19 DEF NumbersDown
  <2>2. Queued(Control)' /\ Queued(Socket)' => aq'[Control][1].n # aq'[Socket][1].n
    BY <1>2, <1>19 DEF NumbersDown
  <2> QED
    BY <1>1, <1>14, <2>1, <2>2 DEF NumbersDown
<1>22. NumbersUp'
  <2>1. \A t \in Stream \ {s} : Busy(t) => r.n # task[t].req.n
    BY <1>2, <1>3 DEF NumbersUp, r
  <2>2. \A n \in Calls(up, "RESPONSE")' :
           n \in log.taken /\ \A t \in Stream : Busy(t)' => n # task'[t].req.n
    BY <1>10, <1>12, <1>19, <2>1 DEF NumbersUp
  <2>3. \A t \in Stream : Busy(t)' => task'[t].req.n \in log.taken
    BY <1>19 DEF NumbersUp
  <2>4. ~(Busy(Control)' /\ Busy(Socket)')
    BY <1>2, <1>19
  <2>5. \A u \in Stream : cq[u] # <<>> =>
           /\ cq[u][1].n \in log.taken
           /\ \A t \in Stream : Busy(t)' => cq[u][1].n # task'[t].req.n
    BY <1>19 DEF NumbersUp
  <2> QED
    BY <1>1, <1>11, <2>2, <2>3, <2>4, <2>5 DEF NumbersUp
<1>23. s \notin log.late => Mine(s, r.n) /\ r.cmd = call[s].req.cmd /\ cq[s] = <<>>
  <2>1. s \notin log.late => Mine(s, r.n) /\ r.cmd = call[s].req.cmd
    BY <1>3 DEF Own, r
  <2>2. s \notin log.late /\ cq[s] # <<>> => Mine(s, cq[s][1].n)
    BY DEF Own
  <2> QED
    BY <1>10, <2>1, <2>2 DEF Mine
<1>24. Own'
  <2>1. \A t \in Stream \ log.late :
           Queued(t)' => Mine(t, aq[t][1].n)' /\ aq'[t][1].info = call'[t].req.cmd
    BY <1>11, <1>19 DEF Own, Mine
  <2>2. \A t \in Stream \ log.late :
           Busy(t)' => Mine(t, task[t].req.n)' /\ task'[t].req.cmd = call'[t].req.cmd
    BY <1>11, <1>19 DEF Own, Mine
  <2>3. \A t \in Stream \ log.late : \A x \in Resps' : x.sid = t => Mine(t, x.n)'
        /\ cq[t] = <<>>
    BY <1>9, <1>11, <1>12, <1>23 DEF Own, Mine
  <2> QED
    BY <1>1, <1>11, <1>14, <2>1, <2>2, <2>3 DEF Own, Mine
\* Who owns the socket.
<1>25. \A n : CloseSent(n)' => CloseSent(n)
  BY <1>1, <1>2, <1>14, <1>19 DEF CloseSent
<1>26. /\ OpenReturning' <=> OpenReturning
       /\ Opened' => Opened \/ info = "OPEN"
       /\ info # "OPEN" => \A x \in Resps' : x.info = "OPEN" => x \in Resps
  BY <1>9, <1>11, <1>12 DEF Opened, OpenReturning
<1>27. ~closes => (Closing' => Closing)
  <2>1. task'[Socket].at = "closing" => task[Socket].at = "closing"
    BY <1>2, <1>15, <1>16
  <2> QED
    BY <1>17, <2>1 DEF Closing
<1>28. ASSUME Trusted, OneOwner, UseBeforeClose,
              ~log.restarted /\ Socket \notin streams => NobodyOwns
       PROVE  OneOwner' /\ UseBeforeClose'
              /\ (~log.restarted /\ Socket \notin streams' => NobodyOwns')
  <2>1. CASE r.cmd = "OTHER"
    <3>1. ~closes /\ info # "OPEN" /\ streams' = streams
      BY <1>1, <1>7, <2>1 DEF closes
    <3>2. (Closing' => Closing) /\ (Opened' => Opened)
      BY <1>26, <1>27, <3>1
    <3>3. OneOwner'
      BY <1>11, <1>25, <1>26, <1>28, <3>1, <3>2 DEF OneOwner
    <3>4. UseBeforeClose'
      BY <1>1, <1>2, <1>14, <1>19, <1>28, <3>1, <3>2 DEF UseBeforeClose
    <3>5. NobodyOwns => NobodyOwns'
      BY <1>11, <1>25, <3>2 DEF NobodyOwns
    <3> QED
      BY <1>28, <3>1, <3>3, <3>4, <3>5
  <2>2. CASE r.cmd = "CLOSE"
    <3>1. s = Control /\ CloseSent(r.n)
      BY <1>3, <1>4, <2>2 DEF CloseSent, r
    <3>2. Socket \notin open /\ ~Opened /\ ~Closing /\ \A n \in Nat : CloseSent(n) => n = r.n
      BY <1>4, <1>28, <3>1 DEF OneOwner
    <3>3. ~Busy(Control)' /\ info # "OPEN" /\ streams' = streams
      BY <1>1, <1>2, <1>7, <1>19, <2>2, <3>1
    <3>4. \A n \in Nat : ~CloseSent(n)'
      <4> SUFFICES ASSUME NEW n \in Nat, CloseSent(n)'
                   PROVE  FALSE
        OBVIOUS
      <4>1. n = r.n
        BY <1>25, <3>2
      <4>2. CloseSent(n)' => n \notin log.taken
        BY <1>1, <1>2, <1>14, <1>19, <3>3 DEF CloseSent, NumbersDown
      <4> QED
        BY <1>10, <4>1, <4>2
    <3>5. ~Opened'
      BY <1>26, <3>2, <3>3
    <3>6. OneOwner'
      BY <1>11, <3>2, <3>4, <3>5 DEF OneOwner, Opened
    <3>7. UseBeforeClose'
      <4>1. (arx # <<>> => arx[1].sid # Socket) /\ \A c \in Cmds : c.sid # Socket
        BY <1>3, <1>28, <2>2, <3>1 DEF UseBeforeClose, r
      <4>2. Orderly(down, Last)
        BY <1>28 DEF UseBeforeClose
      <4> QED
        BY <1>1, <1>14, <4>1, <4>2 DEF UseBeforeClose
    <3>8. ~(~log.restarted /\ Socket \notin streams)
      BY <1>4, <1>28, <3>1 DEF NobodyOwns
    <3> QED
      BY <3>3, <3>6, <3>7, <3>8
  <2>3. CASE r.cmd = "OPEN"
    <3>1. s = Control /\ ~closes /\ Socket \in streams' /\ ~Busy(Control)'
      BY <1>1, <1>2, <1>4, <1>19, <2>3 DEF closes
    <3>2. Closing' => Closing
      BY <1>27, <3>1
    <3>3. UseBeforeClose'
      BY <1>1, <1>2, <1>14, <1>19, <1>28, <3>1, <3>2 DEF UseBeforeClose
    <3>4. CASE Socket \in streams
      <4>1. info # "OPEN" /\ (Opened' => Opened)
        BY <1>7, <1>26, <3>4
      <4> QED
        BY <1>11, <1>25, <1>26, <1>28, <3>1, <3>2, <3>3, <4>1 DEF OneOwner
    <3>5. CASE Socket \notin streams
      <4>1. NobodyOwns
        <5>1. CASE ~log.restarted
          BY <1>28, <3>5, <5>1
        <5>2. CASE log.restarted
          <6>1. Control \in Stream \ log.late
            BY <1>2, <1>28, <5>2 DEF Trusted
          <6>2. call[Control].at = "wait" /\ call[Control].req.cmd = "OPEN"
                /\ call[Control].req.n = r.n /\ cq[Control] = <<>>
            BY <1>23, <2>3, <3>1, <6>1 DEF Mine
          <6>3. Socket \notin open
            BY <6>2 DEF Token
          <6>4. \A x \in Resps : x.info # "OPEN"
            BY <1>10, <6>1, <6>2, RespsAre DEF Own, Mine
          <6>5. \A c \in Cmds : c.info # "CLOSE"
            <7>1. \A c \in Cmds : c.sid = Control => c.info = "OPEN"
              BY <6>1, <6>2 DEF Own
            <7> QED
              BY <1>2, <7>1, CmdsAre DEF CommandOK
          <6>6. arx # <<>> => arx[1].info # "CLOSE"
            <7>1. arx # <<>> /\ arx[1].sid = Control => arx[1].info = "OPEN"
              BY <6>1, <6>2 DEF Own
            <7>2. arx # <<>> => arx[1].sid \in Stream
                  /\ (arx[1].sid = Socket => arx[1].info = "OTHER")
              BY HeldNat DEF ArxTypes, PacketFits, CommandOK
            <7> QED
              BY <1>2, <7>1, <7>2
          <6>7. Queued(Control) => aq[Control][1].info # "CLOSE"
            BY <6>1, <6>2 DEF Own
          <6>8. Busy(Control) => task[Control].req.cmd # "CLOSE"
            BY <2>3, <3>1 DEF r
          <6>9. ~Closing
            BY <1>2, <3>5 DEF AgtTypes, Closing
          <6>10. ~Opened
            BY <6>2, <6>4 DEF Opened, OpenReturning
          <6> QED
            BY <6>3, <6>5, <6>6, <6>7, <6>8, <6>9, <6>10 DEF NobodyOwns, CloseSent
        <5> QED
          BY <5>1, <5>2
      <4>2. /\ Socket \notin open' /\ ~Closing' /\ \A n \in Nat : ~CloseSent(n)'
            /\ ~OpenReturning' /\ \A x \in Resps : x.info # "OPEN"
        BY <1>11, <1>25, <1>26, <3>2, <4>1 DEF NobodyOwns, Opened
      <4>3. \A x \in Resps' : x.info = "OPEN" => x = Item(p)
        BY <1>12, <4>2
      <4>4. OneOwner'
        BY <4>2, <4>3 DEF OneOwner
      <4> QED
        BY <3>1, <3>3, <4>4
    <3> QED
      BY <3>4, <3>5
  <2> QED
    BY <1>4, <2>1, <2>2, <2>3 DEF Command
<1>29. Token'
  <2>1. log' = log
    BY <1>1
  <2> QED
    BY <1>11, <1>28, <2>1 DEF Token, Trusted
<1> QED
  BY <1>11, <1>12, <1>14, <1>18, <1>20, <1>21, <1>22, <1>24, <1>29

-----------------------------------------------------------------------------
(* The agent stops and starts                                              *)

\* An empty queue.
LEMMA QueueEmpty ==
    ASSUME NEW last, NEW type
    PROVE  /\ Live(<<>>, last, type) = {}
           /\ Calls(<<>>, type) = {}
           /\ Orderly(<<>>, last)
           /\ Wire(<<>>)
           /\ <<>> \in Seq(PacketSet) /\ Len(<<>>) = 0
<1>1. Len(<<>>) = 0 /\ 1 .. 0 = {} /\ <<>> \in Seq(PacketSet)
  OBVIOUS
<1>2. Live(<<>>, last, type) = {} /\ Orderly(<<>>, last)
  BY <1>1 DEF Live, LiveAt, Orderly
<1>3. Calls(<<>>, type) = {}
  BY <1>1 DEF Calls
<1>4. Wire(<<>>)
  BY <1>1 DEF Wire, CopiesFollow, CopiesOnly, Numbering
<1> QED
  BY <1>1, <1>2, <1>3, <1>4

\* Nothing is on its way to the agent, and it has seen nothing.
LEMMA DownEmpty ==
    ASSUME down' = <<>>, Last' = INVALID
    PROVE  /\ DownTypes' /\ DownOK' /\ Cmds' = {} /\ Calls(down, "COMMAND")' = {}
           /\ Orderly(down, Last)'
<1>1. DownTypes'
  BY QueueEmpty DEF DownTypes
<1>2. DownOK'
  BY QueueEmpty DEF DownOK, HeadFollows, EndSent
<1> QED
  BY <1>1, <1>2, QueueEmpty DEF Cmds

LEMMA OffKeeps ==
    ASSUME Inv, Off, UNCHANGED <<ctlVars, up>>,
           left' \in [Happenings -> Nat], left'["call"] = left["call"]
    PROVE  Inv'
<1> USE DEF Inv, Types
<1>1. /\ down' = <<>>
      /\ log' = [log EXCEPT !.gapDown = 0, !.restarted = TRUE]
      /\ agt' = [on |-> FALSE, seen |-> INVALID, sent |-> INVALID]
      /\ aq' = [s \in Stream |-> <<>>]
      /\ streams' = {}
      /\ task' = [s \in Stream |-> Idle]
      /\ arx' = <<>>
  BY DEF Off
<1>2. /\ LogTypes' /\ log'.late = log.late /\ log'.taken = log.taken
      /\ log'.restarted /\ log'.fresh = log.fresh /\ log'.mixed = log.mixed
      /\ log'.again = log.again /\ log'.dead = log.dead
      /\ log'.gapDown = 0 /\ log'.gapUp = log.gapUp
  BY <1>1 DEF LogTypes
<1>3. Trusted' => Trusted
  BY <1>2 DEF Trusted
<1>4. Verdicts'
  BY <1>2, <1>3 DEF Verdicts
<1>5. CtlTypes' /\ SyncTypes' /\ CqTypes' /\ ctl' = ctl /\ cq' = cq /\ call' = call
      /\ open' = open
  BY DEF CtlTypes, SyncTypes, CqTypes, ctlVars
<1>6. /\ \A t \in Stream : aq'[t] = <<>> /\ task'[t] = Idle
      /\ agt'.on = FALSE /\ agt'.seen = INVALID
      /\ agt' \in [on : BOOLEAN, seen : Seqno \cup {INVALID}, sent : Seqno \cup {INVALID}]
  BY <1>1
<1>7. /\ Idle \in [at : {"idle", "busy", "closing"}, req : [cmd : Command \cup {"NONE"}, n : Nat]]
      /\ Idle.at = "idle" /\ Control \in Stream /\ Socket \in Stream
  BY DEF Idle, None, Stream
<1>8. \A t \in Stream : ~Queued(t)' /\ ~Busy(t)'
  BY <1>6, <1>7 DEF Queued, Busy
<1>9. AgtTypes'
  <2>1. task' \in [Stream -> [at : {"idle", "busy", "closing"},
                              req : [cmd : Command \cup {"NONE"}, n : Nat]]]
    BY <1>1, <1>7
  <2>2. streams' = {} /\ arx' = <<>>
    BY <1>1
  <2>3. agt'.on = (Control \in streams')
    BY <1>6, <2>2
  <2> QED
    BY <1>2, <1>6, <1>7, <1>8, <2>1, <2>2, <2>3 DEF AgtTypes
<1>10. ArxTypes' /\ Last' = INVALID
  BY <1>1, <1>6, QueueEmpty DEF ArxTypes, Last
<1>11. AqTypes'
  <2>1. \A S : <<>> \in Seq(S)
    OBVIOUS
  <2> HIDE DEF PacketSet
  <2>2. aq' \in [Stream -> Seq(PacketSet \cup {Packet("CLOSE", Socket, "NONE", 0)})]
    BY <1>1, <2>1
  <2> QED
    BY <1>6, <2>2, QueueEmpty DEF AqTypes
<1>12. DownTypes' /\ DownOK' /\ Cmds' = {} /\ Calls(down, "COMMAND")' = {}
       /\ Orderly(down, Last)'
  BY <1>1, <1>10, DownEmpty
<1>13. UpTypes' /\ UpOK' /\ Resps' = Resps /\ Calls(up, "RESPONSE")' = Calls(up, "RESPONSE")
  BY <1>2, <1>5, <1>6 DEF UpTypes, UpOK, Resps
<1>14. NumbersDown'
  BY <1>1, <1>7, <1>8, <1>12 DEF NumbersDown
<1>15. NumbersUp'
  BY <1>2, <1>5, <1>7, <1>8, <1>13 DEF NumbersUp
<1>16. Own'
  BY <1>1, <1>2, <1>5, <1>8, <1>12, <1>13 DEF Own, Mine
<1>17. (\A n : ~CloseSent(n)') /\ ~Closing'
  <2>1. \A n : ~CloseSent(n)'
    BY <1>1, <1>7, <1>8, <1>12 DEF CloseSent
  <2> QED
    BY <1>6, <1>7, <2>1 DEF Closing
<1>18. (Opened' <=> Opened) /\ (OpenReturning' <=> OpenReturning)
  BY <1>5, <1>13 DEF Opened, OpenReturning
<1>19. OneOwner => OneOwner'
  BY <1>5, <1>13, <1>17, <1>18 DEF OneOwner
<1>20. UseBeforeClose'
  BY <1>1, <1>12 DEF UseBeforeClose
<1>21. Token'
  BY <1>2, <1>3, <1>5, <1>19, <1>20 DEF Token
<1> QED
  BY <1>2, <1>4, <1>5, <1>9, <1>10, <1>11, <1>12, <1>13, <1>14, <1>15, <1>16, <1>21

LEMMA AgentResetsKeeps ==
    ASSUME Inv, NEW p, AgentResets(p)
    PROVE  Inv'
<1>1. Off /\ UNCHANGED <<ctlVars, up>> /\ left' = left
  BY DEF AgentResets
<1>2. left' \in [Happenings -> Nat] /\ left'["call"] = left["call"]
  BY <1>1 DEF Inv, Types, CtlTypes
<1> QED
  BY <1>1, <1>2, OffKeeps

LEMMA AgentCrashesKeeps ==
    ASSUME Inv, AgentCrashes
    PROVE  Inv'
<1>1. Off /\ UNCHANGED <<ctlVars, up>> /\ Spend("crash") /\ "crash" \in Happenings
  BY DEF AgentCrashes, Happenings
<1>2. left' \in [Happenings -> Nat] /\ left'["call"] = left["call"]
  BY <1>1, SpendFacts DEF Inv, Types
<1> QED
  BY <1>1, <1>2, OffKeeps

\* A start notification may follow whatever the controller is still to receive.
LEMMA AgentBootsKeeps ==
    ASSUME Inv, AgentBoots
    PROVE  Inv'
<1> USE DEF Inv, Types
<1> DEFINE a == Packet("AGENT_START_NOTIFICATION", Control, "NONE", IF log.asked THEN 1 ELSE 0)
           p == Stamp(a, First(INVALID))
<1>1. /\ ~agt.on
      /\ down' = <<>> /\ up' = Append(up, p)
      /\ agt' = [on |-> TRUE, seen |-> INVALID, sent |-> First(INVALID)]
      /\ streams' = {Control}
      /\ UNCHANGED <<ctlVars, aq, task, arx, left, log>>
  BY DEF AgentBoots, Stamp
<1>2. First(INVALID) \in Seqno /\ Control \in Stream /\ Socket \in Stream /\ Control # Socket
  BY FirstSeqno DEF Stream, Control, Socket
<1>3. a \in UnsentSet /\ a.type = "AGENT_START_NOTIFICATION"
  <2>1. "AGENT_START_NOTIFICATION" \in PacketType /\ "NONE" \in Info
        /\ (IF log.asked THEN 1 ELSE 0) \in Nat
    BY DEF PacketType, Info
  <2> QED
    BY <1>2, <2>1, PacketFields
<1>4. p \in PacketSet /\ p.type = "AGENT_START_NOTIFICATION" /\ p.seq = First(INVALID)
      /\ ~p.copy
  BY <1>2, <1>3, StampedFields
<1> HIDE DEF p, a
<1>5. /\ agt.seen = INVALID /\ arx = <<>> /\ log.restarted
      /\ \A t \in Stream : aq[t] = <<>> /\ task[t].at = "idle"
  BY <1>1 DEF AgtTypes, Stream
<1>6. CtlTypes' /\ SyncTypes' /\ CqTypes' /\ LogTypes' /\ Verdicts' /\ AqTypes' /\ ArxTypes'
      /\ ctl' = ctl /\ cq' = cq /\ call' = call /\ open' = open
  BY <1>1 DEF CtlTypes, SyncTypes, CqTypes, LogTypes, Verdicts, Trusted, AqTypes,
     ArxTypes, ctlVars
<1>7. /\ agt'.on = TRUE /\ agt'.seen = INVALID /\ agt'.sent = First(INVALID)
      /\ agt' \in [on : BOOLEAN, seen : Seqno \cup {INVALID}, sent : Seqno \cup {INVALID}]
  BY <1>1, <1>2
<1>8. Last' = INVALID
  BY <1>1, <1>5, <1>7 DEF Last
<1>9. \A t \in Stream : ~Queued(t)' /\ ~Busy(t)' /\ aq'[t] = <<>> /\ task'[t].at = "idle"
  BY <1>1, <1>5 DEF Queued, Busy
<1>10. AgtTypes'
  <2>1. streams' = {Control} /\ task' = task /\ arx' = arx
    BY <1>1
  <2>2. agt'.on = (Control \in streams') /\ streams' \subseteq Stream
    BY <1>2, <1>7, <2>1
  <2> QED
    BY <1>2, <1>7, <1>9, <2>1, <2>2 DEF AgtTypes
<1>11. DownTypes' /\ DownOK' /\ Cmds' = {} /\ Calls(down, "COMMAND")' = {}
       /\ Orderly(down, Last)'
  BY <1>1, <1>8, DownEmpty
<1>12. UpTypes'
  <2>1. PacketFits(p)
    BY <1>4 DEF PacketFits
  <2>2. /\ Append(up, p) \in Seq(PacketSet) /\ Len(up) \in Nat
              /\ Len(Append(up, p)) = Len(up) + 1
        /\ \A i \in 1 .. Len(up) : Append(up, p)[i] = up[i]
        /\ Append(up, p)[Len(up) + 1] = p
    BY <1>4, AppendPlaces DEF UpTypes
  <2>3. \A i \in 1 .. Len(up) + 1 : i \in 1 .. Len(up) \/ i = Len(up) + 1
    BY <2>2
  <2> QED
    BY <1>1, <2>1, <2>2, <2>3 DEF UpTypes
<1>13. UpOK'
  <2>1. up \in Seq(PacketSet) /\ ctl.seen \in Seqno \cup {INVALID} /\ log.gapUp \in Nat
        /\ Wire(up) /\ HeadFollows(up, ctl.seen, log.gapUp)
    BY DEF UpTypes, CtlTypes, LogTypes, UpOK
  <2>2. Wire(Append(up, p))
    BY <1>4, <2>1, WireAppend DEF Numbered
  <2>3. HeadFollows(Append(up, p), ctl.seen, log.gapUp)
        /\ EndSent(Append(up, p), ctl.seen, log.gapUp, p.seq)
    BY <1>4, <2>1, PositionAppend
  <2>4. log' = log /\ ctl' = ctl /\ up' = Append(up, p) /\ agt'.sent = p.seq
    BY <1>1, <1>4, <1>6, <1>7
  <2> QED
    BY <2>2, <2>3, <2>4 DEF UpOK
<1>14. /\ \A r \in Resps' : r \in Resps
       /\ \A n \in Calls(up, "RESPONSE")' : n \in Calls(up, "RESPONSE")
  <2>1. up \in Seq(PacketSet) /\ p.type # "RESPONSE"
    BY <1>4 DEF UpTypes
  <2> QED
    BY <1>1, <1>4, <1>6, <2>1, LiveAppend DEF Resps
<1>15. NumbersDown'
  BY <1>1, <1>2, <1>5, <1>9, <1>11 DEF NumbersDown
<1>16. NumbersUp'
  BY <1>1, <1>2, <1>6, <1>9, <1>14 DEF NumbersUp
<1>17. Own'
  BY <1>1, <1>5, <1>6, <1>9, <1>11, <1>14 DEF Own, Mine
<1>18. (\A n : ~CloseSent(n)') /\ ~Closing'
  <2>1. \A n : ~CloseSent(n)'
    BY <1>1, <1>2, <1>5, <1>9, <1>11 DEF CloseSent
  <2> QED
    BY <1>2, <1>9, <2>1 DEF Closing
<1>19. (Opened' => Opened) /\ (OpenReturning' <=> OpenReturning)
  BY <1>6, <1>14 DEF Opened, OpenReturning
<1>20. OneOwner => OneOwner'
  BY <1>6, <1>14, <1>18, <1>19 DEF OneOwner
<1>21. UseBeforeClose'
  BY <1>1, <1>5, <1>11 DEF UseBeforeClose
<1>22. Token'
  <2>1. log' = log
    BY <1>1
  <2> QED
    BY <1>5, <1>6, <1>20, <1>21, <2>1 DEF Token, Trusted
<1> QED
  BY <1>6, <1>10, <1>11, <1>12, <1>13, <1>15, <1>16, <1>17, <1>22

-----------------------------------------------------------------------------
(* The invariant holds in every state                                      *)

LEMMA InitInv ==
    ASSUME Init
    PROVE  Inv
<1>1. Control # Socket /\ Control \in Stream /\ Socket \in Stream
  BY DEF Control, Socket, Stream
<1>2. /\ ctl = [seen |-> INVALID, sent |-> INVALID, token |-> 0, status |-> "NONE"]
      /\ call = [s \in Stream |-> Idle] /\ task = [s \in Stream |-> Idle]
      /\ cq = [s \in Stream |-> <<>>] /\ aq = [s \in Stream |-> <<>>]
      /\ open = {Control} /\ streams = {Control}
      /\ down = <<>> /\ arx = <<>>
      /\ agt = [on |-> TRUE, seen |-> INVALID, sent |-> 0]
      /\ left \in [Happenings -> Nat]
  BY LinkAssumption DEF Init
<1>3. /\ Idle \in [at : {"idle", "wait"}, req : [cmd : Command \cup {"NONE"}, n : Nat]]
      /\ Idle \in [at : {"idle", "busy", "closing"}, req : [cmd : Command \cup {"NONE"}, n : Nat]]
      /\ Idle.at = "idle"
  BY DEF Idle, None
<1>4. \A s \in Stream : cq[s] = <<>> /\ aq[s] = <<>> /\ call[s] = Idle /\ task[s] = Idle
  BY <1>2
<1>5. /\ ctl.seen = INVALID /\ agt.on = TRUE /\ agt.seen = INVALID /\ agt.sent = 0
      /\ 0 \in Seqno
  BY <1>2, InvalidSeqno
<1>6. CtlTypes
  <2>1. ctl \in [seen : Seqno \cup {INVALID}, sent : Seqno \cup {INVALID},
                 token : Nat, status : {"NONE", "TIMEOUT", "OK"}]
    BY <1>2
  <2>2. call \in [Stream -> [at : {"idle", "wait"}, req : [cmd : Command \cup {"NONE"}, n : Nat]]]
    BY <1>2, <1>3
  <2> QED
    BY <1>1, <1>2, <2>1, <2>2 DEF CtlTypes
<1>7. SyncTypes
  BY DEF Init, SyncTypes
<1>8. /\ LogTypes /\ log.taken = {} /\ log.late = {} /\ log.gapUp = 0 /\ log.gapDown = 0
      /\ ~log.fresh /\ ~log.mixed /\ ~log.again /\ ~log.dead /\ ~log.restarted
  BY DEF Init, LogTypes
<1>9. \A S : <<>> \in Seq(S) /\ Len(<<>>) = 0
  OBVIOUS
<1>10. CqTypes /\ AqTypes /\ ArxTypes
  <2> HIDE DEF PacketSet
  <2>1. /\ cq \in [Stream -> Seq(PacketSet)]
        /\ aq \in [Stream -> Seq(PacketSet \cup {Packet("CLOSE", Socket, "NONE", 0)})]
    BY <1>2, <1>9
  <2> QED
    BY <1>2, <1>4, <1>9, <2>1 DEF CqTypes, AqTypes, ArxTypes
<1>11. \A s \in Stream : ~Queued(s) /\ ~Busy(s)
  BY <1>3, <1>4 DEF Queued, Busy
<1>12. AgtTypes
  <2>1. /\ task \in [Stream -> [at : {"idle", "busy", "closing"},
                                req : [cmd : Command \cup {"NONE"}, n : Nat]]]
        /\ agt \in [on : BOOLEAN, seen : Seqno \cup {INVALID}, sent : Seqno \cup {INVALID}]
    BY <1>2, <1>3, <1>5
  <2>2. streams = {Control} /\ arx = <<>>
    BY <1>2
  <2>3. agt.on = (Control \in streams) /\ agt.sent \in Seqno
    BY <1>5, <2>2
  <2> QED
    BY <1>1, <1>3, <1>4, <1>5, <1>11, <2>1, <2>2, <2>3 DEF AgtTypes
<1>13. Last = INVALID
  BY <1>2, <1>5 DEF Last
<1>14. DownTypes /\ DownOK /\ Cmds = {} /\ Calls(down, "COMMAND") = {} /\ Orderly(down, Last)
  <2>1. DownTypes
    BY <1>2, QueueEmpty DEF DownTypes
  <2>2. DownOK
    BY <1>2, <1>13, QueueEmpty DEF DownOK, HeadFollows, EndSent
  <2> QED
    BY <1>2, <2>1, <2>2, QueueEmpty DEF Cmds
\* The start notification alone.
<1> DEFINE a == Packet("AGENT_START_NOTIFICATION", Control, "NONE", 0)
           p == Stamp(a, 0)
<1>15. p \in PacketSet /\ p.type = "AGENT_START_NOTIFICATION" /\ p.seq = 0 /\ ~p.copy
  <2>1. "AGENT_START_NOTIFICATION" \in PacketType /\ "NONE" \in Info /\ 0 \in Nat
    BY DEF PacketType, Info
  <2>2. a \in UnsentSet /\ a.type = "AGENT_START_NOTIFICATION"
    BY <1>1, <2>1, PacketFields
  <2> HIDE DEF a
  <2> QED
    BY <1>5, <2>2, StampedFields
<1>16. up = <<p>>
  BY DEF Init, Stamp
<1> HIDE DEF p, a
<1>17. Len(up) = 1 /\ up[1] = p /\ up \in Seq(PacketSet) /\ up # <<>>
  <2> HIDE DEF PacketSet
  <2> QED
    BY <1>15, <1>16
<1>18. UpTypes
  <2>1. \A i \in 1 .. Len(up) : up[i] = p
    BY <1>17
  <2> QED
    BY <1>15, <1>17, <2>1 DEF UpTypes, PacketFits
<1>19. UpOK
  <2>1. \A i, j \in 1 .. Len(up) : i = 1 /\ j = 1
    BY <1>17
  <2>2. CopiesFollow(up) /\ CopiesOnly(up) /\ Numbering(up)
    BY <1>15, <1>17, <2>1 DEF CopiesFollow, CopiesOnly, Numbering
  <2>3. HeadFollows(up, ctl.seen, log.gapUp) /\ EndSent(up, ctl.seen, log.gapUp, agt.sent)
    BY <1>5, <1>15, <1>17 DEF HeadFollows, EndSent
  <2> QED
    BY <2>2, <2>3 DEF UpOK, Wire
<1>20. Resps = {} /\ Calls(up, "RESPONSE") = {}
  <2>1. \A i \in 1 .. Len(up) : up[i].type # "RESPONSE"
    BY <1>15, <1>17
  <2>2. LiveAt(up, ctl.seen, "RESPONSE") = {}
    BY <2>1 DEF LiveAt
  <2> QED
    BY <2>1, <2>2 DEF Resps, Live, Calls
<1>21. NumbersDown /\ NumbersUp
  BY <1>1, <1>2, <1>4, <1>8, <1>11, <1>14, <1>20 DEF NumbersDown, NumbersUp
<1>22. Own
  BY <1>2, <1>4, <1>11, <1>14, <1>20 DEF Own
<1>23. /\ \A n : ~CloseSent(n)
       /\ ~Opened /\ ~OpenReturning /\ ~Closing
  <2>1. \A n : ~CloseSent(n)
    BY <1>1, <1>2, <1>11, <1>14 DEF CloseSent
  <2>2. ~Opened /\ ~OpenReturning
    BY <1>1, <1>4, <1>20 DEF Opened, OpenReturning
  <2>3. ~Closing
    BY <1>1, <1>3, <1>4 DEF Closing
  <2> QED
    BY <2>1, <2>2, <2>3
<1>24. Socket \notin open
  BY <1>1, <1>2
<1>25. Token
  BY <1>2, <1>14, <1>20, <1>23, <1>24 DEF Token, OneOwner, UseBeforeClose, NobodyOwns
<1>26. Verdicts
  BY <1>8 DEF Verdicts
<1> QED
  BY <1>6, <1>7, <1>8, <1>10, <1>12, <1>14, <1>18, <1>19, <1>21, <1>22, <1>25, <1>26
     DEF Inv, Types

LEMMA StutterKeeps ==
    ASSUME Inv, UNCHANGED vars
    PROVE  Inv'
<1> USE DEF Inv, Types
<1>1. UNCHANGED <<ctl, cq, call, open, sync, down, up, agt, aq, streams, task, arx, left, log>>
  BY DEF vars, ctlVars, agtVars
<1>2. CtlTypes' /\ SyncTypes' /\ CqTypes' /\ LogTypes' /\ Verdicts'
  BY <1>1 DEF CtlTypes, SyncTypes, CqTypes, LogTypes, Verdicts, Trusted
<1>3. AgtTypes' /\ ArxTypes' /\ AqTypes' /\ Last' = Last
  BY <1>1, AgentStays DEF agtVars
<1>4. DownTypes' /\ DownOK' /\ Cmds' = Cmds /\ Calls(down, "COMMAND")' = Calls(down, "COMMAND")
      /\ (Orderly(down, Last)' <=> Orderly(down, Last))
  BY <1>1, <1>3, DownStays
<1>5. UpTypes' /\ UpOK' /\ Resps' = Resps /\ Calls(up, "RESPONSE")' = Calls(up, "RESPONSE")
  BY <1>1, UpStays
<1>6. Shrinks
  BY <1>1, <1>4, <1>5 DEF Shrinks
<1> QED
  BY <1>2, <1>3, <1>4, <1>5, <1>6, ShrinksKeeps

LEMMA NextKeeps ==
    ASSUME Inv, [Next]_vars
    PROVE  Inv'
<1>1. CASE App
  BY <1>1, CallKeeps, SyncSendKeeps, RequestResetKeeps, AgentEventKeeps DEF App
<1>2. CASE Progress
  <2>1. CASE AgentReceive
    BY <2>1, AgentDropsKeeps, AgentRefusesKeeps, AgentAcceptsKeeps, AgentSyncsKeeps,
       AgentResetsKeeps DEF AgentReceive
  <2>2. CASE \E s \in Stream : TaskTakes(s) \/ TaskResponds(s) \/ TaskFrees(s)
    BY <2>2, TaskTakesKeeps, TaskRespondsKeeps, TaskFreesKeeps
  <2> QED
    BY <1>2, <2>1, <2>2, CallReturnsKeeps, SyncNoteTokenKeeps, SyncPresetKeeps,
       SyncReturnKeeps,
       ControllerDropsKeeps, ControllerRxKeeps, AgentPushesKeeps, AgentBootsKeeps DEF Progress
<1>3. CASE Fault
  BY <1>3, CallTimesOutKeeps, LoseDownKeeps, LoseUpKeeps, RepeatDownKeeps,
     RepeatUpKeeps,
     AgentCrashesKeeps DEF Fault
<1>4. CASE UNCHANGED vars
  BY <1>4, StutterKeeps
<1> QED
  BY <1>1, <1>2, <1>3, <1>4 DEF Next

\* The inductive invariant holds in every state of the link: the sequence
\* numbers of both directions, the place of every call's number between the
\* controller and the agent, the call each packet belongs to, and who owns the
\* socket (mmagic_llc_agent.c, mmagic_controller.c, mmagic_m2m_agent.c).
THEOREM LinkInvariant == Spec => []Inv
<1>1. Init => Inv
  BY InitInv
<1>2. Inv /\ [Next]_vars => Inv'
  BY NextKeeps
<1> QED
  BY <1>1, <1>2, PTL DEF Spec

LEMMA InvTypeOK ==
    ASSUME Inv
    PROVE  TypeOK
<1> USE DEF Inv, Types
<1>1. /\ ctl.seen \in Seqno \cup {INVALID} /\ ctl.sent \in Seqno \cup {INVALID}
      /\ ctl.token \in Nat /\ ctl.status \in {"NONE", "TIMEOUT", "OK"}
      /\ \A s \in Stream : call[s].at \in {"idle", "wait"}
      /\ open \subseteq Stream
  BY DEF CtlTypes
<1>2. /\ agt.seen \in Seqno \cup {INVALID} /\ agt.sent \in Seqno \cup {INVALID}
      /\ streams \subseteq Stream
      /\ \A s \in Stream : task[s].at \in {"idle", "busy", "closing"}
  BY DEF AgtTypes
<1>3. agt.on = (streams # {})
  <2>1. agt.on = (Control \in streams) /\ (Socket \in streams => Control \in streams)
        /\ streams \subseteq {Control, Socket} /\ agt.on \in BOOLEAN
    BY DEF AgtTypes, Stream
  <2>2. Control \in streams <=> streams # {}
    BY <2>1
  <2> QED
    BY <2>1, <2>2
<1>4. (\A s \in Stream : Len(cq[s]) <= 1 /\ Len(aq[s]) <= 1) /\ Len(arx) <= 1
  BY DEF CqTypes, AqTypes, ArxTypes
<1>5. sync.at \in {"idle", "sent", "noted", "poll"}
  BY DEF SyncTypes
<1>6. \A q \in Seq(PacketSet) : \A i \in DOMAIN q : PacketOK(q[i])
  <2>1. \A q \in Seq(PacketSet) : \A i \in DOMAIN q : q[i] \in PacketSet
    <3> HIDE DEF PacketSet
    <3> QED
      OBVIOUS
  <2> QED
    BY <2>1 DEF PacketSet, PacketOK
<1>7. down \in Seq(PacketSet) /\ up \in Seq(PacketSet)
  BY DEF DownTypes, UpTypes
<1> QED
  BY <1>1, <1>2, <1>3, <1>4, <1>5, <1>6, <1>7 DEF TypeOK

\* Both receive callbacks, under any losses, repetitions and restarts: what is
\* dropped is a repetition, unless so many packets were lost that the sequence
\* numbers came round, and no dead queue is used as long as the agent does not
\* restart or no call on the control stream is given up
\* (mmagic_llc_agent_rx_buffer_callback, mmagic_m2m_rx_callback).
THEOREM LinkSoundness == Spec => []LinkSound
<1>1. Inv => LinkSound
  <2> SUFFICES ASSUME Inv
               PROVE  LinkSound
    OBVIOUS
  <2>1. TypeOK
    BY InvTypeOK
  <2>2. OnlyRepetitionsDropped /\ NoDeadQueue
    BY DEF Inv, Verdicts, Trusted, OnlyRepetitionsDropped, NoDeadQueue
  <2> QED
    BY <2>1, <2>2 DEF LinkSound
<1> QED
  BY <1>1, LinkInvariant, PTL

\* A call on a stream that never timed out before gets the response to its own
\* command, whatever is lost or repeated and however often the agent restarts
\* (mmagic_controller_rx compares no more than the command).
THEOREM OwnAnswerAlways == Spec => []OwnAnswer
<1>1. Inv => OwnAnswer
  BY DEF Inv, Verdicts, OwnAnswer
<1> QED
  BY <1>1, LinkInvariant, PTL

\* No command is carried out twice by the agent's tasks, although the data link
\* repeats packets and the agent restarts (the sequence number check of
\* mmagic_llc_agent_rx_buffer_callback).
THEOREM CommandsOnce == Spec => []CarriedOutOnce
<1>1. Inv => CarriedOutOnce
  BY DEF Inv, Verdicts, CarriedOutOnce
<1> QED
  BY <1>1, LinkInvariant, PTL

=============================================================================
