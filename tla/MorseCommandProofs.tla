------------------------- MODULE MorseCommandProofs -------------------------
(***************************************************************************)
(* The theorems about MorseCommand, for every number of tries, range of    *)
(* sequence numbers, number of commands, faults and restarts.              *)
(***************************************************************************)
EXTENDS MorseCommand, TLAPS, SequenceTheorems

-----------------------------------------------------------------------------
(* The inductive invariant, in parts                                       *)

InCall == {"send", "wait", "take", "finish", "return"}
Place == InCall \cup {"idle", "want", "stop task", "wake caller", "delete", "init"}
Command == [req : Requests \cup {None}, rsp : Responses \cup {None}]

\* What TypeOK says, and that the lists are lists.
Types ==
    /\ {started, running, semb} \subseteq BOOLEAN
    /\ holder \in Threads \cup {None}
    /\ seq \in 0 .. MaxSeq
    /\ pending \in Requests \cup {None}
    /\ rspview \in Responses \cup {None}
    /\ skbq \in Seq(Requests) /\ sending \in Seq(Requests)
    /\ unanswered \in Seq(Requests) /\ chip \in Seq(Requests)
    /\ up \in Seq(Responses)
    /\ pc \in [Threads -> Place]
    /\ cmd \in [Threads -> Command]
    /\ odd \subseteq Timings
    /\ issued \in 0 .. MaxCommands /\ faults \in Nat /\ restarts \in Nat

\* The thread in a call holds cmd.wait, and its command is the last one issued.
Holder ==
    \A t \in Threads :
        /\ pc[t] \in InCall <=> holder = t
        /\ holder = t => /\ cmd[t].req \in Requests
                         /\ cmd[t].req.n = issued /\ cmd[t].req.seq = seq

\* A driver that is stopped writes nothing.
Task ==
    /\ ~running => sending = <<>>
    /\ pc[Loop] \in {"wake caller", "delete", "init"} => ~running

\* As long as the driver writes no command whose caller has stopped waiting,
\* there is at most one packet in the lists, that of the present try.
OnlyPacket(r) ==
    \/ skbq = <<r>> /\ sending = <<>> /\ unanswered = <<>>
    \/ skbq = <<>> /\ sending = <<r>> /\ unanswered = <<>>
    \/ skbq = <<>> /\ sending = <<>> /\ unanswered = <<r>>

NoPacket == skbq = <<>> /\ sending = <<>> /\ unanswered = <<>>

Lists ==
    "overlap" \notin odd =>
        \/ NoPacket
        \/ \E t \in Threads :
              /\ pc[t] = "wait" \/ (pc[t] \in {"take", "finish"} /\ sending = <<>>)
              /\ OnlyPacket(cmd[t].req)

\* The sequence number of a request follows from its age, as long as that is
\* less than the range of sequence numbers.
Numbered(r) ==
    /\ r.n <= issued
    /\ issued - r.n < MaxSeq =>
          r.seq = seq - (issued - r.n) \/ r.seq = seq - (issued - r.n) + MaxSeq

Numbers ==
    /\ \A i \in DOMAIN skbq : Numbered(skbq[i])
    /\ \A i \in DOMAIN sending : Numbered(sending[i])
    /\ \A i \in DOMAIN chip : Numbered(chip[i])
    /\ \A i \in DOMAIN up : Numbered(up[i].req)

\* As long as no response comes between two tries and there is a packet for
\* every try, what is expected and what has come is of the last command.
Answer ==
    "gap" \notin odd /\ "no room" \notin odd =>
        /\ pending # None =>
              /\ pending.n = issued /\ pending.seq = seq
              /\ \E t \in Threads :
                    \/ pc[t] \in {"wait", "take"}
                    \/ pc[t] = "finish" /\ cmd[t].rsp = None /\ ~LastTry(cmd[t].req)
                    \/ pc[t] = "send" /\ cmd[t].req.retry > 0
        /\ rspview # None =>
              /\ pending = None /\ rspview.req.n = issued
              /\ \E t \in Threads : pc[t] \in {"wait", "take"}
        /\ \A t \in Threads :
              pc[t] = "finish" /\ cmd[t].rsp # None => cmd[t].rsp.req.n = issued

IInv == Types /\ Holder /\ Task /\ Lists /\ Numbers /\ Answer

-----------------------------------------------------------------------------
(* Lists and numbers                                                       *)

\* mmpkt_list_remove leaves the other packets, and takes the only one away.
LEMMA Removed ==
    ASSUME NEW list \in Seq(Requests), NEW r
    PROVE  /\ Without(list, r) \in Seq(Requests)
           /\ \A i \in DOMAIN Without(list, r) :
                 \E j \in DOMAIN list : Without(list, r)[i] = list[j]
           /\ list = <<>> => Without(list, r) = <<>>
           /\ list = <<r>> => Without(list, r) = <<>>
  <1>1. CASE r \notin Range(list)
    <2>1. Without(list, r) = list
      BY <1>1 DEF Without
    <2>2. list # <<r>>
      BY <1>1 DEF Range
    <2> QED
      BY <2>1, <2>2
  <1>2. CASE r \in Range(list)
    <2> DEFINE k == CHOOSE i \in DOMAIN list : list[i] = r
               one == SubSeq(list, 1, k - 1)
               two == SubSeq(list, k + 1, Len(list))
    <2>1. k \in DOMAIN list
      BY <1>2 DEF Range
    <2>2. Without(list, r) = one \o two
      BY <1>2 DEF Without, RemoveAt
    <2> HIDE DEF k
    <2>3. k \in 1 .. Len(list) /\ Len(list) \in Nat
          /\ \A i \in 1 .. Len(list) : list[i] \in Requests
      BY <2>1
    <2>4. /\ one \in Seq(Requests) /\ Len(one) = k - 1
          /\ \A i \in 1 .. k - 1 : one[i] = list[i]
      BY <2>3
    <2>5. /\ two \in Seq(Requests) /\ Len(two) = Len(list) - k
          /\ \A i \in 1 .. Len(list) - k : two[i] = list[k + i]
      <3>1. \A i \in k + 1 .. Len(list) : list[i] \in Requests
        BY <2>3
      <3>2. /\ two \in Seq(Requests)
            /\ Len(two) = IF k + 1 <= Len(list) THEN Len(list) - (k + 1) + 1 ELSE 0
            /\ \A i \in 1 .. Len(list) - (k + 1) + 1 : two[i] = list[k + 1 + i - 1]
        BY <2>3, <3>1, SubSeqProperties
      <3> HIDE DEF two
      <3>3. Len(two) = Len(list) - k
        <4>1. CASE k + 1 <= Len(list)
          BY <2>3, <3>2, <4>1
        <4>2. CASE k = Len(list)
          <5>1. Len(two) = 0
            BY <2>3, <3>2, <4>2
          <5> QED
            BY <2>3, <4>2, <5>1
        <4>3. k + 1 <= Len(list) \/ k = Len(list)
          BY <2>3
        <4> QED
          BY <4>1, <4>2, <4>3
      <3>4. \A i \in 1 .. Len(list) - k :
               i \in 1 .. Len(list) - (k + 1) + 1 /\ k + 1 + i - 1 = k + i
        BY <2>3
      <3> QED
        BY <3>2, <3>3, <3>4
    <2> HIDE DEF one, two
    <2>6. /\ one \o two \in Seq(Requests)
          /\ DOMAIN (one \o two) = 1 .. Len(list) - 1
          /\ \A i \in 1 .. Len(list) - 1 :
                (one \o two)[i] = IF i <= k - 1 THEN list[i] ELSE list[i + 1]
      <3>1. /\ one \o two \in Seq(Requests)
            /\ Len(one \o two) = Len(one) + Len(two)
            /\ \A i \in 1 .. Len(one) + Len(two) :
                  (one \o two)[i] = IF i <= Len(one) THEN one[i] ELSE two[i - Len(one)]
        BY <2>4, <2>5, ConcatProperties
      <3>2. Len(one) + Len(two) = Len(list) - 1
        BY <2>3, <2>4, <2>5
      <3>3. ASSUME NEW i \in 1 .. Len(list) - 1
            PROVE  (one \o two)[i] = IF i <= k - 1 THEN list[i] ELSE list[i + 1]
        <4>1. CASE i <= k - 1
          BY <2>3, <2>4, <3>1, <3>2, <4>1
        <4>2. CASE ~(i <= k - 1)
          <5>1. i - (k - 1) \in 1 .. Len(list) - k /\ k + (i - (k - 1)) = i + 1
            BY <2>3, <4>2
          <5>2. two[i - (k - 1)] = list[i + 1]
            BY <2>5, <5>1
          <5> QED
            BY <2>4, <3>1, <3>2, <4>2, <5>2
        <4> QED
          BY <4>1, <4>2
      <3>4. DOMAIN (one \o two) = 1 .. Len(list) - 1
        BY <3>1, <3>2
      <3> QED
        BY <3>1, <3>3, <3>4, Zenon
    <2>7. \A i \in 1 .. Len(list) - 1 : i \in DOMAIN list /\ i + 1 \in DOMAIN list
      BY <2>3
    <2>8. \A i \in DOMAIN (one \o two) : \E j \in DOMAIN list : (one \o two)[i] = list[j]
      BY <2>6, <2>7
    <2>9. list # <<>>
      BY <2>3
    <2>10. list = <<r>> => one \o two = <<>>
      BY <2>3, <2>6
    <2> QED
      BY <2>2, <2>6, <2>8, <2>9, <2>10
  <1> QED
    BY <1>1, <1>2

\* Lists of one packet and of none.
LEMMA OnePacket ==
    ASSUME NEW r \in Requests
    PROVE  /\ Append(<<>>, r) = <<r>> /\ Head(<<r>>) = r /\ Tail(<<r>>) = <<>>
           /\ <<r>> # <<>> /\ Range(<<r>>) = {r} /\ Range(<<>>) = {}
  BY DEF Range

\* What is added to a list keeps the numbers of the others.
LEMMA NumbersAppend ==
    ASSUME NEW S, NEW list \in Seq(S), NEW r \in S
    PROVE  /\ Append(list, r) \in Seq(S)
           /\ \A i \in DOMAIN Append(list, r) :
                 \/ i \in DOMAIN list /\ Append(list, r)[i] = list[i]
                 \/ Append(list, r)[i] = r
  OBVIOUS

\* What is taken off the front leaves the others.
LEMMA NumbersTail ==
    ASSUME NEW S, NEW list \in Seq(S), list # <<>>
    PROVE  /\ Head(list) \in S /\ Tail(list) \in Seq(S)
           /\ Head(list) = list[1] /\ 1 \in DOMAIN list
           /\ \A i \in DOMAIN Tail(list) :
                 i + 1 \in DOMAIN list /\ Tail(list)[i] = list[i + 1]
  OBVIOUS

\* A request grows older by the command that takes the next number.
LEMMA NextNumber ==
    ASSUME NEW s \in 0 .. MaxSeq, NEW k \in Nat, NEW n \in Nat, n <= k,
           NEW q \in 1 .. MaxSeq,
           k - n < MaxSeq => q = s - (k - n) \/ q = s - (k - n) + MaxSeq
    PROVE  (k + 1) - n < MaxSeq =>
              \/ q = NextSeq(s) - ((k + 1) - n)
              \/ q = NextSeq(s) - ((k + 1) - n) + MaxSeq
  BY CommandAssumption DEF NextSeq

\* A number that has not wrapped since is that of the last command.
LEMMA SameNumber ==
    ASSUME NEW s \in Nat, NEW k \in Nat, NEW n \in Nat, NEW m \in Nat, n <= k, k - n < m,
           s = s - (k - n) \/ s = s - (k - n) + m
    PROVE  n = k
  OBVIOUS

\* The numbers that are compared.
LEMMA Numeric ==
    ASSUME Types
    PROVE  /\ issued \in Nat /\ seq \in Nat /\ MaxSeq \in Nat
           /\ \A r \in Requests : r.n \in Nat /\ r.seq \in Nat
  <1>1. issued \in Nat /\ seq \in Nat /\ MaxSeq \in Nat
    BY CommandAssumption DEF Types
  <1>2. \A r \in Requests : r.n \in Nat /\ r.seq \in Nat
    BY CommandAssumption DEF Requests
  <1> QED
    BY <1>1, <1>2

\* What fails is counted.
LEMMA WorksNat ==
    ASSUME Types, NEW ok \in BOOLEAN, Works(ok)
    PROVE  faults' \in Nat
  <1>1. faults \in Nat
    BY DEF Types
  <1> QED
    BY <1>1 DEF Works

\* The members of the lists are requests.
LEMMA Members ==
    ASSUME Types
    PROVE  /\ \A i \in DOMAIN skbq : skbq[i] \in Requests
           /\ \A i \in DOMAIN sending : sending[i] \in Requests
           /\ \A i \in DOMAIN chip : chip[i] \in Requests
           /\ \A i \in DOMAIN up : up[i].req \in Requests
  <1>1. /\ \A i \in DOMAIN skbq : skbq[i] \in Requests
        /\ \A i \in DOMAIN sending : sending[i] \in Requests
        /\ \A i \in DOMAIN chip : chip[i] \in Requests
        /\ \A i \in DOMAIN up : up[i] \in Responses
    BY DEF Types
  <1> QED
    BY <1>1 DEF Responses

\* The numbers of lists whose members are of the lists before.
LEMMA NumbersKept ==
    ASSUME Numbers, UNCHANGED <<seq, issued>>,
           \A i \in DOMAIN skbq' : Numbered(skbq'[i]),
           \A i \in DOMAIN sending' : Numbered(sending'[i]),
           \A i \in DOMAIN chip' : Numbered(chip'[i]),
           \A i \in DOMAIN up' : Numbered(up'[i].req)
    PROVE  Numbers'
  BY DEF Numbers, Numbered

\* The thread that holds cmd.wait is the only one in a call.
LEMMA Alone ==
    ASSUME IInv, NEW t \in Threads, pc[t] \in InCall
    PROVE  /\ holder = t /\ cmd[t].req \in Requests
           /\ cmd[t].req.n = issued /\ cmd[t].req.seq = seq /\ Numbered(cmd[t].req)
           /\ \A u \in Threads : pc[u] \in InCall => u = t
  <1>1. /\ holder = t /\ cmd[t].req \in Requests
        /\ cmd[t].req.n = issued /\ cmd[t].req.seq = seq
        /\ \A u \in Threads : pc[u] \in InCall => u = t
    BY DEF IInv, Holder
  <1>2. Numbered(cmd[t].req)
    BY <1>1 DEF Numbered, IInv, Types
  <1> QED
    BY <1>1, <1>2

-----------------------------------------------------------------------------
(* Every action keeps the invariant                                        *)


\* morse_cmd_tx: a thread wants cmd.wait.
LEMMA EnterKeeps ==
    ASSUME IInv, NEW t \in Threads, Enter(t)
    PROVE  IInv'
  <1>1. Types'
    BY CommandAssumption DEF Enter, Goto, cmdVars, queues, link, IInv,
       Threads, Types, Place, InCall, Command, Timings
  <1>2. Holder'
    BY CommandAssumption DEF Enter, Goto, cmdVars, queues, link, IInv,
       Threads, Types, Place, InCall, Command, Holder
  <1>3. Task'
    BY CommandAssumption DEF Enter, Goto, cmdVars, queues, link, IInv,
       Threads, Types, Place, InCall, Task
  <1>4. Lists'
    BY CommandAssumption DEF Enter, Goto, cmdVars, queues, link, IInv,
       Threads, Types, Command, Holder, InCall, Lists, OnlyPacket,
       NoPacket, Timings
  <1>5. Numbers'
    BY CommandAssumption DEF Enter, Goto, cmdVars, queues, link, IInv,
       Threads, Types, Numbers, Numbered
  <1>6. Answer'
    BY CommandAssumption DEF Enter, Goto, cmdVars, queues, link, IInv,
       Threads, Types, Command, Holder, InCall, Answer, LastTry, Timings
  <1> QED
    BY <1>1, <1>2, <1>3, <1>4, <1>5, <1>6 DEF IInv

\* It has it, and its command a sequence number.
LEMMA AcquireKeeps ==
    ASSUME IInv, NEW t \in Threads, Acquire(t)
    PROVE  IInv'
  <1>a. CASE ~started /\ pc' = [pc EXCEPT ![t] = "idle"] /\ UNCHANGED <<cmdVars, cmd, issued>>
    <2>1. Types' /\ Holder' /\ Task'
      BY <1>a, CommandAssumption DEF Acquire, cmdVars, queues, link, IInv, Threads, Types,
         Place, InCall, Command, Holder, Task
    <2>2. Lists' /\ Answer'
      BY <1>a, CommandAssumption DEF Acquire, cmdVars, queues, link, IInv, Threads, Types,
         Place, InCall, Command, Holder, Lists, OnlyPacket, NoPacket, Answer, LastTry
    <2>3. Numbers'
      BY <1>a DEF Acquire, cmdVars, queues, link, IInv, Numbers, Numbered
    <2> QED
      BY <2>1, <2>2, <2>3 DEF IInv
  <1>b. CASE started /\ issued < MaxCommands /\ holder' = t
    <2> DEFINE next(id) == Request(issued + 1, id, seq', 0)
    <2>1. /\ seq' = NextSeq(seq) /\ seq' \in 1 .. MaxSeq
          /\ issued' = issued + 1 /\ issued' \in 1 .. MaxCommands
          /\ pc[t] = "want" /\ holder = None /\ pc' = [pc EXCEPT ![t] = "send"]
          /\ UNCHANGED <<pending, rspview, semb, odd, started, running, queues, link,
                         faults, restarts>>
      BY <1>b, CommandAssumption DEF Acquire, Goto, NextSeq, cmdVars, IInv, Types
    <2>2. PICK id \in Ids : cmd' = [cmd EXCEPT ![t] = [req |-> next(id), rsp |-> None]]
      BY <1>b, CommandAssumption DEF Acquire, cmdVars
    <2>3. /\ next(id) \in Requests /\ next(id).n = issued' /\ next(id).seq = seq'
          /\ [req |-> next(id), rsp |-> None] \in Command
      BY <2>1, CommandAssumption DEF Request, Requests, Command
    <2> HIDE DEF next
    <2>4. cmd' \in [Threads -> Command] /\ cmd'[t].req = next(id)
          /\ \A u \in Threads : u # t => cmd'[u] = cmd[u]
      BY <2>2, <2>3 DEF IInv, Types
    <2>5. pc' \in [Threads -> Place] /\ pc'[t] = "send"
          /\ \A u \in Threads : u # t => pc'[u] = pc[u]
      BY <2>1 DEF IInv, Types, Place, InCall
    <2>6. Types'
      BY <1>b, <2>1, <2>4, <2>5 DEF queues, link, IInv, Types
    <2>7. Holder'
      BY <1>b, <2>1, <2>3, <2>4, <2>5, CommandAssumption DEF IInv, Holder, InCall, Threads
    <2>8. Task' /\ pc[t] \notin {"take", "finish", "wait"}
      BY <2>1, <2>5 DEF queues, IInv, Task, Threads
    <2>9. NoPacket \/ "overlap" \in odd
      BY <2>1, CommandAssumption DEF IInv, Lists, Holder, InCall, Threads
    <2>10. Lists'
      BY <2>1, <2>9 DEF queues, Lists, NoPacket
    <2>11. ASSUME NEW r \in Requests, Numbered(r)
           PROVE  Numbered(r)'
      <3>1. /\ seq \in 0 .. MaxSeq /\ issued \in Nat /\ r.n \in Nat /\ r.seq \in 1 .. MaxSeq
            /\ r.n <= issued
            /\ issued - r.n < MaxSeq =>
                  r.seq = seq - (issued - r.n) \/ r.seq = seq - (issued - r.n) + MaxSeq
        BY <2>11 DEF Requests, Numbered, IInv, Types
      <3>2. (issued + 1) - r.n < MaxSeq =>
              \/ r.seq = NextSeq(seq) - ((issued + 1) - r.n)
              \/ r.seq = NextSeq(seq) - ((issued + 1) - r.n) + MaxSeq
        BY <3>1, NextNumber
      <3> QED
        BY <2>1, <3>1, <3>2 DEF Numbered
    <2>12. Numbers'
      <3>2. UNCHANGED <<skbq, sending, chip, up>>
        BY <2>1 DEF queues, link
      <3> QED
        BY <2>11, <3>2, Members, Zenon DEF IInv, Numbers
    <2>13. "gap" \notin odd /\ "no room" \notin odd => pending = None /\ rspview = None
      BY <2>1, CommandAssumption DEF IInv, Answer, Holder, InCall, Threads
    <2>14. \A u \in Threads : pc'[u] # "finish"
      BY <2>1, <2>5, CommandAssumption DEF IInv, Holder, InCall, Threads
    <2>15. Answer'
      BY <2>1, <2>13, <2>14 DEF Answer
    <2> QED
      BY <2>6, <2>7, <2>8, <2>10, <2>12, <2>15 DEF IInv
  <1> QED
    BY <1>a, <1>b DEF Acquire, Goto

\* A try is queued.
LEMMA SendKeeps ==
    ASSUME IInv, NEW t \in Threads, Send(t)
    PROVE  IInv'
  <1> DEFINE r == cmd[t].req
  <1>a. pc[t] = "send" /\ pc[t] \in InCall
    BY DEF Send, InCall
  <1>b. /\ holder = t /\ r \in Requests /\ r.n = issued /\ r.seq = seq /\ Numbered(r)
        /\ \A u \in Threads : pc[u] \in InCall => u = t
    BY <1>a, Alone
  <1>c. "overlap" \notin odd => NoPacket
    BY <1>a, <1>b DEF IInv, Lists, InCall
  <1>d. PICK ok \in BOOLEAN :
          /\ Works(ok)
          /\ Notice("no room", ~ok /\ r.retry > 0)
          /\ ok => skbq' = Append(skbq, r) /\ pending' = r /\ Goto(t, "wait")
          /\ ~ok => Goto(t, "return") /\ UNCHANGED <<skbq, pending>>
    BY DEF Send
  <1>e. UNCHANGED <<started, running, holder, seq, rspview, semb, sending, unanswered,
                    chip, up, cmd, issued, restarts>>
    BY DEF Send, link
  <1>1. Types'
    <2>1. pc' \in [Threads -> Place]
      BY <1>d DEF Goto, IInv, Types, Place, InCall
    <2>2. skbq' \in Seq(Requests) /\ pending' \in Requests \cup {None}
      <3>1. CASE ok
        <4>1. Append(skbq, r) \in Seq(Requests)
          BY <1>b, NumbersAppend DEF IInv, Types
        <4> QED
          BY <1>b, <1>d, <3>1, <4>1
      <3>2. CASE ~ok
        BY <1>d, <3>2 DEF IInv, Types
      <3> QED
        BY <3>1, <3>2
    <2>3. faults' \in Nat
      BY <1>d, WorksNat DEF IInv
    <2>4. odd' \subseteq Timings
      BY <1>d DEF Notice, IInv, Types, Timings
    <2> QED
      BY <1>e, <2>1, <2>2, <2>3, <2>4 DEF IInv, Types
  <1>2. Holder'
    BY <1>a, CommandAssumption DEF Send, Goto, Works, Notice, cmdVars,
       queues, link, IInv, Threads, Types, Place, InCall, Command, Holder
  <1>3. Task'
    BY <1>a, CommandAssumption DEF Send, Goto, Works, Notice, cmdVars,
       queues, link, IInv, Threads, Types, Place, InCall, Task
  <1>4. Lists'
    <2>1. CASE ok
      <3>1. "overlap" \notin odd => skbq' = <<r>> /\ sending' = <<>> /\ unanswered' = <<>>
        BY <1>b, <1>c, <1>d, <1>e, <2>1, OnePacket DEF NoPacket
      <3>2. pc'[t] = "wait" /\ cmd'[t].req = r /\ ("overlap" \in odd => "overlap" \in odd')
        BY <1>d, <1>e, <2>1 DEF Goto, Notice, IInv, Types
      <3> QED
        BY <3>1, <3>2 DEF Lists, OnlyPacket
    <2>2. CASE ~ok
      BY <1>c, <1>d, <1>e, <2>2 DEF Notice, Lists, NoPacket
    <2> QED
      BY <2>1, <2>2
  <1>5. Numbers'
    <2>1. \A i \in DOMAIN skbq' : Numbered(skbq'[i])
      <3>1. CASE ok
        <4>1. \A i \in DOMAIN Append(skbq, r) :
                 \/ i \in DOMAIN skbq /\ Append(skbq, r)[i] = skbq[i]
                 \/ Append(skbq, r)[i] = r
          BY <1>b, NumbersAppend DEF IInv, Types
        <4> QED
          BY <1>b, <1>d, <3>1, <4>1 DEF IInv, Numbers
      <3>2. CASE ~ok
        BY <1>d, <3>2 DEF IInv, Numbers
      <3> QED
        BY <3>1, <3>2
    <2> QED
      BY <1>e, <2>1, NumbersKept DEF IInv, Numbers
  <1>6. Answer'
    BY <1>a, CommandAssumption DEF Send, Goto, Works, Notice, cmdVars,
       queues, link, IInv, Threads, Types, Command, Holder, InCall, Answer,
       LastTry, Timings
  <1> QED
    BY <1>1, <1>2, <1>3, <1>4, <1>5, <1>6 DEF IInv

\* The semaphore wakes the caller.
LEMMA WakeKeeps ==
    ASSUME IInv, NEW t \in Threads, Wake(t)
    PROVE  IInv'
  <1>1. Types'
    BY CommandAssumption DEF Wake, StopsWaiting, Goto, Notice, cmdVars,
       queues, link, IInv, Threads, Types, Place, InCall, Command, Timings
  <1>2. Holder'
    BY CommandAssumption DEF Wake, StopsWaiting, Goto, Notice, cmdVars,
       queues, link, IInv, Threads, Types, Place, InCall, Command, Holder
  <1>3. Task'
    BY CommandAssumption DEF Wake, StopsWaiting, Goto, Notice, cmdVars,
       queues, link, IInv, Threads, Types, Place, InCall, Task
  <1>4. Lists'
    BY CommandAssumption DEF Wake, StopsWaiting, Goto, Notice, cmdVars,
       queues, link, IInv, Threads, Types, Command, Holder, InCall, Lists,
       OnlyPacket, NoPacket, Timings
  <1>5. Numbers'
    BY CommandAssumption DEF Wake, StopsWaiting, Goto, Notice, cmdVars,
       queues, link, IInv, Threads, Types, Numbers, Numbered
  <1>6. Answer'
    BY CommandAssumption DEF Wake, StopsWaiting, Goto, Notice, cmdVars,
       queues, link, IInv, Threads, Types, Command, Holder, InCall, Answer,
       LastTry, Timings
  <1> QED
    BY <1>1, <1>2, <1>3, <1>4, <1>5, <1>6 DEF IInv

\* The try times out.
LEMMA TimeOutKeeps ==
    ASSUME IInv, NEW t \in Threads, TimeOut(t)
    PROVE  IInv'
  <1>1. Types'
    BY CommandAssumption DEF TimeOut, StopsWaiting, Goto, Notice, cmdVars,
       queues, link, IInv, Threads, Types, Place, InCall, Command, Timings
  <1>2. Holder'
    BY CommandAssumption DEF TimeOut, StopsWaiting, Goto, Notice, cmdVars,
       queues, link, IInv, Threads, Types, Place, InCall, Command, Holder
  <1>3. Task'
    BY CommandAssumption DEF TimeOut, StopsWaiting, Goto, Notice, cmdVars,
       queues, link, IInv, Threads, Types, Place, InCall, Task
  <1>4. Lists'
    BY CommandAssumption DEF TimeOut, StopsWaiting, Goto, Notice, cmdVars,
       queues, link, IInv, Threads, Types, Command, Holder, InCall, Lists,
       OnlyPacket, NoPacket, Timings
  <1>5. Numbers'
    BY CommandAssumption DEF TimeOut, StopsWaiting, Goto, Notice, cmdVars,
       queues, link, IInv, Threads, Types, Numbers, Numbered
  <1>6. Answer'
    BY CommandAssumption DEF TimeOut, StopsWaiting, Goto, Notice, cmdVars,
       queues, link, IInv, Threads, Types, Command, Holder, InCall, Answer,
       LastTry, Timings
  <1> QED
    BY <1>1, <1>2, <1>3, <1>4, <1>5, <1>6 DEF IInv

\* The caller takes the response, if there is one.
LEMMA TakeKeeps ==
    ASSUME IInv, NEW t \in Threads, Take(t)
    PROVE  IInv'
  <1>1. Types'
    BY CommandAssumption DEF Take, Goto, cmdVars, queues, link, IInv,
       Threads, Types, Place, InCall, Command, Timings
  <1>2. Holder'
    BY CommandAssumption DEF Take, Goto, cmdVars, queues, link, IInv,
       Threads, Types, Place, InCall, Command, Holder
  <1>3. Task'
    BY CommandAssumption DEF Take, Goto, cmdVars, queues, link, IInv,
       Threads, Types, Place, InCall, Task
  <1>4. Lists'
    BY CommandAssumption DEF Take, Goto, cmdVars, queues, link, IInv,
       Threads, Types, Command, Holder, InCall, Lists, OnlyPacket,
       NoPacket, Timings
  <1>5. Numbers'
    BY CommandAssumption DEF Take, Goto, cmdVars, queues, link, IInv,
       Threads, Types, Numbers, Numbered
  <1>6. Answer'
    BY CommandAssumption DEF Take, Goto, cmdVars, queues, link, IInv,
       Threads, Types, Command, Holder, InCall, Answer, LastTry, Timings
  <1> QED
    BY <1>1, <1>2, <1>3, <1>4, <1>5, <1>6 DEF IInv

\* morse_skbq_tx_finish: the packet of the try is taken out of its list.
LEMMA TxFinishKeeps ==
    ASSUME IInv, NEW t \in Threads, TxFinish(t)
    PROVE  IInv'
  <1> DEFINE r == cmd[t].req
  <1>a. pc[t] = "finish" /\ pc[t] \in InCall
    BY DEF TxFinish, InCall
  <1>b. /\ holder = t /\ r \in Requests /\ r.n = issued /\ r.seq = seq
        /\ \A u \in Threads : pc[u] \in InCall => u = t
    BY <1>a, Alone
  <1>c. /\ unanswered' = Without(unanswered, r)
        /\ skbq' = IF unanswered = <<>> THEN Without(skbq, r) ELSE skbq
        /\ UNCHANGED <<odd, started, running, holder, seq, pending, rspview, semb, sending,
                       chip, up, issued, faults, restarts>>
    BY DEF TxFinish, cmdVars, link
  <1>d. \/ /\ Unanswered(t) /\ ~LastTry(r)
           /\ cmd' = [cmd EXCEPT ![t].req.retry = @ + 1]
           /\ pc' = [pc EXCEPT ![t] = "send"]
        \/ /\ ~(Unanswered(t) /\ ~LastTry(r))
           /\ cmd' = cmd /\ pc' = [pc EXCEPT ![t] = "return"]
    BY DEF TxFinish, Goto
  <1>e. /\ pc' \in [Threads -> Place] /\ pc'[t] \in {"send", "return"}
        /\ \A u \in Threads : u # t => pc'[u] = pc[u]
    BY <1>d DEF IInv, Types, Place, InCall
  <1>f. /\ cmd' \in [Threads -> Command]
        /\ cmd'[t].req \in Requests /\ cmd'[t].req.n = r.n /\ cmd'[t].req.seq = r.seq
        /\ \A u \in Threads : u # t => cmd'[u] = cmd[u]
        /\ pc'[t] = "send" => cmd'[t].req.retry > 0
    <2>1. cmd[t] \in Command /\ r.retry \in 0 .. MaxRetry - 1
      BY <1>b DEF IInv, Types, Requests
    <2>2. CASE Unanswered(t) /\ ~LastTry(r)
      <3> DEFINE q == [r EXCEPT !.retry = @ + 1]
                 c == [cmd[t] EXCEPT !.req = q]
      <3>1. q \in Requests /\ q.n = r.n /\ q.seq = r.seq /\ q.retry > 0
        BY <1>b, <2>1, <2>2, CommandAssumption DEF Requests, LastTry
      <3>2. c \in Command /\ c.req = q
        BY <2>1, <3>1 DEF Command
      <3>3. cmd' = [cmd EXCEPT ![t] = c]
        BY <1>d, <2>2, <2>1 DEF Command, IInv, Types, Requests
      <3> HIDE DEF q, c
      <3> QED
        BY <3>1, <3>2, <3>3 DEF IInv, Types
    <2>3. CASE ~(Unanswered(t) /\ ~LastTry(r))
      BY <1>a, <1>b, <1>d, <2>3 DEF IInv, Types
    <2> QED
      BY <2>2, <2>3
  <1>g. /\ Without(unanswered, r) \in Seq(Requests) /\ Without(skbq, r) \in Seq(Requests)
        /\ \A i \in DOMAIN Without(skbq, r) :
              \E j \in DOMAIN skbq : Without(skbq, r)[i] = skbq[j]
        /\ unanswered = <<>> \/ unanswered = <<r>> => Without(unanswered, r) = <<>>
        /\ skbq = <<>> \/ skbq = <<r>> => Without(skbq, r) = <<>>
    BY Removed DEF IInv, Types
  <1> HIDE DEF r
  <1>1. Types'
    BY <1>c, <1>e, <1>f, <1>g DEF IInv, Types
  <1>2. Holder'
    BY <1>b, <1>c, <1>e, <1>f DEF IInv, Holder, InCall
  <1>3. Task'
    BY <1>a, CommandAssumption DEF TxFinish, Goto, Unanswered, cmdVars,
       queues, link, IInv, Threads, Types, Place, InCall, Task
  <1>4. Lists'
    <2> SUFFICES ASSUME "overlap" \notin odd PROVE NoPacket'
      BY <1>c DEF Lists
    <2>1. sending = <<>> /\ (NoPacket \/ OnlyPacket(r))
      BY <1>a, <1>b DEF IInv, Lists, NoPacket, InCall, r
    <2> QED
      BY <1>b, <1>c, <1>g, <2>1, OnePacket DEF NoPacket, OnlyPacket
  <1>5. Numbers'
    <2>1. \A i \in DOMAIN skbq' : Numbered(skbq'[i])
      BY <1>c, <1>g DEF IInv, Numbers
    <2> QED
      BY <1>c, <2>1, NumbersKept DEF IInv, Numbers
  <1>6. Answer'
    <2> SUFFICES ASSUME "gap" \notin odd, "no room" \notin odd PROVE Answer'
      BY <1>c DEF Answer
    <2>1. rspview = None
      BY <1>a, <1>b DEF IInv, Answer, InCall
    <2>2. pending # None => pending.n = issued /\ pending.seq = seq /\ pc'[t] = "send"
      <3>1. pending # None => cmd[t].rsp = None /\ ~LastTry(r)
        BY <1>a, <1>b DEF IInv, Answer, InCall, r
      <3>2. pending # None => pc'[t] = "send"
        BY <1>d, <3>1 DEF Unanswered, IInv, Types
      <3> QED
        BY <3>2 DEF IInv, Answer
    <2>3. \A u \in Threads : pc'[u] # "finish"
      BY <1>b, <1>e DEF InCall
    <2> QED
      BY <1>c, <1>f, <2>1, <2>2, <2>3 DEF Answer
  <1> QED
    BY <1>1, <1>2, <1>3, <1>4, <1>5, <1>6 DEF IInv

\* The call returns.
LEMMA ReturnKeeps ==
    ASSUME IInv, NEW t \in Threads, Return(t)
    PROVE  IInv'
  <1>1. Types'
    <2>1. {started, running, semb}' \subseteq BOOLEAN
      BY CommandAssumption DEF Return, Goto, cmdVars, queues, link, IInv,
         Types, Threads
    <2>2. pc' \in [Threads -> Place] /\ cmd' \in [Threads -> Command]
      BY CommandAssumption DEF Return, Goto, cmdVars, queues, link, IInv,
         Types, Threads, Place, InCall, Command, NoCommand, Requests
    <2>3. /\ skbq' \in Seq(Requests) /\ sending' \in Seq(Requests)
          /\ unanswered' \in Seq(Requests) /\ chip' \in Seq(Requests)
          /\ up' \in Seq(Responses)
      BY CommandAssumption DEF Return, Goto, cmdVars, queues, link, IInv,
         Types, Threads
    <2>4. /\ pending' \in Requests \cup {None} /\ rspview' \in Responses \cup {None}
          /\ holder' \in Threads \cup {None}
      BY CommandAssumption DEF Return, Goto, cmdVars, queues, link, IInv,
         Types, Threads, Command, Holder, InCall
    <2>5. /\ seq' \in 0 .. MaxSeq /\ issued' \in 0 .. MaxCommands
          /\ faults' \in Nat /\ restarts' \in Nat
      BY CommandAssumption DEF Return, Goto, cmdVars, queues, link, IInv,
         Types, Threads
    <2>6. odd' \subseteq Timings
      BY CommandAssumption DEF Return, Goto, cmdVars, queues, link, IInv,
         Types, Threads, Timings
    <2> QED
      BY <2>1, <2>2, <2>3, <2>4, <2>5, <2>6 DEF Types
  <1>2. Holder'
    BY CommandAssumption DEF Return, Goto, cmdVars, queues, link, IInv,
       Threads, Types, Place, InCall, Command, Holder
  <1>3. Task'
    BY CommandAssumption DEF Return, Goto, cmdVars, queues, link, IInv,
       Threads, Types, Place, InCall, Task
  <1>4. Lists'
    BY CommandAssumption DEF Return, Goto, cmdVars, queues, link, IInv,
       Threads, Types, Command, Holder, InCall, Lists, OnlyPacket,
       NoPacket, Timings
  <1>5. Numbers'
    BY CommandAssumption DEF Return, Goto, cmdVars, queues, link, IInv,
       Threads, Types, Numbers, Numbered
  <1>6. Answer'
    BY CommandAssumption DEF Return, Goto, cmdVars, queues, link, IInv,
       Threads, Types, Command, Holder, InCall, Answer, LastTry, Timings
  <1> QED
    BY <1>1, <1>2, <1>3, <1>4, <1>5, <1>6 DEF IInv

\* morse_yaps_tx takes the queue.
LEMMA TakeQueueKeeps ==
    ASSUME IInv, TakeQueue
    PROVE  IInv'
  <1>1. Types'
    BY CommandAssumption DEF TakeQueue, Notice, cmdVars, queues, link,
       IInv, Threads, Types, Place, InCall, Command, Timings
  <1>2. Holder'
    BY CommandAssumption DEF TakeQueue, Notice, cmdVars, queues, link,
       IInv, Threads, Types, Place, InCall, Command, Holder
  <1>3. Task'
    BY CommandAssumption DEF TakeQueue, Notice, cmdVars, queues, link,
       IInv, Threads, Types, Place, InCall, Task
  <1>4. Lists'
    BY CommandAssumption DEF TakeQueue, Notice, cmdVars, queues, link,
       IInv, Threads, Types, Command, Holder, InCall, Lists, OnlyPacket,
       NoPacket, Timings
  <1>5. Numbers'
    BY CommandAssumption DEF TakeQueue, Notice, cmdVars, queues, link,
       IInv, Threads, Types, Numbers, Numbered
  <1>6. Answer'
    BY CommandAssumption DEF TakeQueue, Notice, cmdVars, queues, link,
       IInv, Threads, Types, Command, Holder, InCall, Answer, LastTry,
       Timings
  <1> QED
    BY <1>1, <1>2, <1>3, <1>4, <1>5, <1>6 DEF IInv

\* It writes a packet.
LEMMA WriteKeeps ==
    ASSUME IInv, Write
    PROVE  IInv'
  <1> DEFINE r == Head(sending)
  <1>a. PICK ok \in BOOLEAN :
          /\ Works(ok)
          /\ sending' = Tail(sending)
          /\ ok => unanswered' = Append(unanswered, r) /\ chip' = Append(chip, r)
          /\ ~ok => UNCHANGED <<unanswered, chip>>
    BY DEF Write
  <1>b. /\ running /\ sending # <<>>
        /\ UNCHANGED <<odd, started, running, holder, seq, pending, rspview, semb, skbq, up,
                       pc, cmd, issued, restarts>>
    BY DEF Write, cmdVars
  <1>c. /\ r \in Requests /\ Tail(sending) \in Seq(Requests) /\ Numbered(r)
        /\ \A i \in DOMAIN Tail(sending) : Numbered(Tail(sending)[i])
    BY <1>b, NumbersTail DEF IInv, Types, Numbers
  <1> HIDE DEF r
  <1>1. Types'
    <2>1. unanswered' \in Seq(Requests) /\ chip' \in Seq(Requests)
      <3>1. CASE ok
        <4>1. Append(unanswered, r) \in Seq(Requests) /\ Append(chip, r) \in Seq(Requests)
          BY <1>c, NumbersAppend DEF IInv, Types
        <4> QED
          BY <1>a, <3>1, <4>1
      <3>2. CASE ~ok
        BY <1>a, <3>2 DEF IInv, Types
      <3> QED
        BY <3>1, <3>2
    <2>2. faults' \in Nat
      BY <1>a, WorksNat DEF IInv
    <2> QED
      BY <1>a, <1>b, <1>c, <2>1, <2>2 DEF IInv, Types
  <1>2. Holder'
    BY <1>a, CommandAssumption DEF Write, Works, cmdVars, queues, link,
       IInv, Threads, Types, Place, InCall, Command, Holder
  <1>3. Task'
    BY <1>a, CommandAssumption DEF Write, Works, cmdVars, queues, link,
       IInv, Threads, Types, Place, InCall, Task
  <1>4. Lists'
    <2> SUFFICES ASSUME "overlap" \notin odd PROVE Lists'
      BY <1>b DEF Lists
    <2>1. PICK t \in Threads : pc[t] = "wait" /\ OnlyPacket(cmd[t].req)
      BY <1>b DEF IInv, Lists, NoPacket
    <2>2. pc[t] \in InCall
      BY <2>1 DEF InCall
    <2>3. cmd[t].req \in Requests
      BY <2>2, Alone
    <2>4. sending = <<cmd[t].req>> /\ skbq = <<>> /\ unanswered = <<>>
      BY <1>b, <2>1 DEF OnlyPacket
    <2>5. r = cmd[t].req /\ sending' = <<>>
      BY <1>a, <2>3, <2>4, OnePacket DEF r
    <2>6. unanswered' = <<r>> \/ unanswered' = <<>>
      BY <1>a, <1>c, <2>4, OnePacket
    <2> QED
      BY <1>b, <2>1, <2>4, <2>5, <2>6 DEF Lists, OnlyPacket, NoPacket
  <1>5. Numbers'
    <2>1. \A i \in DOMAIN chip' : Numbered(chip'[i])
      <3>1. \A i \in DOMAIN Append(chip, r) :
               \/ i \in DOMAIN chip /\ Append(chip, r)[i] = chip[i]
               \/ Append(chip, r)[i] = r
        BY <1>c, NumbersAppend DEF IInv, Types
      <3> QED
        BY <1>a, <1>c, <3>1 DEF IInv, Numbers
    <2> QED
      BY <1>a, <1>b, <1>c, <2>1, NumbersKept DEF IInv, Numbers
  <1>6. Answer'
    BY <1>a, CommandAssumption DEF Write, Works, cmdVars, queues, link,
       IInv, Threads, Types, Command, Holder, InCall, Answer, LastTry,
       Timings
  <1> QED
    BY <1>1, <1>2, <1>3, <1>4, <1>5, <1>6 DEF IInv

\* morse_cmd_resp_process.
LEMMA RespProcessKeeps ==
    ASSUME IInv, RespProcess
    PROVE  IInv'
  <1>1. Types'
    <2>1. {started, running, semb}' \subseteq BOOLEAN
      BY CommandAssumption DEF RespProcess, Notice, InGap, cmdVars,
         queues, link, IInv, Types, Threads
    <2>2. pc' \in [Threads -> Place] /\ cmd' \in [Threads -> Command]
      BY CommandAssumption DEF RespProcess, Notice, InGap, cmdVars,
         queues, link, IInv, Types, Threads, Place, InCall, Command,
         NoCommand, Requests
    <2>3. /\ skbq' \in Seq(Requests) /\ sending' \in Seq(Requests)
          /\ unanswered' \in Seq(Requests) /\ chip' \in Seq(Requests)
          /\ up' \in Seq(Responses)
      BY CommandAssumption DEF RespProcess, Notice, InGap, cmdVars,
         queues, link, IInv, Types, Threads
    <2>4. /\ pending' \in Requests \cup {None} /\ rspview' \in Responses \cup {None}
          /\ holder' \in Threads \cup {None}
      BY CommandAssumption DEF RespProcess, Notice, InGap, cmdVars,
         queues, link, IInv, Types, Threads, Command, Holder, InCall
    <2>5. /\ seq' \in 0 .. MaxSeq /\ issued' \in 0 .. MaxCommands
          /\ faults' \in Nat /\ restarts' \in Nat
      BY CommandAssumption DEF RespProcess, Notice, InGap, cmdVars,
         queues, link, IInv, Types, Threads
    <2>6. odd' \subseteq Timings
      BY CommandAssumption DEF RespProcess, Notice, InGap, cmdVars,
         queues, link, IInv, Types, Threads, Timings
    <2> QED
      BY <2>1, <2>2, <2>3, <2>4, <2>5, <2>6 DEF Types
  <1>2. Holder'
    BY CommandAssumption DEF RespProcess, Notice, InGap, cmdVars, queues,
       link, IInv, Threads, Types, Place, InCall, Command, Holder
  <1>3. Task'
    BY CommandAssumption DEF RespProcess, Notice, InGap, cmdVars, queues,
       link, IInv, Threads, Types, Place, InCall, Task
  <1>4. Lists'
    BY CommandAssumption DEF RespProcess, Notice, InGap, cmdVars, queues,
       link, IInv, Threads, Types, Command, Holder, InCall, Lists,
       OnlyPacket, NoPacket, Timings
  <1>5. Numbers'
    BY CommandAssumption DEF RespProcess, Notice, InGap, cmdVars, queues,
       link, IInv, Threads, Types, Numbers, Numbered
  <1>6. Answer'
    <2> DEFINE r == Head(up).req
    <2> SUFFICES ASSUME "gap" \notin odd', "no room" \notin odd' PROVE Answer'
      BY DEF Answer
    <2>1. "gap" \notin odd /\ "no room" \notin odd /\ ~InGap
      BY DEF RespProcess, Notice
    <2>2. UNCHANGED <<holder, seq, pc, cmd, issued>> /\ issued - r.n < MaxSeq
      BY DEF RespProcess
    <2>3. CASE ~Expected(r)
      <3>1. UNCHANGED <<rspview, pending>>
        BY <2>3 DEF RespProcess
      <3> QED
        BY <2>1, <2>2, <3>1 DEF IInv, Answer, LastTry
    <2>4. CASE Expected(r)
      <3>1. rspview' = Head(up) /\ pending' = None
        BY <2>4 DEF RespProcess
      <3>2. pending # None /\ pending.seq = r.seq /\ pending.n = issued /\ pending.seq = seq
        BY <2>1, <2>4 DEF Expected, IInv, Answer
      <3>3. \E t \in Threads : pc[t] \in {"wait", "take"}
        BY <2>1, <3>2 DEF IInv, Answer, InGap
      <3>4. r \in Requests /\ Numbered(r)
        <4>1. Head(up) = up[1] /\ 1 \in DOMAIN up
          BY NumbersTail DEF RespProcess, IInv, Types
        <4> QED
          BY <4>1, Members DEF IInv, Numbers
      <3>5. r.n = issued
        <4>1. r.n \in Nat /\ issued \in Nat /\ seq \in Nat /\ MaxSeq \in Nat
          BY <3>4, Numeric DEF IInv
        <4> HIDE DEF r
        <4>2. /\ r.n <= issued /\ issued - r.n < MaxSeq /\ r.seq = seq
              /\ r.seq = seq - (issued - r.n) \/ r.seq = seq - (issued - r.n) + MaxSeq
          BY <2>2, <3>2, <3>4 DEF Numbered
        <4>3. seq = seq - (issued - r.n) \/ seq = seq - (issued - r.n) + MaxSeq
          BY <4>2
        <4> QED
          BY <4>1, <4>2, <4>3, SameNumber
      <3>6. \A t \in Threads : pc[t] # "finish"
        BY <2>1 DEF InGap
      <3> QED
        BY <2>2, <3>1, <3>3, <3>5, <3>6 DEF Answer
    <2> QED
      BY <2>3, <2>4
  <1> QED
    BY <1>1, <1>2, <1>3, <1>4, <1>5, <1>6 DEF IInv

\* The chip answers.
LEMMA ChipAnswersKeeps ==
    ASSUME IInv, ChipAnswers
    PROVE  IInv'
  <1>a. PICK good \in BOOLEAN :
          /\ Works(good)
          /\ up' = Append(up, [req |-> Head(chip), good |-> good])
    BY DEF ChipAnswers
  <1>b. /\ chip # <<>> /\ chip' = Tail(chip)
        /\ UNCHANGED <<odd, started, running, holder, seq, pending, rspview, semb, skbq,
                       sending, unanswered, pc, cmd, issued, restarts>>
    BY DEF ChipAnswers, cmdVars, queues
  <1> DEFINE a == [req |-> Head(chip), good |-> good]
  <1>c. /\ a \in Responses /\ Tail(chip) \in Seq(Requests) /\ Numbered(a.req)
        /\ \A i \in DOMAIN Tail(chip) : Numbered(Tail(chip)[i])
    <2>1. /\ Head(chip) \in Requests /\ Tail(chip) \in Seq(Requests) /\ Numbered(Head(chip))
          /\ \A i \in DOMAIN Tail(chip) : Numbered(Tail(chip)[i])
      BY <1>b, NumbersTail DEF IInv, Types, Numbers
    <2> QED
      BY <2>1 DEF Responses
  <1> HIDE DEF a
  <1>1. Types'
    <2>1. up' \in Seq(Responses)
      BY <1>a, <1>c DEF IInv, Types, a
    <2>2. faults' \in Nat
      BY <1>a, WorksNat DEF IInv
    <2> QED
      BY <1>b, <1>c, <2>1, <2>2 DEF IInv, Types
  <1>2. Holder'
    BY <1>a, CommandAssumption DEF ChipAnswers, Works, cmdVars, queues,
       link, IInv, Threads, Types, Place, InCall, Command, Holder
  <1>3. Task'
    BY <1>a, CommandAssumption DEF ChipAnswers, Works, cmdVars, queues,
       link, IInv, Threads, Types, Place, InCall, Task
  <1>4. Lists'
    BY <1>a, CommandAssumption DEF ChipAnswers, Works, cmdVars, queues,
       link, IInv, Threads, Types, Command, Holder, InCall, Lists,
       OnlyPacket, NoPacket, Timings
  <1>5. Numbers'
    <2>1. \A i \in DOMAIN up' : Numbered(up'[i].req)
      <3>1. \A i \in DOMAIN Append(up, a) :
               \/ i \in DOMAIN up /\ Append(up, a)[i] = up[i]
               \/ Append(up, a)[i] = a
        BY <1>c, NumbersAppend DEF IInv, Types
      <3>2. up' = Append(up, a)
        BY <1>a DEF a
      <3> QED
        BY <1>c, <3>1, <3>2 DEF IInv, Numbers
    <2> QED
      BY <1>b, <1>c, <2>1, NumbersKept DEF IInv, Numbers
  <1>6. Answer'
    BY <1>a, CommandAssumption DEF ChipAnswers, Works, cmdVars, queues,
       link, IInv, Threads, Types, Command, Holder, InCall, Answer,
       LastTry, Timings
  <1> QED
    BY <1>1, <1>2, <1>3, <1>4, <1>5, <1>6 DEF IInv

\* The chip loses a request.
LEMMA ChipLosesKeeps ==
    ASSUME IInv, ChipLoses
    PROVE  IInv'
  <1>1. Types'
    <2>1. {started, running, semb}' \subseteq BOOLEAN
      BY CommandAssumption DEF ChipLoses, Works, cmdVars, queues, link,
         IInv, Types, Threads
    <2>2. pc' \in [Threads -> Place] /\ cmd' \in [Threads -> Command]
      BY CommandAssumption DEF ChipLoses, Works, cmdVars, queues, link,
         IInv, Types, Threads, Place, InCall, Command, NoCommand,
         Requests
    <2>3. /\ skbq' \in Seq(Requests) /\ sending' \in Seq(Requests)
          /\ unanswered' \in Seq(Requests) /\ chip' \in Seq(Requests)
          /\ up' \in Seq(Responses)
      BY CommandAssumption DEF ChipLoses, Works, cmdVars, queues, link,
         IInv, Types, Threads
    <2>4. /\ pending' \in Requests \cup {None} /\ rspview' \in Responses \cup {None}
          /\ holder' \in Threads \cup {None}
      BY CommandAssumption DEF ChipLoses, Works, cmdVars, queues, link,
         IInv, Types, Threads, Command, Holder, InCall
    <2>5. /\ seq' \in 0 .. MaxSeq /\ issued' \in 0 .. MaxCommands
          /\ faults' \in Nat /\ restarts' \in Nat
      BY CommandAssumption DEF ChipLoses, Works, cmdVars, queues, link,
         IInv, Types, Threads
    <2>6. odd' \subseteq Timings
      BY CommandAssumption DEF ChipLoses, Works, cmdVars, queues, link,
         IInv, Types, Threads, Timings
    <2> QED
      BY <2>1, <2>2, <2>3, <2>4, <2>5, <2>6 DEF Types
  <1>2. Holder'
    BY CommandAssumption DEF ChipLoses, Works, cmdVars, queues, link, IInv,
       Threads, Types, Place, InCall, Command, Holder
  <1>3. Task'
    BY CommandAssumption DEF ChipLoses, Works, cmdVars, queues, link, IInv,
       Threads, Types, Place, InCall, Task
  <1>4. Lists'
    BY CommandAssumption DEF ChipLoses, Works, cmdVars, queues, link, IInv,
       Threads, Types, Command, Holder, InCall, Lists, OnlyPacket,
       NoPacket, Timings
  <1>5. Numbers'
    BY CommandAssumption DEF ChipLoses, Works, cmdVars, queues, link, IInv,
       Threads, Types, Numbers, Numbered
  <1>6. Answer'
    BY CommandAssumption DEF ChipLoses, Works, cmdVars, queues, link, IInv,
       Threads, Types, Command, Holder, InCall, Answer, LastTry, Timings
  <1> QED
    BY <1>1, <1>2, <1>3, <1>4, <1>5, <1>6 DEF IInv

\* A response is lost.
LEMMA ResponseLostKeeps ==
    ASSUME IInv, ResponseLost
    PROVE  IInv'
  <1>1. Types'
    <2>1. {started, running, semb}' \subseteq BOOLEAN
      BY CommandAssumption DEF ResponseLost, Works, cmdVars, queues,
         link, IInv, Types, Threads
    <2>2. pc' \in [Threads -> Place] /\ cmd' \in [Threads -> Command]
      BY CommandAssumption DEF ResponseLost, Works, cmdVars, queues,
         link, IInv, Types, Threads, Place, InCall, Command, NoCommand,
         Requests
    <2>3. /\ skbq' \in Seq(Requests) /\ sending' \in Seq(Requests)
          /\ unanswered' \in Seq(Requests) /\ chip' \in Seq(Requests)
          /\ up' \in Seq(Responses)
      BY CommandAssumption DEF ResponseLost, Works, cmdVars, queues,
         link, IInv, Types, Threads
    <2>4. /\ pending' \in Requests \cup {None} /\ rspview' \in Responses \cup {None}
          /\ holder' \in Threads \cup {None}
      BY CommandAssumption DEF ResponseLost, Works, cmdVars, queues,
         link, IInv, Types, Threads, Command, Holder, InCall
    <2>5. /\ seq' \in 0 .. MaxSeq /\ issued' \in 0 .. MaxCommands
          /\ faults' \in Nat /\ restarts' \in Nat
      BY CommandAssumption DEF ResponseLost, Works, cmdVars, queues,
         link, IInv, Types, Threads
    <2>6. odd' \subseteq Timings
      BY CommandAssumption DEF ResponseLost, Works, cmdVars, queues,
         link, IInv, Types, Threads, Timings
    <2> QED
      BY <2>1, <2>2, <2>3, <2>4, <2>5, <2>6 DEF Types
  <1>2. Holder'
    BY CommandAssumption DEF ResponseLost, Works, cmdVars, queues, link,
       IInv, Threads, Types, Place, InCall, Command, Holder
  <1>3. Task'
    BY CommandAssumption DEF ResponseLost, Works, cmdVars, queues, link,
       IInv, Threads, Types, Place, InCall, Task
  <1>4. Lists'
    BY CommandAssumption DEF ResponseLost, Works, cmdVars, queues, link,
       IInv, Threads, Types, Command, Holder, InCall, Lists, OnlyPacket,
       NoPacket, Timings
  <1>5. Numbers'
    <2>1. up # <<>> /\ up' = Tail(up) /\ UNCHANGED <<seq, issued, skbq, sending, chip>>
      BY DEF ResponseLost, cmdVars, queues
    <2>2. \A i \in DOMAIN up' : i + 1 \in DOMAIN up /\ up'[i] = up[i + 1]
      BY <2>1, NumbersTail DEF IInv, Types
    <2>3. \A i \in DOMAIN up' : Numbered(up'[i].req)
      BY <2>2 DEF IInv, Numbers
    <2> QED
      BY <2>1, <2>3, NumbersKept DEF IInv, Numbers
  <1>6. Answer'
    BY CommandAssumption DEF ResponseLost, Works, cmdVars, queues, link,
       IInv, Threads, Types, Command, Holder, InCall, Answer, LastTry,
       Timings
  <1> QED
    BY <1>1, <1>2, <1>3, <1>4, <1>5, <1>6 DEF IInv

\* mmdrv_deinit begins.
LEMMA DeinitKeeps ==
    ASSUME IInv, Deinit
    PROVE  IInv'
  <1>1. Types'
    <2>1. restarts' \in Nat
      <3>1. restarts \in Nat
        BY DEF IInv, Types
      <3>2. restarts' = restarts + 1
        BY DEF Deinit
      <3> QED
        BY <3>1, <3>2
    <2>2. pc' \in [Threads -> Place]
      BY DEF Deinit, Goto, IInv, Types, Place, InCall
    <2>3. started' \in BOOLEAN
      BY DEF Deinit
    <2> QED
      BY <2>1, <2>2, <2>3 DEF Deinit, cmdVars, queues, link, IInv, Types
  <1>2. Holder'
    BY CommandAssumption DEF Deinit, Goto, cmdVars, queues, link, IInv,
       Threads, Types, Place, InCall, Command, Holder
  <1>3. Task'
    BY CommandAssumption DEF Deinit, Goto, cmdVars, queues, link, IInv,
       Threads, Types, Place, InCall, Task
  <1>4. Lists'
    BY CommandAssumption DEF Deinit, Goto, cmdVars, queues, link, IInv,
       Threads, Types, Command, Holder, InCall, Lists, OnlyPacket,
       NoPacket, Timings
  <1>5. Numbers'
    BY CommandAssumption DEF Deinit, Goto, cmdVars, queues, link, IInv,
       Threads, Types, Numbers, Numbered
  <1>6. Answer'
    BY CommandAssumption DEF Deinit, Goto, cmdVars, queues, link, IInv,
       Threads, Types, Command, Holder, InCall, Answer, LastTry, Timings
  <1> QED
    BY <1>1, <1>2, <1>3, <1>4, <1>5, <1>6 DEF IInv

\* driver_task_stop.
LEMMA StopTaskKeeps ==
    ASSUME IInv, StopTask
    PROVE  IInv'
  <1>1. Types'
    BY CommandAssumption DEF StopTask, Goto, cmdVars, queues, link, IInv,
       Threads, Types, Place, InCall, Command, Timings
  <1>2. Holder'
    BY CommandAssumption DEF StopTask, Goto, cmdVars, queues, link, IInv,
       Threads, Types, Place, InCall, Command, Holder
  <1>3. Task'
    BY CommandAssumption DEF StopTask, Goto, cmdVars, queues, link, IInv,
       Threads, Types, Place, InCall, Task
  <1>4. Lists'
    BY CommandAssumption DEF StopTask, Goto, cmdVars, queues, link, IInv,
       Threads, Types, Command, Holder, InCall, Lists, OnlyPacket,
       NoPacket, Timings
  <1>5. Numbers'
    BY CommandAssumption DEF StopTask, Goto, cmdVars, queues, link, IInv,
       Threads, Types, Numbers, Numbered
  <1>6. Answer'
    BY CommandAssumption DEF StopTask, Goto, cmdVars, queues, link, IInv,
       Threads, Types, Command, Holder, InCall, Answer, LastTry, Timings
  <1> QED
    BY <1>1, <1>2, <1>3, <1>4, <1>5, <1>6 DEF IInv

\* morse_cmd_deinit wakes the caller.
LEMMA WakeCallerKeeps ==
    ASSUME IInv, WakeCaller
    PROVE  IInv'
  <1>1. Types'
    BY CommandAssumption DEF WakeCaller, Goto, cmdVars, queues, link, IInv,
       Threads, Types, Place, InCall, Command, Timings
  <1>2. Holder'
    BY CommandAssumption DEF WakeCaller, Goto, cmdVars, queues, link, IInv,
       Threads, Types, Place, InCall, Command, Holder
  <1>3. Task'
    BY CommandAssumption DEF WakeCaller, Goto, cmdVars, queues, link, IInv,
       Threads, Types, Place, InCall, Task
  <1>4. Lists'
    BY CommandAssumption DEF WakeCaller, Goto, cmdVars, queues, link, IInv,
       Threads, Types, Command, Holder, InCall, Lists, OnlyPacket,
       NoPacket, Timings
  <1>5. Numbers'
    BY CommandAssumption DEF WakeCaller, Goto, cmdVars, queues, link, IInv,
       Threads, Types, Numbers, Numbered
  <1>6. Answer'
    BY CommandAssumption DEF WakeCaller, Goto, cmdVars, queues, link, IInv,
       Threads, Types, Command, Holder, InCall, Answer, LastTry, Timings
  <1> QED
    BY <1>1, <1>2, <1>3, <1>4, <1>5, <1>6 DEF IInv

\* It has waited for the call.
LEMMA DeleteKeeps ==
    ASSUME IInv, Delete
    PROVE  IInv'
  <1>1. Types'
    <2>1. {started, running, semb}' \subseteq BOOLEAN
      BY CommandAssumption DEF Delete, Goto, cmdVars, queues, link, IInv,
         Types, Threads
    <2>2. pc' \in [Threads -> Place] /\ cmd' \in [Threads -> Command]
      BY CommandAssumption DEF Delete, Goto, cmdVars, queues, link, IInv,
         Types, Threads, Place, InCall, Command, NoCommand, Requests
    <2>3. /\ skbq' \in Seq(Requests) /\ sending' \in Seq(Requests)
          /\ unanswered' \in Seq(Requests) /\ chip' \in Seq(Requests)
          /\ up' \in Seq(Responses)
      BY CommandAssumption DEF Delete, Goto, cmdVars, queues, link, IInv,
         Types, Threads
    <2>4. /\ pending' \in Requests \cup {None} /\ rspview' \in Responses \cup {None}
          /\ holder' \in Threads \cup {None}
      BY CommandAssumption DEF Delete, Goto, cmdVars, queues, link, IInv,
         Types, Threads, Command, Holder, InCall
    <2>5. /\ seq' \in 0 .. MaxSeq /\ issued' \in 0 .. MaxCommands
          /\ faults' \in Nat /\ restarts' \in Nat
      BY CommandAssumption DEF Delete, Goto, cmdVars, queues, link, IInv,
         Types, Threads
    <2>6. odd' \subseteq Timings
      BY CommandAssumption DEF Delete, Goto, cmdVars, queues, link, IInv,
         Types, Threads, Timings
    <2> QED
      BY <2>1, <2>2, <2>3, <2>4, <2>5, <2>6 DEF Types
  <1>2. Holder'
    BY CommandAssumption DEF Delete, Goto, cmdVars, queues, link, IInv,
       Threads, Types, Place, InCall, Command, Holder
  <1>3. Task'
    BY CommandAssumption DEF Delete, Goto, cmdVars, queues, link, IInv,
       Threads, Types, Place, InCall, Task
  <1>4. Lists'
    BY CommandAssumption DEF Delete, Goto, cmdVars, queues, link, IInv,
       Threads, Types, Command, Holder, InCall, Lists, OnlyPacket,
       NoPacket, Timings
  <1>5. Numbers'
    <2>1. sending' = <<>>
      BY DEF Delete, IInv, Task
    <2>2. /\ DOMAIN skbq' = {} /\ DOMAIN sending' = {} /\ DOMAIN chip' = {}
          /\ DOMAIN up' = {}
      BY <2>1 DEF Delete
    <2> QED
      BY <2>2 DEF Numbers
  <1>6. Answer'
    BY CommandAssumption DEF Delete, Goto, cmdVars, queues, link, IInv,
       Threads, Types, Command, Holder, InCall, Answer, LastTry, Timings
  <1> QED
    BY <1>1, <1>2, <1>3, <1>4, <1>5, <1>6 DEF IInv

\* mmdrv_init.
LEMMA DriverInitKeeps ==
    ASSUME IInv, DriverInit
    PROVE  IInv'
  <1>1. Types'
    BY CommandAssumption DEF DriverInit, Goto, cmdVars, queues, link, IInv,
       Threads, Types, Place, InCall, Command, Timings
  <1>2. Holder'
    BY CommandAssumption DEF DriverInit, Goto, cmdVars, queues, link, IInv,
       Threads, Types, Place, InCall, Command, Holder
  <1>3. Task'
    BY CommandAssumption DEF DriverInit, Goto, cmdVars, queues, link, IInv,
       Threads, Types, Place, InCall, Task
  <1>4. Lists'
    BY CommandAssumption DEF DriverInit, Goto, cmdVars, queues, link, IInv,
       Threads, Types, Command, Holder, InCall, Lists, OnlyPacket,
       NoPacket, Timings
  <1>5. Numbers'
    BY CommandAssumption DEF DriverInit, Goto, cmdVars, queues, link, IInv,
       Threads, Types, Numbers, Numbered
  <1>6. Answer'
    BY CommandAssumption DEF DriverInit, Goto, cmdVars, queues, link, IInv,
       Threads, Types, Command, Holder, InCall, Answer, LastTry, Timings
  <1> QED
    BY <1>1, <1>2, <1>3, <1>4, <1>5, <1>6 DEF IInv

-----------------------------------------------------------------------------
(* The theorems                                                            *)

\* The invariant is one.
LEMMA Invariance == Spec => []IInv
  <1>1. ASSUME Init PROVE IInv
    <2>1. {started, running, semb} \subseteq BOOLEAN
      BY <1>1 DEF Init
    <2>2. pc \in [Threads -> Place] /\ cmd \in [Threads -> Command]
      BY <1>1 DEF Init, Place, NoCommand, Command
    <2>3. Types
      BY <1>1, <2>1, <2>2, CommandAssumption DEF Init, Types
    <2>4. Holder /\ Task
      BY <1>1, CommandAssumption DEF Init, Holder, Task, InCall, Threads
    <2>5. Lists /\ Numbers /\ Answer
      BY <1>1 DEF Init, Lists, NoPacket, Numbers, Answer
    <2> QED
      BY <2>3, <2>4, <2>5 DEF IInv
  <1>2. ASSUME IInv, [Next]_vars PROVE IInv'
    <2>1. CASE UNCHANGED vars
      <3>1. Types' /\ Holder' /\ Task'
        BY <1>2, <2>1 DEF vars, cmdVars, queues, link, IInv, Types, Holder, Task
      <3>2. Lists' /\ Numbers' /\ Answer'
        BY <1>2, <2>1 DEF vars, cmdVars, queues, link, IInv, Lists, OnlyPacket, NoPacket,
           Numbers, Numbered, Answer
      <3> QED
        BY <3>1, <3>2 DEF IInv
    <2>2. ASSUME NEW t \in Threads, Enter(t) \/ CmdTx(t) PROVE IInv'
      BY <1>2, <2>2, EnterKeeps, AcquireKeeps, SendKeeps, WakeKeeps, TimeOutKeeps, TakeKeeps,
         TxFinishKeeps, ReturnKeeps DEF CmdTx
    <2>3. CASE TakeQueue \/ Write \/ RespProcess
      BY <1>2, <2>3, TakeQueueKeeps, WriteKeeps, RespProcessKeeps
    <2>4. CASE ChipAnswers \/ ChipLoses \/ ResponseLost
      BY <1>2, <2>4, ChipAnswersKeeps, ChipLosesKeeps, ResponseLostKeeps
    <2>5. CASE Deinit \/ Restart
      BY <1>2, <2>5, DeinitKeeps, StopTaskKeeps, WakeCallerKeeps, DeleteKeeps,
         DriverInitKeeps DEF Restart
    <2> QED
      BY <1>2, <2>1, <2>2, <2>3, <2>4, <2>5 DEF Next
  <1> QED
    BY <1>1, <1>2, PTL DEF Spec

\* When a try is over its packet is in the list it is removed from, or in none and
\* the lists are empty, unless the driver task wrote it just then
\* (morse_skbq_tx_finish): for every number of tries, commands and restarts.
THEOREM QueueSoundness == Spec => []QueueSound
  <1>1. ASSUME IInv PROVE QueueSound
    <2>1. TypeOK
      <3>1. /\ Range(skbq) \subseteq Requests /\ Range(sending) \subseteq Requests
            /\ Range(unanswered) \subseteq Requests /\ Range(chip) \subseteq Requests
            /\ Range(up) \subseteq Responses
        BY <1>1 DEF IInv, Types, Range
      <3>2. \A t \in Threads : /\ cmd[t].req \in Requests \cup {None}
                               /\ cmd[t].rsp \in Responses \cup {None}
        BY <1>1 DEF IInv, Types, Command
      <3> QED
        BY <1>1, <3>1, <3>2 DEF IInv, Types, Place, InCall, TypeOK
    <2>2. ASSUME NEW t \in Threads, pc[t] = "finish", "overlap" \notin odd
          PROVE  Finishable(t)
      <3>1. pc[t] \in InCall
        BY <2>2 DEF InCall
      <3>2. cmd[t].req \in Requests /\ \A u \in Threads : pc[u] \in InCall => u = t
        BY <1>1, <3>1, Alone
      <3>3. NoPacket \/ OnlyPacket(cmd[t].req)
        BY <1>1, <2>2, <3>2 DEF IInv, Lists, InCall
      <3>4. sending = <<>>
        BY <1>1, <2>2, <3>2 DEF IInv, Lists, InCall, NoPacket
      <3> QED
        BY <3>2, <3>3, <3>4, OnePacket DEF NoPacket, OnlyPacket, Finishable
    <2> QED
      BY <2>1, <2>2 DEF QueueSound, PacketFound
  <1> QED
    BY <1>1, Invariance, PTL

\* The response that morse_cmd_tx hands to its caller answers the command of that
\* call, however often commands are tried again and the sequence numbers wrap and
\* however late responses are (less than a whole round of numbers: RespProcess),
\* unless a response came between two tries or there was no packet for a second.
THEOREM OwnResponseAlways == Spec => []OwnResponse
  <1>1. ASSUME IInv PROVE OwnResponse
    <2> SUFFICES ASSUME NEW t \in Threads, pc[t] = "finish", cmd[t].rsp # None,
                        "gap" \notin odd, "no room" \notin odd
                 PROVE  cmd[t].rsp.req.n = cmd[t].req.n
      BY DEF OwnResponse
    <2>1. cmd[t].req.n = issued
      BY <1>1, Alone DEF InCall
    <2> QED
      BY <1>1, <2>1 DEF IInv, Answer
  <1> QED
    BY <1>1, Invariance, PTL

=============================================================================
