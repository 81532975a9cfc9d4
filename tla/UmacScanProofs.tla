--------------------------- MODULE UmacScanProofs ---------------------------
(***************************************************************************)
(* The theorem about UmacScan, for every number of requests, aborts,       *)
(* restarts and failed commands, and whichever scans dwell on the home     *)
(* channel, as long as events and memory can be had.                       *)
(***************************************************************************)
EXTENDS UmacScan, TLAPS, FiniteSetTheorems, SequenceTheorems

-----------------------------------------------------------------------------
(* The inductive invariant, in parts                                       *)

\* What TypeOK says, in the form the provers use.
Types ==
    /\ scan \in Scan /\ scan.done = <<>>
    /\ asked \in [Requester -> BOOLEAN]
    /\ evtq \in Seq(Event)
    /\ hw \in 0 .. scan.number
    /\ {scans, aborts, restarts, fails} \subseteq Nat

Req(r) == [type |-> "REQUEST", of |-> r]

\* The request of r is on its way, once.
Queued(r) == \E i \in DOMAIN evtq : evtq[i] = Req(r)
Once(r) == \A i, j \in DOMAIN evtq : evtq[i] = Req(r) /\ evtq[j] = Req(r) => i = j

\* The request of r is in one place while r waits, and otherwise in none.
Placed(r) ==
    /\ Queued(r) => asked[r] /\ scan.active # r /\ scan.pending # r
    /\ scan.active = r => asked[r] /\ scan.pending # r
    /\ scan.pending = r => asked[r]
    /\ asked[r] => Queued(r) \/ scan.active = r \/ scan.pending = r

Requests == \A r \in Requester : Once(r) /\ Placed(r)

IInv == Types /\ NothingLeftBehind /\ Requests /\ fault # "callback"

\* There is always a place in the event queue, and memory.
EventsHad == "event" \notin Refusable

-----------------------------------------------------------------------------
(* The event queue                                                         *)

\* An event that is queued last.
LEMMA Appended ==
    ASSUME Types, NEW e \in Event, evtq' = Append(evtq, e), NEW r \in Requester
    PROVE  /\ evtq' \in Seq(Event)
           /\ e # Req(r) => (Queued(r)' <=> Queued(r)) /\ (Once(r) => Once(r)')
           /\ e = Req(r) => Queued(r)' /\ (~Queued(r) => Once(r)')
  <1>1. /\ evtq' \in Seq(Event)
        /\ \A i \in DOMAIN evtq : i \in DOMAIN evtq' /\ evtq'[i] = evtq[i]
        /\ \A i \in DOMAIN evtq' : i \in DOMAIN evtq \/ i = Len(evtq')
        /\ Len(evtq') \in DOMAIN evtq' /\ evtq'[Len(evtq')] = e
    BY DEF Types
  <1> QED
    BY <1>1 DEF Queued, Once

\* An event that is queued first.
LEMMA Pushed ==
    ASSUME Types, NEW e \in Event, evtq' = <<e>> \o evtq, NEW r \in Requester, e # Req(r)
    PROVE  /\ evtq' \in Seq(Event)
           /\ (Queued(r)' <=> Queued(r)) /\ (Once(r) => Once(r)')
  <1>1. /\ evtq' \in Seq(Event)
        /\ Len(evtq) \in Nat /\ DOMAIN evtq = 1 .. Len(evtq)
        /\ DOMAIN evtq' = 1 .. Len(evtq) + 1
        /\ evtq'[1] = e
        /\ \A i \in 1 .. Len(evtq) : evtq'[i + 1] = evtq[i]
    BY DEF Types
  <1>2. \A i \in DOMAIN evtq' : i = 1 \/ (i - 1 \in DOMAIN evtq /\ evtq'[i] = evtq[i - 1])
    BY <1>1
  <1>3. \A i \in DOMAIN evtq : i + 1 \in DOMAIN evtq' /\ evtq'[i + 1] = evtq[i]
    BY <1>1
  <1>4. Queued(r)' <=> Queued(r)
    <2>1. Queued(r)' => Queued(r)
      BY <1>1, <1>2 DEF Queued
    <2>2. Queued(r) => Queued(r)'
      BY <1>3, Zenon DEF Queued, Req
    <2> QED
      BY <2>1, <2>2
  <1>5. Once(r) => Once(r)'
    BY <1>1, <1>2 DEF Once
  <1> QED
    BY <1>1, <1>4, <1>5

\* The event that is handled.
LEMMA Taken ==
    ASSUME Types, evtq # <<>>, evtq' = Tail(evtq), NEW r \in Requester, Once(r)
    PROVE  /\ Head(evtq) \in Event /\ evtq' \in Seq(Event) /\ Once(r)'
           /\ Head(evtq) # Req(r) => (Queued(r)' <=> Queued(r))
           /\ Head(evtq) = Req(r) => Queued(r) /\ ~Queued(r)'
  <1>1. /\ Head(evtq) \in Event /\ evtq' \in Seq(Event)
        /\ Head(evtq) = evtq[1] /\ 1 \in DOMAIN evtq
        /\ Len(evtq) \in Nat /\ DOMAIN evtq = 1 .. Len(evtq)
        /\ DOMAIN evtq' = 1 .. Len(evtq) - 1
        /\ \A i \in 1 .. Len(evtq) - 1 : evtq'[i] = evtq[i + 1]
    BY DEF Types
  <1>2. \A i \in DOMAIN evtq' : i + 1 \in DOMAIN evtq /\ i + 1 # 1 /\ evtq'[i] = evtq[i + 1]
    BY <1>1
  <1>3. \A i \in DOMAIN evtq : i = 1 \/ (i - 1 \in DOMAIN evtq' /\ evtq'[i - 1] = evtq[i])
    BY <1>1
  <1>4. Once(r)'
    BY <1>1, <1>2 DEF Once
  <1>5. Head(evtq) # Req(r) => (Queued(r)' <=> Queued(r))
    <2>1. Queued(r)' => Queued(r)
      BY <1>2, Zenon DEF Queued, Req
    <2>2. Head(evtq) # Req(r) /\ Queued(r) => Queued(r)'
      BY <1>1, <1>3 DEF Queued
    <2> QED
      BY <2>1, <2>2
  <1>6. Head(evtq) = Req(r) => Queued(r) /\ ~Queued(r)'
    BY <1>1, <1>2 DEF Queued, Once
  <1> QED
    BY <1>1, <1>4, <1>5, <1>6

\* Which events there are.
LEMMA Events ==
    ASSUME NEW e \in Event
    PROVE  /\ e.type = "REQUEST" => e.of \in Requester /\ e = Req(e.of)
           /\ e.type = "ABORT" => e.of \in Requester
           /\ e.type # "REQUEST" => \A r \in Requester : e # Req(r)
  <1>1. e.type = "REQUEST" => e.of \in Requester /\ e = Req(e.of)
    BY DEF Event, Req
  <1>2. e.type = "ABORT" => e.of \in Requester
    BY DEF Event
  <1>3. e.type # "REQUEST" => \A r \in Requester : e # Req(r)
    BY DEF Req
  <1> QED
    BY <1>1, <1>2, <1>3

-----------------------------------------------------------------------------
(* The state machine of hw_scan.c                                          *)

\* What an event makes of the scan data: the state, the requests that are left
\* and the callbacks made.  Nothing is left behind in the INACTIVE state.
Becomes(t, fsm, active, pending, done) ==
    /\ t \in Scan
    /\ t.fsm = fsm /\ t.active = active /\ t.pending = pending /\ t.done = done
    /\ fsm = "INACTIVE" => ~t.paused /\ ~t.iface /\ ~t.abortAll
    /\ t.number \in {scan.number, scan.number + 1}

\* Two scan data differ in nothing but the callbacks made.
Like(t, s) ==
    /\ t.fsm = s.fsm /\ t.active = s.active /\ t.pending = s.pending
    /\ t.abortAll = s.abortAll /\ t.number = s.number

\* The callback of a request, if there is one.
LEMMA CompleteOne ==
    ASSUME NEW s \in Scan, s.done = <<>>, NEW r \in Requester \cup {NONE}
    PROVE  /\ Complete(s, r) \in Scan /\ Like(Complete(s, r), s)
           /\ Complete(s, r).done = IF r = NONE THEN <<>> ELSE <<r>>
  <1>1. Append(<<>>, r) = <<r>>
    OBVIOUS
  <1>2. r # NONE => <<r>> \in Seq(Requester)
    BY DEF Requester, NONE
  <1> QED
    BY <1>1, <1>2 DEF Complete, Scan, Like

\* The callback of a second request, if there is one.
LEMMA CompleteTwo ==
    ASSUME NEW s \in Scan, NEW a \in Requester, s.done = <<a>>,
           NEW r \in Requester \cup {NONE}
    PROVE  /\ Complete(s, r) \in Scan /\ Like(Complete(s, r), s)
           /\ Complete(s, r).done = IF r = NONE THEN <<a>> ELSE <<a, r>>
  <1>1. Append(<<a>>, r) = <<a, r>>
    <2>1. /\ Append(<<a>>, r) \in Seq(Requester \cup {NONE})
          /\ <<a, r>> \in Seq(Requester \cup {NONE})
          /\ Len(Append(<<a>>, r)) = 2 /\ Len(<<a, r>>) = 2
      OBVIOUS
    <2>2. Append(<<a>>, r)[1] = <<a, r>>[1] /\ Append(<<a>>, r)[2] = <<a, r>>[2]
      OBVIOUS
    <2>3. \A i \in 1 .. 2 : i = 1 \/ i = 2
      OBVIOUS
    <2> HIDE DEF NONE
    <2> QED
      BY <2>1, <2>2, <2>3, SeqEqual
  <1>2. r # NONE => <<a, r>> \in Seq(Requester)
    BY DEF Requester, NONE
  <1> QED
    BY <1>1, <1>2 DEF Complete, Scan, Like

\* hw_scan_fsm_scan_aborted, with no callback made before.
LEMMA AbortedScan ==
    ASSUME NEW s \in Scan, s.done = <<>>, s.active \in Requester
    PROVE  LET t == Aborted(s) IN
           /\ t \in Scan /\ t.fsm = s.fsm /\ t.active = NONE /\ ~t.abortAll
           /\ t.number = s.number
           /\ ~s.abortAll => t.pending = s.pending /\ t.done = <<s.active>>
           /\ s.abortAll => /\ t.pending = NONE
                            /\ t.done = IF s.pending = NONE THEN <<s.active>>
                                        ELSE <<s.active, s.pending>>
  <1> DEFINE cleared == [s EXCEPT !.active = NONE, !.abortAll = FALSE,
                                  !.pending = IF s.abortAll THEN NONE ELSE @]
             second == IF s.abortAll THEN s.pending ELSE NONE
             one == Complete(cleared, s.active)
  <1>1. /\ cleared \in Scan /\ cleared.done = <<>> /\ cleared.fsm = s.fsm
        /\ cleared.active = NONE /\ ~cleared.abortAll /\ cleared.number = s.number
        /\ cleared.pending = IF s.abortAll THEN NONE ELSE s.pending
        /\ second \in Requester \cup {NONE}
    BY DEF Scan
  <1>2. s.active # NONE
    BY DEF Requester, NONE, APP, SUPP
  <1>3. Aborted(s) = Complete(one, second)
    BY DEF Aborted
  <1> HIDE DEF cleared, second
  <1>4. one \in Scan /\ Like(one, cleared) /\ one.done = <<s.active>>
    BY <1>1, <1>2, CompleteOne
  <1> HIDE DEF one
  <1>5. /\ Complete(one, second) \in Scan /\ Like(Complete(one, second), one)
        /\ Complete(one, second).done =
             IF second = NONE THEN <<s.active>> ELSE <<s.active, second>>
    BY <1>1, <1>4, CompleteTwo
  <1>6. s.abortAll \in BOOLEAN /\ second = IF s.abortAll THEN s.pending ELSE NONE
    BY DEF Scan, second
  <1> QED
    BY <1>1, <1>3, <1>4, <1>5, <1>6 DEF Like

\* hw_scan_fsm_scan_done, with no callback made before.
LEMMA DoneScan ==
    ASSUME NEW s \in Scan, s.done = <<>>, s.active \in Requester
    PROVE  LET t == Done(s) IN
           /\ t \in Scan /\ t.fsm = s.fsm /\ t.pending = NONE /\ ~t.abortAll
           /\ t.number = s.number
           /\ ~s.abortAll => t.active = s.pending /\ t.done = <<s.active>>
           /\ s.abortAll => /\ t.active = NONE
                            /\ t.done = IF s.pending = NONE THEN <<s.active>>
                                        ELSE <<s.active, s.pending>>
  <1> DEFINE cleared == [s EXCEPT !.active = IF s.abortAll THEN NONE ELSE s.pending,
                                  !.pending = NONE, !.abortAll = FALSE]
             second == IF s.abortAll THEN s.pending ELSE NONE
             one == Complete(cleared, s.active)
  <1>1. /\ cleared \in Scan /\ cleared.done = <<>> /\ cleared.fsm = s.fsm
        /\ cleared.pending = NONE /\ ~cleared.abortAll /\ cleared.number = s.number
        /\ cleared.active = IF s.abortAll THEN NONE ELSE s.pending
        /\ second \in Requester \cup {NONE}
    BY DEF Scan
  <1>2. s.active # NONE
    BY DEF Requester, NONE, APP, SUPP
  <1>3. Done(s) = Complete(one, second)
    BY DEF Done
  <1> HIDE DEF cleared, second
  <1>4. one \in Scan /\ Like(one, cleared) /\ one.done = <<s.active>>
    BY <1>1, <1>2, CompleteOne
  <1> HIDE DEF one
  <1>5. /\ Complete(one, second) \in Scan /\ Like(Complete(one, second), one)
        /\ Complete(one, second).done =
             IF second = NONE THEN <<s.active>> ELSE <<s.active, second>>
    BY <1>1, <1>4, CompleteTwo
  <1>6. s.abortAll \in BOOLEAN /\ second = IF s.abortAll THEN s.pending ELSE NONE
    BY DEF Scan, second
  <1> QED
    BY <1>1, <1>3, <1>4, <1>5, <1>6 DEF Like

\* hw_scan_fsm_scan_aborted of the request that has taken the place of one that
\* was called back.
LEMMA AbortedNext ==
    ASSUME NEW s \in Scan, NEW a \in Requester, s.done = <<a>>, s.active \in Requester,
           ~s.abortAll
    PROVE  LET t == Aborted(s) IN
           /\ t \in Scan /\ t.active = NONE /\ ~t.abortAll /\ t.number = s.number
           /\ t.pending = s.pending /\ t.done = <<a, s.active>>
  <1> DEFINE cleared == [s EXCEPT !.active = NONE, !.abortAll = FALSE,
                                  !.pending = IF s.abortAll THEN NONE ELSE @]
  <1>1. /\ cleared \in Scan /\ cleared.done = <<a>> /\ cleared.pending = s.pending
        /\ cleared.active = NONE /\ ~cleared.abortAll /\ cleared.number = s.number
    BY DEF Scan
  <1>2. s.active # NONE
    BY DEF Requester, NONE, APP, SUPP
  <1>3. Aborted(s) = Complete(cleared, s.active)
    BY DEF Aborted, Complete
  <1> HIDE DEF cleared
  <1>4. /\ Complete(cleared, s.active) \in Scan /\ Like(Complete(cleared, s.active), cleared)
        /\ Complete(cleared, s.active).done = <<a, s.active>>
    <2>1. s.active \in Requester \cup {NONE}
      OBVIOUS
    <2>2. /\ Complete(cleared, s.active) \in Scan
          /\ Like(Complete(cleared, s.active), cleared)
          /\ Complete(cleared, s.active).done =
               IF s.active = NONE THEN <<a>> ELSE <<a, s.active>>
      BY <1>1, <2>1, CompleteTwo, Zenon
    <2> QED
      BY <1>2, <2>2
  <1> QED
    BY <1>1, <1>3, <1>4 DEF Like

\* hw_scan_fsm_inactive_entry
LEMMA InactiveScan ==
    ASSUME NEW s \in Scan
    PROVE  /\ Inactive(s) \in Scan /\ Inactive(s).fsm = "INACTIVE"
           /\ ~Inactive(s).paused /\ ~Inactive(s).iface
           /\ Inactive(s).active = s.active /\ Inactive(s).pending = s.pending
           /\ Inactive(s).abortAll = s.abortAll /\ Inactive(s).number = s.number
           /\ Inactive(s).done = s.done
  BY DEF Inactive, Scan

\* hw_scan_fsm_in_progress_entry with no request
LEMMA NothingToStart ==
    ASSUME NEW s \in Scan, ~s.abortAll, s.number = scan.number, s.active = NONE,
           NEW i \in BOOLEAN, NEW k \in BOOLEAN
    PROVE  Becomes(InProgress(s, i, k), "INACTIVE", NONE, s.pending, s.done)
  BY InactiveScan DEF InProgress, Becomes

\* hw_scan_fsm_in_progress_entry of a request.  What fails is undone.
LEMMA Started ==
    ASSUME NEW s \in Scan, ~s.abortAll, s.number = scan.number, s.active \in Requester,
           NEW i \in BOOLEAN, NEW k \in BOOLEAN,
           s.done = <<>> \/ (\E a \in Requester : s.done = <<a>>)
    PROVE  \/ Becomes(InProgress(s, i, k), "IN_PROGRESS", s.active, s.pending, s.done)
           \/ /\ s.done = <<>>
              /\ Becomes(InProgress(s, i, k), "INACTIVE", NONE, s.pending, <<s.active>>)
           \/ \E a \in Requester :
                 /\ s.done = <<a>>
                 /\ Becomes(InProgress(s, i, k), "INACTIVE", NONE, s.pending,
                            <<a, s.active>>)
  <1> DEFINE p == [s EXCEPT !.fsm = "IN_PROGRESS",
                            !.paused = @ \/ s.active \notin DwellOnHome,
                            !.iface = @ \/ i]
             q == [p EXCEPT !.number = @ + 1]
  <1>1. s.active # NONE
    BY DEF Requester, NONE, APP, SUPP
  <1>2. (s.paused \/ s.active \notin DwellOnHome) \in BOOLEAN /\ (s.iface \/ i) \in BOOLEAN
    OBVIOUS
  <1>3. p \in Scan /\ p.fsm = "IN_PROGRESS" /\ p.done = s.done /\ p.active = s.active
        /\ p.pending = s.pending /\ p.abortAll = s.abortAll /\ p.number = s.number
    BY <1>2 DEF Scan
  <1>4. InProgress(s, i, k) = IF i /\ k THEN q ELSE Inactive(Aborted(p))
    BY <1>1 DEF InProgress
  <1> HIDE DEF p
  <1>5. CASE i /\ k
    <2>1. q \in Scan /\ q.fsm = p.fsm /\ q.done = p.done /\ q.active = p.active
          /\ q.pending = p.pending /\ q.abortAll = p.abortAll /\ q.number = p.number + 1
      BY <1>3 DEF Scan
    <2> HIDE DEF q
    <2> QED
      BY <1>3, <1>4, <1>5, <2>1 DEF Becomes
  <1>6. CASE ~(i /\ k) /\ s.done = <<>>
    <2>1. LET t == Aborted(p) IN
          /\ t \in Scan /\ t.active = NONE /\ ~t.abortAll /\ t.number = s.number
          /\ t.pending = s.pending /\ t.done = <<s.active>>
      BY <1>3, <1>6, AbortedScan
    <2>2. Becomes(Inactive(Aborted(p)), "INACTIVE", NONE, s.pending, <<s.active>>)
      BY <2>1, InactiveScan DEF Becomes
    <2> QED
      BY <1>4, <1>6, <2>2
  <1>7. CASE ~(i /\ k) /\ \E a \in Requester : s.done = <<a>>
    <2>1. PICK a \in Requester : s.done = <<a>>
      BY <1>7
    <2>2. LET t == Aborted(p) IN
          /\ t \in Scan /\ t.active = NONE /\ ~t.abortAll /\ t.number = s.number
          /\ t.pending = s.pending /\ t.done = <<a, s.active>>
      BY <1>3, <2>1, AbortedNext
    <2>3. Becomes(Inactive(Aborted(p)), "INACTIVE", NONE, s.pending, <<a, s.active>>)
      BY <2>2, InactiveScan DEF Becomes
    <2> QED
      BY <1>4, <1>7, <2>1, <2>3
  <1> QED
    BY <1>5, <1>6, <1>7

-----------------------------------------------------------------------------
(* The completion callbacks                                                *)

\* The callbacks of an event: none, one, or those of two requests.
Calls(done, D) ==
    \/ done = <<>> /\ D = {}
    \/ \E a \in Requester : done = <<a>> /\ D = {a}
    \/ \E a, b \in Requester : a # b /\ done = <<a, b>> /\ D = {a, b}

\* Every one goes to a requester that waits, once, and settles its request.
LEMMA CalledBack ==
    ASSUME Types, NEW t \in Scan, Completes(t), NEW D, Calls(t.done, D),
           \A r \in D : asked[r]
    PROVE  /\ scan' \in Scan /\ scan'.done = <<>> /\ Like(scan', t)
           /\ scan'.paused = t.paused /\ scan'.iface = t.iface
           /\ asked' \in [Requester -> BOOLEAN]
           /\ \A r \in Requester : asked'[r] <=> asked[r] /\ r \notin D
           /\ fault' = fault
  <1>1. /\ scan' \in Scan /\ scan'.done = <<>> /\ Like(scan', t)
        /\ scan'.paused = t.paused /\ scan'.iface = t.iface
    <2>1. scan' = [t EXCEPT !.done = <<>>]
      BY DEF Completes
    <2>2. <<>> \in Seq(Requester)
      OBVIOUS
    <2> QED
      BY <2>1, <2>2 DEF Scan, Like
  <1>2. asked' \in [Requester -> BOOLEAN]
    BY DEF Completes
  <1>3. Range(t.done) = D
    BY DEF Calls, Range
  <1>4. \A r \in Requester : asked'[r] <=> asked[r] /\ r \notin D
    BY <1>3 DEF Completes
  <1>5. \A i \in DOMAIN t.done : t.done[i] \in D /\ \A j \in 1 .. i - 1 : t.done[j] # t.done[i]
    BY DEF Calls
  <1>6. fault' = fault
    BY <1>5, Zenon DEF Completes
  <1> QED
    BY <1>1, <1>2, <1>4, <1>6

-----------------------------------------------------------------------------
(* Every action keeps the invariant                                        *)

\* What an event leaves settled is settled in the queue, too: the requests that
\* were active or pending, or the request handled, are active, pending or
\* called back, and nothing is left behind.
LEMMA Settled ==
    ASSUME IInv, NEW t, NEW fsm, NEW active, NEW pending, NEW done,
           Becomes(t, fsm, active, pending, done), Completes(t), Starts(t),
           fsm = "INACTIVE" <=> active = NONE,
           NEW D, Calls(done, D),
           \A r \in D : asked[r],
           evtq' \in Seq(Event), \A r \in Requester : Once(r)',
           {scans, aborts, restarts, fails}' \subseteq Nat,
           \A r \in Requester :
              /\ r = active => asked[r] /\ pending # r
              /\ r = pending => asked[r]
              /\ r \in D => r # active /\ r # pending
              /\ Queued(r)' => asked[r] /\ r # active /\ r # pending /\ r \notin D
              /\ asked[r] => Queued(r)' \/ r \in D \/ r = active \/ r = pending
    PROVE  IInv'
  <1>1. t \in Scan /\ t.done = done
    BY DEF Becomes
  <1>2. /\ scan' \in Scan /\ scan'.done = <<>> /\ Like(scan', t)
        /\ scan'.paused = t.paused /\ scan'.iface = t.iface
        /\ asked' \in [Requester -> BOOLEAN]
        /\ \A r \in Requester : asked'[r] <=> asked[r] /\ r \notin D
        /\ fault' = fault
    BY <1>1, CalledBack DEF IInv
  <1>3. hw' \in 0 .. scan'.number
    <2>1. scan.number \in Nat /\ hw \in 0 .. scan.number
      BY DEF IInv, Types, Scan
    <2>2. scan'.number = t.number /\ t.number \in {scan.number, scan.number + 1}
      BY <1>2 DEF Becomes, Like
    <2> QED
      BY <2>1, <2>2 DEF Starts
  <1>4. Types'
    BY <1>2, <1>3 DEF Types
  <1>5. NothingLeftBehind'
    BY <1>2 DEF NothingLeftBehind, Becomes, Like
  <1>6. scan'.active = active /\ scan'.pending = pending
    BY <1>2 DEF Becomes, Like
  <1>7. Requests'
    BY <1>2, <1>6 DEF Requests, Placed
  <1> QED
    BY <1>2, <1>4, <1>5, <1>7 DEF IInv

\* A step that leaves the scans alone and queues, at most, an event that is no
\* request.
LEMMA Elsewhere ==
    ASSUME IInv, UNCHANGED <<scan, asked, fault>>, hw' \in 0 .. scan.number,
           {scans, aborts, restarts, fails}' \subseteq Nat,
           evtq' \in Seq(Event),
           \A r \in Requester : (Queued(r)' <=> Queued(r)) /\ (Once(r) => Once(r)')
    PROVE  IInv'
  <1>1. Types'
    BY DEF IInv, Types
  <1>2. NothingLeftBehind'
    BY DEF IInv, NothingLeftBehind
  <1>3. Requests'
    BY DEF IInv, Requests, Placed
  <1> QED
    BY <1>1, <1>2, <1>3 DEF IInv

\* mmwlan_scan_request and mmwpas_scan2
LEMMA RequestKeeps ==
    ASSUME EventsHad, IInv, AppRequest \/ SuppRequest
    PROVE  IInv'
  <1>1. PICK r \in Requester :
          /\ ~asked[r]
          /\ asked' = [asked EXCEPT ![r] = TRUE]
          /\ evtq' = Append(evtq, Req(r))
          /\ scans' = scans + 1 /\ fails' = fails
          /\ UNCHANGED <<scan, hw, fault, aborts, restarts>>
    BY DEF EventsHad, AppRequest, SuppRequest, Had, Requester, Req
  <1>2. Req(r) \in Event
    BY DEF Req, Event
  <1>3. \A q \in Requester :
          /\ evtq' \in Seq(Event)
          /\ Req(r) # Req(q) => (Queued(q)' <=> Queued(q)) /\ (Once(q) => Once(q)')
          /\ Req(r) = Req(q) => Queued(q)' /\ (~Queued(q) => Once(q)')
    BY <1>1, <1>2, Appended, Zenon DEF IInv
  <1>4. \A q \in Requester : q # r => Req(r) # Req(q)
    BY DEF Req
  <1>5. Types' /\ NothingLeftBehind' /\ fault' # "callback"
    BY <1>1, <1>3 DEF IInv, Types, NothingLeftBehind
  <1>6. ~Queued(r) /\ scan.active # r /\ scan.pending # r
    BY <1>1 DEF IInv, Requests, Placed
  <1>7. asked'[r] /\ \A q \in Requester : q # r => asked'[q] = asked[q]
    BY <1>1 DEF IInv, Types
  <1>8. Requests'
    <2> SUFFICES ASSUME NEW q \in Requester PROVE Once(q)' /\ Placed(q)'
      BY DEF Requests
    <2>1. CASE q = r
      BY <1>1, <1>3, <1>6, <1>7, <2>1 DEF Placed
    <2>2. CASE q # r
      BY <1>1, <1>3, <1>4, <1>7, <2>2 DEF IInv, Requests, Placed
    <2> QED
      BY <2>1, <2>2
  <1> QED
    BY <1>5, <1>8 DEF IInv

\* mmwlan_scan_abort and mmdrv_host_hw_scan_complete
LEMMA AppendKeeps ==
    ASSUME EventsHad, IInv, AppAbort \/ HwCompletes
    PROVE  IInv'
  <1>1. PICK e \in Event : evtq' = Append(evtq, e) /\ e.type # "REQUEST"
    <2>1. CASE AppAbort
      <3>1. evtq' = Append(evtq, [type |-> "ABORT", of |-> APP])
        BY <2>1 DEF EventsHad, AppAbort, Had
      <3>2. [type |-> "ABORT", of |-> APP] \in Event
        BY DEF Event, Requester
      <3> QED
        BY <3>1, <3>2
    <2>2. CASE HwCompletes
      <3>1. PICK type \in {"DONE", "ABORTED"} :
               evtq' = Append(evtq, [type |-> type, of |-> hw])
        BY <2>2 DEF EventsHad, HwCompletes, Had
      <3>2. hw \in Nat
        BY DEF IInv, Types, Scan
      <3>3. [type |-> type, of |-> hw] \in Event
        BY <3>2 DEF Event
      <3> QED
        BY <3>1, <3>3
    <2> QED
      BY <2>1, <2>2
  <1>2. \A r \in Requester : e # Req(r)
    BY <1>1, Events
  <1>3. evtq' \in Seq(Event)
    BY <1>1 DEF IInv, Types
  <1>4. \A r \in Requester : (Queued(r)' <=> Queued(r)) /\ (Once(r) => Once(r)')
    BY <1>1, <1>2, Appended DEF IInv
  <1>5. /\ UNCHANGED <<scan, asked, fault>>
        /\ hw' \in 0 .. scan.number
        /\ {scans, aborts, restarts, fails}' \subseteq Nat
    BY DEF AppAbort, HwCompletes, Had, IInv, Types, Scan
  <1> QED
    BY <1>3, <1>4, <1>5, Elsewhere

\* mmdrv_host_hw_restart_required
LEMMA HwRestartsKeeps == ASSUME IInv, HwRestarts PROVE IInv'
  <1> DEFINE e == [type |-> "RESTART"]
  <1>1. e \in Event /\ evtq' = <<e>> \o evtq /\ \A r \in Requester : e # Req(r)
    BY DEF HwRestarts, Event, Req
  <1> HIDE DEF e
  <1>2. evtq' \in Seq(Event)
    BY <1>1 DEF IInv, Types
  <1>3. \A r \in Requester : (Queued(r)' <=> Queued(r)) /\ (Once(r) => Once(r)')
    BY <1>1, Pushed DEF IInv
  <1>4. /\ UNCHANGED <<scan, asked, fault>>
        /\ hw' \in 0 .. scan.number
        /\ {scans, aborts, restarts, fails}' \subseteq Nat
    BY DEF HwRestarts, IInv, Types, Scan
  <1> QED
    BY <1>2, <1>3, <1>4, Elsewhere

\* umac_scan_abort for all requests
LEMMA AbortAllKeeps == ASSUME IInv, AbortAll PROVE IInv'
  <1>1. /\ scan' \in Scan /\ scan'.done = <<>> /\ scan'.number = scan.number
        /\ scan'.active = scan.active /\ scan'.pending = scan.pending
        /\ scan'.paused = scan.paused /\ scan'.iface = scan.iface
        /\ \/ scan'.fsm = scan.fsm /\ scan'.abortAll = scan.abortAll
           \/ scan.fsm = "IN_PROGRESS" /\ scan'.fsm = "ABORT_PENDING"
    BY DEF AbortAll, ReqAbort, IInv, Types, Scan
  <1>2. Types'
    <2>1. {scans, aborts, restarts, fails}' \subseteq Nat
      BY DEF AbortAll, IInv, Types
    <2>2. hw' \in 0 .. scan'.number /\ UNCHANGED <<asked, evtq>>
      BY <1>1 DEF AbortAll, IInv, Types
    <2> QED
      BY <1>1, <2>1, <2>2 DEF IInv, Types
  <1>3. NothingLeftBehind'
    BY <1>1 DEF IInv, NothingLeftBehind
  <1>4. Requests'
    BY <1>1 DEF AbortAll, IInv, Requests, Placed, Once, Queued
  <1> QED
    BY <1>2, <1>3, <1>4 DEF AbortAll, IInv

\* What the event loop takes off the queue.
LEMMA Handled ==
    ASSUME IInv, HandleEvent
    PROVE  /\ Head(evtq) \in Event /\ evtq' \in Seq(Event)
           /\ \A r \in Requester :
                 /\ Once(r)'
                 /\ Head(evtq) # Req(r) => (Queued(r)' <=> Queued(r))
                 /\ Head(evtq) = Req(r) => Queued(r) /\ ~Queued(r)'
  <1>1. evtq # <<>> /\ evtq' = Tail(evtq) /\ Types /\ \A r \in Requester : Once(r)
    BY DEF HandleEvent, IInv, Requests
  <1>2. Head(evtq) \in Event /\ evtq' \in Seq(Event)
    BY <1>1 DEF Types
  <1> QED
    BY <1>1, <1>2, Taken

\* Neither the active nor the pending request is anywhere else.
LEMMA Distinct ==
    ASSUME IInv
    PROVE  /\ scan.active \in Requester \cup {NONE} /\ scan.pending \in Requester \cup {NONE}
           /\ NONE \notin Requester
           /\ scan.active \in Requester => asked[scan.active] /\ scan.pending # scan.active
           /\ scan.pending \in Requester => asked[scan.pending]
  <1>1. /\ scan.active \in Requester \cup {NONE} /\ scan.pending \in Requester \cup {NONE}
        /\ NONE \notin Requester
    BY DEF IInv, Types, Scan, Requester, NONE, APP, SUPP
  <1> QED
    BY <1>1 DEF IInv, Requests, Placed

\* umac_req_scan_evt_handler
LEMMA HandleRequestKeeps ==
    ASSUME IInv, HandleEvent, NEW r \in Requester, Head(evtq) = Req(r), HandleRequest(r),
           {scans, aborts, restarts, fails}' \subseteq Nat
    PROVE  IInv'
  <1>1. /\ asked[r] /\ scan.active # r /\ scan.pending # r /\ ~Queued(r)'
        /\ \A q \in Requester : q # r => (Queued(q)' <=> Queued(q))
        /\ \A q \in Requester : Once(q)'
        /\ evtq' \in Seq(Event)
    <2>1. \A q \in Requester : q # r => Req(q) # Req(r)
      BY DEF Req
    <2> QED
      BY <2>1, Handled DEF IInv, Requests, Placed
  <1>2. r # NONE /\ scan \in Scan /\ scan.done = <<>>
    BY Distinct DEF IInv, Types
  <1>3. CASE scan.active = NONE
    <2>1. PICK i \in BOOLEAN, k \in BOOLEAN :
            LET s == InProgress([scan EXCEPT !.active = r], i, k)
            IN  Completes(s) /\ Starts(s)
      BY <1>3 DEF HandleRequest
    <2> DEFINE s == [scan EXCEPT !.active = r]
               t == InProgress(s, i, k)
    <2>2. /\ s \in Scan /\ s.number = scan.number /\ s.active = r
          /\ s.pending = scan.pending /\ s.done = <<>> /\ ~s.abortAll
      BY <1>2, <1>3 DEF Scan, IInv, NothingLeftBehind
    <2>3. Completes(t) /\ Starts(t)
      BY <2>1
    <2> HIDE DEF s
    <2>4. \/ Becomes(t, "IN_PROGRESS", r, scan.pending, <<>>)
          \/ Becomes(t, "INACTIVE", NONE, scan.pending, <<r>>)
      <3>1. \A a \in Requester : <<>> # <<a>>
        OBVIOUS
      <3> QED
        BY <2>2, <3>1, Started
    <2> HIDE DEF t
    <2>5. CASE Becomes(t, "IN_PROGRESS", r, scan.pending, <<>>)
      <3>1. Calls(<<>>, {})
        BY DEF Calls
      <3>2. \A q \in Requester :
              /\ q = r => asked[q] /\ scan.pending # q
              /\ q = scan.pending => asked[q]
              /\ q \in {} => q # r /\ q # scan.pending
              /\ Queued(q)' => asked[q] /\ q # r /\ q # scan.pending /\ q \notin {}
              /\ asked[q] => Queued(q)' \/ q \in {} \/ q = r \/ q = scan.pending
        BY <1>1, <1>2, <1>3, Distinct DEF IInv, Requests, Placed
      <3> QED
        BY <1>1, <1>2, <2>3, <2>5, <3>1, <3>2, Settled
    <2>6. CASE Becomes(t, "INACTIVE", NONE, scan.pending, <<r>>)
      <3>1. Calls(<<r>>, {r})
        BY DEF Calls
      <3>2. \A q \in Requester :
              /\ q = NONE => asked[q] /\ scan.pending # q
              /\ q = scan.pending => asked[q]
              /\ q \in {r} => q # NONE /\ q # scan.pending
              /\ Queued(q)' => asked[q] /\ q # NONE /\ q # scan.pending /\ q \notin {r}
              /\ asked[q] => Queued(q)' \/ q \in {r} \/ q = NONE \/ q = scan.pending
        BY <1>1, <1>2, <1>3, Distinct DEF IInv, Requests, Placed
      <3> QED
        BY <1>1, <1>2, <2>3, <2>6, <3>1, <3>2, Settled
    <2> QED
      BY <2>4, <2>5, <2>6
  <1>4. CASE scan.active # NONE /\ scan.pending = NONE
    <2> DEFINE t == [scan EXCEPT !.pending = r]
    <2>1. Completes(t) /\ Starts(t) /\ Becomes(t, scan.fsm, scan.active, r, <<>>)
      <3>1. Completes(t) /\ UNCHANGED hw
        BY <1>4 DEF HandleRequest
      <3> QED
        BY <1>2, <1>4, <3>1 DEF Starts, Becomes, Scan, IInv, NothingLeftBehind
    <2> HIDE DEF t
    <2>2. Calls(<<>>, {})
      BY DEF Calls
    <2>3. \A q \in Requester :
            /\ q = scan.active => asked[q] /\ r # q
            /\ q = r => asked[q]
            /\ q \in {} => q # scan.active /\ q # r
            /\ Queued(q)' => asked[q] /\ q # scan.active /\ q # r /\ q \notin {}
            /\ asked[q] => Queued(q)' \/ q \in {} \/ q = scan.active \/ q = r
      BY <1>1, <1>2, <1>4, Distinct DEF IInv, Requests, Placed
    <2>4. scan.fsm = "INACTIVE" <=> scan.active = NONE
      BY DEF IInv, NothingLeftBehind
    <2> QED
      BY <1>1, <1>2, <2>1, <2>2, <2>3, <2>4, Settled
  <1>5. CASE scan.active # NONE /\ scan.pending # NONE
    <2> DEFINE t == Complete(scan, r)
    <2>1. Completes(t) /\ UNCHANGED hw
      BY <1>5 DEF HandleRequest
    <2>2. t \in Scan /\ Like(t, scan) /\ t.done = <<r>>
      BY <1>2, CompleteOne
    <2> HIDE DEF t
    <2>3. Starts(t) /\ Becomes(t, scan.fsm, scan.active, scan.pending, <<r>>)
      BY <1>5, <2>1, <2>2 DEF Starts, Becomes, Like, IInv, NothingLeftBehind
    <2>4. Calls(<<r>>, {r})
      BY DEF Calls
    <2>5. \A q \in Requester :
            /\ q = scan.active => asked[q] /\ scan.pending # q
            /\ q = scan.pending => asked[q]
            /\ q \in {r} => q # scan.active /\ q # scan.pending
            /\ Queued(q)' => asked[q] /\ q # scan.active /\ q # scan.pending /\ q \notin {r}
            /\ asked[q] => Queued(q)' \/ q \in {r} \/ q = scan.active \/ q = scan.pending
      BY <1>1, <1>2, <1>5, Distinct DEF IInv, Requests, Placed
    <2>6. scan.fsm = "INACTIVE" <=> scan.active = NONE
      BY DEF IInv, NothingLeftBehind
    <2> QED
      BY <1>1, <1>2, <2>1, <2>3, <2>4, <2>5, <2>6, Settled
  <1> QED
    BY <1>3, <1>4, <1>5

\* umac_abort_scan_evt_handler
LEMMA HandleAbortKeeps ==
    ASSUME IInv, HandleEvent, NEW r \in Requester, HandleAbort(r),
           \A q \in Requester : Head(evtq) # Req(q),
           {scans, aborts, restarts, fails}' \subseteq Nat
    PROVE  IInv'
  <1>1. /\ \A q \in Requester : (Queued(q)' <=> Queued(q)) /\ Once(q)'
        /\ evtq' \in Seq(Event)
    BY Handled
  <1>2. r # NONE /\ scan \in Scan /\ scan.done = <<>>
    BY Distinct DEF IInv, Types
  <1>3. CASE scan.active = r
    <2>1. /\ scan' \in Scan /\ scan'.done = <<>> /\ scan'.number = scan.number
          /\ scan'.active = scan.active /\ scan'.pending = scan.pending
          /\ scan'.fsm = scan.fsm \/ (scan.fsm = "IN_PROGRESS" /\ scan'.fsm = "ABORT_PENDING")
          /\ UNCHANGED <<asked, fault, hw>>
      BY <1>2, <1>3 DEF HandleAbort, ReqAbort, Scan
    <2>2. Types'
      BY <1>1, <2>1 DEF IInv, Types
    <2>3. NothingLeftBehind'
      BY <1>2, <1>3, <2>1 DEF IInv, NothingLeftBehind
    <2>4. Requests'
      BY <1>1, <2>1 DEF IInv, Requests, Placed
    <2> QED
      BY <2>1, <2>2, <2>3, <2>4 DEF IInv
  <1>4. CASE scan.active # r /\ scan.pending = r
    <2> DEFINE s == [scan EXCEPT !.pending = NONE]
               t == Complete(s, r)
    <2>1. Completes(t) /\ UNCHANGED hw
      BY <1>4 DEF HandleAbort
    <2>2. /\ s \in Scan /\ s.done = <<>> /\ s.fsm = scan.fsm /\ s.active = scan.active
          /\ s.pending = NONE /\ s.abortAll = scan.abortAll /\ s.number = scan.number
          /\ s.paused = scan.paused /\ s.iface = scan.iface
      BY <1>2 DEF Scan
    <2>3. t \in Scan /\ Like(t, s) /\ t.done = <<r>>
      BY <1>2, <2>2, CompleteOne
    <2>4. t.paused = s.paused /\ t.iface = s.iface
      BY <2>2 DEF Complete, Scan
    <2> HIDE DEF s, t
    <2>5. Starts(t) /\ Becomes(t, scan.fsm, scan.active, NONE, <<r>>)
      BY <2>1, <2>2, <2>3, <2>4 DEF Starts, Becomes, Like, IInv, NothingLeftBehind
    <2>6. Calls(<<r>>, {r})
      BY DEF Calls
    <2>7. \A q \in Requester :
            /\ q = scan.active => asked[q] /\ NONE # q
            /\ q = NONE => asked[q]
            /\ q \in {r} => q # scan.active /\ q # NONE
            /\ Queued(q)' => asked[q] /\ q # scan.active /\ q # NONE /\ q \notin {r}
            /\ asked[q] => Queued(q)' \/ q \in {r} \/ q = scan.active \/ q = NONE
      BY <1>1, <1>2, <1>4, Distinct DEF IInv, Requests, Placed
    <2>8. /\ scan.fsm = "INACTIVE" <=> scan.active = NONE
          /\ asked[r]
      BY <1>4, Distinct DEF IInv, NothingLeftBehind
    <2> QED
      BY <1>1, <1>2, <2>1, <2>5, <2>6, <2>7, <2>8, Settled
  <1>5. CASE scan.active # r /\ scan.pending # r
    <2>1. UNCHANGED <<scan, asked, hw>> /\ fault' = "abort"
      BY <1>5 DEF HandleAbort
    <2>2. Types' /\ NothingLeftBehind'
      BY <1>1, <2>1 DEF IInv, Types, NothingLeftBehind
    <2>3. Requests'
      BY <1>1, <2>1 DEF IInv, Requests, Placed
    <2> QED
      BY <2>1, <2>2, <2>3 DEF IInv
  <1> QED
    BY <1>3, <1>4, <1>5

\* What is left of two requests of which the first has ended: nothing, or the
\* second, pending or active.
LEMMA EndedKeeps ==
    ASSUME IInv, HandleEvent, scan.active \in Requester,
           \A q \in Requester : Head(evtq) # Req(q),
           {scans, aborts, restarts, fails}' \subseteq Nat,
           NEW t, Completes(t), Starts(t),
           \/ Becomes(t, "INACTIVE", NONE, scan.pending, <<scan.active>>)
           \/ /\ scan.pending \in Requester
              /\ Becomes(t, "INACTIVE", NONE, NONE, <<scan.active, scan.pending>>)
           \/ /\ scan.pending \in Requester
              /\ Becomes(t, "IN_PROGRESS", scan.pending, NONE, <<scan.active>>)
    PROVE  IInv'
  <1>1. /\ \A q \in Requester : (Queued(q)' <=> Queued(q)) /\ Once(q)'
        /\ evtq' \in Seq(Event)
    BY Handled
  <1>2. Calls(<<scan.active>>, {scan.active})
    BY DEF Calls
  <1>3. CASE Becomes(t, "INACTIVE", NONE, scan.pending, <<scan.active>>)
    <2>1. \A q \in Requester :
            /\ q = NONE => asked[q] /\ scan.pending # q
            /\ q = scan.pending => asked[q]
            /\ q \in {scan.active} => q # NONE /\ q # scan.pending
            /\ Queued(q)' => asked[q] /\ q # NONE /\ q # scan.pending /\ q \notin {scan.active}
            /\ asked[q] => Queued(q)' \/ q \in {scan.active} \/ q = NONE \/ q = scan.pending
      BY <1>1, Distinct DEF IInv, Requests, Placed
    <2> QED
      BY <1>1, <1>2, <1>3, <2>1, Distinct, Settled
  <1>4. CASE /\ scan.pending \in Requester
             /\ Becomes(t, "INACTIVE", NONE, NONE, <<scan.active, scan.pending>>)
    <2> DEFINE D == {scan.active, scan.pending}
    <2>1. Calls(<<scan.active, scan.pending>>, D)
      BY <1>4, Distinct DEF Calls
    <2>2. \A q \in Requester :
            /\ q = NONE => asked[q] /\ NONE # q
            /\ q = NONE => asked[q]
            /\ q \in D => q # NONE /\ q # NONE
            /\ Queued(q)' => asked[q] /\ q # NONE /\ q # NONE /\ q \notin D
            /\ asked[q] => Queued(q)' \/ q \in D \/ q = NONE \/ q = NONE
      BY <1>1, <1>4, Distinct DEF IInv, Requests, Placed
    <2>3. \A q \in D : asked[q]
      BY <1>4, Distinct
    <2> HIDE DEF D
    <2> QED
      BY <1>1, <1>4, <2>1, <2>2, <2>3, Settled
  <1>5. CASE /\ scan.pending \in Requester
             /\ Becomes(t, "IN_PROGRESS", scan.pending, NONE, <<scan.active>>)
    <2>1. \A q \in Requester :
            /\ q = scan.pending => asked[q] /\ NONE # q
            /\ q = NONE => asked[q]
            /\ q \in {scan.active} => q # scan.pending /\ q # NONE
            /\ Queued(q)' => asked[q] /\ q # scan.pending /\ q # NONE /\ q \notin {scan.active}
            /\ asked[q] => Queued(q)' \/ q \in {scan.active} \/ q = scan.pending \/ q = NONE
      BY <1>1, <1>5, Distinct DEF IInv, Requests, Placed
    <2>2. scan.pending # NONE
      BY <1>5, Distinct
    <2> QED
      BY <1>1, <1>2, <1>5, <2>1, <2>2, Distinct, Settled
  <1> QED
    BY <1>3, <1>4, <1>5

\* The end of a scan, and its abortion: hw_scan_fsm_scan_done and
\* hw_scan_fsm_scan_aborted, and the state that is entered then.
LEMMA EndsKeeps ==
    ASSUME IInv, HandleEvent, Ends(Done) \/ Ends(Aborted),
           \A q \in Requester : Head(evtq) # Req(q),
           {scans, aborts, restarts, fails}' \subseteq Nat
    PROVE  IInv'
  <1>1. /\ scan \in Scan /\ scan.done = <<>> /\ scan.abortAll \in BOOLEAN
        /\ scan.pending \in Requester \cup {NONE} /\ NONE \notin Requester
        /\ scan.number = scan.number
    BY Distinct DEF IInv, Types, Scan
  <1>2. CASE scan.fsm = "INACTIVE"
    <2>1. UNCHANGED <<scan, asked, hw, fault>>
      BY <1>2 DEF Ends
    <2>2. hw' \in 0 .. scan.number
      BY <2>1 DEF IInv, Types
    <2>3. /\ evtq' \in Seq(Event)
          /\ \A q \in Requester : (Queued(q)' <=> Queued(q)) /\ Once(q)'
      BY Handled
    <2> QED
      BY <2>1, <2>2, <2>3, Elsewhere
  <1>3. CASE scan.fsm # "INACTIVE" /\ Ends(Done)
    <2>1. scan.active \in Requester
      BY <1>3, Distinct DEF IInv, NothingLeftBehind
    <2> DEFINE s == Done(scan)
    <2>2. PICK i \in BOOLEAN, k \in BOOLEAN :
             Completes(InProgress(s, i, k)) /\ Starts(InProgress(s, i, k))
      BY <1>3 DEF Ends
    <2>3. /\ s \in Scan /\ s.pending = NONE /\ ~s.abortAll /\ s.number = scan.number
          /\ ~scan.abortAll => s.active = scan.pending /\ s.done = <<scan.active>>
          /\ scan.abortAll =>
                /\ s.active = NONE
                /\ s.done = IF scan.pending = NONE THEN <<scan.active>>
                            ELSE <<scan.active, scan.pending>>
      BY <1>1, <2>1, DoneScan
    <2> DEFINE t == InProgress(s, i, k)
    <2> HIDE DEF s
    <2>4. CASE s.active = NONE
      <3>1. Becomes(t, "INACTIVE", NONE, NONE, s.done)
        BY <2>3, <2>4, NothingToStart
      <3> HIDE DEF t
      <3>2. \/ Becomes(t, "INACTIVE", NONE, scan.pending, <<scan.active>>)
            \/ /\ scan.pending \in Requester
               /\ Becomes(t, "INACTIVE", NONE, NONE, <<scan.active, scan.pending>>)
        BY <1>1, <2>3, <2>4, <3>1
      <3> QED
        BY <2>1, <2>2, <3>2, EndedKeeps DEF t
    <2>5. CASE s.active # NONE
      <3>1. scan.pending \in Requester /\ s.active = scan.pending /\ s.done = <<scan.active>>
        BY <1>1, <2>3, <2>5
      <3>2. <<scan.active>> # <<>>
            /\ \A a \in Requester : <<scan.active>> = <<a>> => a = scan.active
        OBVIOUS
      <3>3. \/ Becomes(t, "IN_PROGRESS", scan.pending, NONE, <<scan.active>>)
            \/ Becomes(t, "INACTIVE", NONE, NONE, <<scan.active, scan.pending>>)
        <4>1. \/ Becomes(t, "IN_PROGRESS", s.active, s.pending, s.done)
              \/ /\ s.done = <<>>
                 /\ Becomes(t, "INACTIVE", NONE, s.pending, <<s.active>>)
              \/ \E a \in Requester :
                    /\ s.done = <<a>>
                    /\ Becomes(t, "INACTIVE", NONE, s.pending, <<a, s.active>>)
          BY <2>1, <2>3, <3>1, Started
        <4> HIDE DEF t
        <4> QED
          BY <2>1, <2>3, <3>1, <3>2, <4>1
      <3> HIDE DEF t
      <3> QED
        BY <2>1, <2>2, <3>1, <3>3, EndedKeeps DEF t
    <2> QED
      BY <2>4, <2>5
  <1>4. CASE scan.fsm # "INACTIVE" /\ Ends(Aborted)
    <2>1. scan.active \in Requester
      BY <1>4, Distinct DEF IInv, NothingLeftBehind
    <2> DEFINE s == Aborted(scan)
    <2>2. PICK i \in BOOLEAN, k \in BOOLEAN :
             Completes(InProgress(s, i, k)) /\ Starts(InProgress(s, i, k))
      BY <1>4 DEF Ends
    <2>3. /\ s \in Scan /\ s.active = NONE /\ ~s.abortAll /\ s.number = scan.number
          /\ ~scan.abortAll => s.pending = scan.pending /\ s.done = <<scan.active>>
          /\ scan.abortAll =>
                /\ s.pending = NONE
                /\ s.done = IF scan.pending = NONE THEN <<scan.active>>
                            ELSE <<scan.active, scan.pending>>
      BY <1>1, <2>1, AbortedScan
    <2> DEFINE t == InProgress(s, i, k)
    <2> HIDE DEF s
    <2>4. Becomes(t, "INACTIVE", NONE, s.pending, s.done)
      BY <2>3, NothingToStart
    <2> HIDE DEF t
    <2>5. \/ Becomes(t, "INACTIVE", NONE, scan.pending, <<scan.active>>)
          \/ /\ scan.pending \in Requester
             /\ Becomes(t, "INACTIVE", NONE, NONE, <<scan.active, scan.pending>>)
      BY <1>1, <2>3, <2>4
    <2> QED
      BY <2>1, <2>2, <2>5, EndedKeeps DEF t
  <1> QED
    BY <1>2, <1>3, <1>4

\* The event loop handles an event.
LEMMA HandleEventKeeps == ASSUME IInv, HandleEvent PROVE IInv'
  <1> DEFINE e == Head(evtq)
  <1>1. e \in Event
    BY Handled
  <1>2. {scans, aborts, restarts, fails}' \subseteq Nat
    BY DEF HandleEvent, HandleRequest, HandleAbort, HandleRestart, Ends, Had, IInv, Types
  <1>3. CASE e.type = "REQUEST" /\ HandleRequest(e.of)
    BY <1>1, <1>2, <1>3, Events, HandleRequestKeeps
  <1>4. CASE e.type = "ABORT" /\ HandleAbort(e.of)
    BY <1>1, <1>2, <1>4, Events, HandleAbortKeeps
  <1>5. CASE e.type \in {"DONE", "ABORTED"} /\ (Ends(Done) \/ Ends(Aborted))
    BY <1>1, <1>2, <1>5, Events, EndsKeeps
  <1>6. CASE e.type = "RESTART" /\ HandleRestart
    <2>1. CASE scan.active # NONE
      <3>1. Ends(Aborted)
        BY <1>6, <2>1 DEF HandleRestart
      <3> QED
        BY <1>1, <1>2, <1>6, <3>1, Events, EndsKeeps
    <2>2. CASE scan.active = NONE
      <3>1. UNCHANGED <<scan, asked, hw, fault>>
        BY <1>6, <2>2 DEF HandleRestart
      <3>2. hw' \in 0 .. scan.number
        BY <3>1 DEF IInv, Types
      <3>3. \A q \in Requester : e # Req(q)
        BY <1>1, <1>6, Events
      <3>4. /\ evtq' \in Seq(Event)
            /\ \A q \in Requester : (Queued(q)' <=> Queued(q)) /\ Once(q)'
        BY <3>3, Handled
      <3> QED
        BY <1>2, <3>1, <3>2, <3>4, Elsewhere
    <2> QED
      BY <2>1, <2>2
  <1> QED
    BY <1>3, <1>4, <1>5, <1>6 DEF HandleEvent

-----------------------------------------------------------------------------
(* The theorem                                                             *)

\* The requests on their way, counted.
LEMMA QueuedCount ==
    ASSUME NEW r, Once(r)
    PROVE  Cardinality({ i \in DOMAIN evtq : evtq[i] = [type |-> "REQUEST", of |-> r] })
             = IF Queued(r) THEN 1 ELSE 0
  <1> DEFINE Q == { i \in DOMAIN evtq : evtq[i] = [type |-> "REQUEST", of |-> r] }
  <1>1. CASE Queued(r)
    <2>1. PICK i \in DOMAIN evtq : evtq[i] = Req(r)
      BY <1>1 DEF Queued
    <2>2. Q = {i}
      BY <2>1 DEF Once, Req
    <2> QED
      BY <1>1, <2>2, FS_Singleton
  <1>2. CASE ~Queued(r)
    <2>1. Q = {}
      BY <1>2 DEF Queued, Req
    <2> QED
      BY <1>2, <2>1, FS_EmptySet
  <1> QED
    BY <1>1, <1>2

\* The invariant says what ScanSound says.
LEMMA InvariantSound == IInv => ScanSound
  <1> SUFFICES ASSUME IInv PROVE ScanSound
    OBVIOUS
  <1>1. TypeOK
    <2>1. /\ DOMAIN scan = {"fsm", "active", "pending", "abortAll", "paused", "iface",
                            "number", "done"}
          /\ scan.fsm \in {"INACTIVE", "IN_PROGRESS", "ABORT_PENDING"}
          /\ {scan.active, scan.pending} \subseteq Requester \cup {NONE}
          /\ {scan.abortAll, scan.paused, scan.iface} \subseteq BOOLEAN
      BY DEF IInv, Types, Scan
    <2> QED
      BY <2>1 DEF IInv, Types, TypeOK
  <1>2. ASSUME NEW r \in Requester
        PROVE  Places(r) = IF asked[r] THEN 1 ELSE 0
    <2>1. /\ Queued(r) => asked[r] /\ scan.active # r /\ scan.pending # r
          /\ scan.active = r => asked[r] /\ scan.pending # r
          /\ scan.pending = r => asked[r]
          /\ asked[r] => Queued(r) \/ scan.active = r \/ scan.pending = r
          /\ Once(r)
      BY DEF IInv, Requests, Placed
    <2>2. Places(r) = (IF Queued(r) THEN 1 ELSE 0) + (IF scan.active = r THEN 1 ELSE 0)
                        + (IF scan.pending = r THEN 1 ELSE 0)
      BY <2>1, QueuedCount DEF Places
    <2> QED
      BY <2>1, <2>2
  <1> QED
    BY <1>1, <1>2 DEF IInv, ScanSound, RequestInOnePlace

\* The scan state machine and the requests agree after every event: nothing is
\* left behind in the INACTIVE state, a requester that waits has its request in
\* one place, and no callback is made twice or to a requester that does not
\* wait (hw_scan_fsm_handle_event, umac_scan_complete_callback), as long as
\* events and memory can be had.
THEOREM ScanSoundness ==
    ASSUME EventsHad PROVE Spec => []ScanSound
  <1>1. ASSUME Init PROVE IInv
    <2>1. asked \in [Requester -> BOOLEAN]
      BY <1>1 DEF Init
    <2>2. scan \in Scan
      <3>1. FALSE \in BOOLEAN /\ <<>> \in Seq(Requester)
        OBVIOUS
      <3> QED
        BY <1>1, <3>1 DEF Init, Scan
    <2>3. Types
      BY <1>1, <2>1, <2>2 DEF Init, Types
    <2>4. NothingLeftBehind
      BY <1>1 DEF Init, NothingLeftBehind
    <2>5. Requests
      <3>1. \A r \in Requester : ~asked[r] /\ scan.active # r /\ scan.pending # r
        BY <1>1 DEF Init, Requester, NONE, APP, SUPP
      <3>2. DOMAIN evtq = {}
        BY <1>1 DEF Init
      <3> QED
        BY <3>1, <3>2 DEF Requests, Once, Placed, Queued
    <2> QED
      BY <1>1, <2>3, <2>4, <2>5 DEF Init, IInv
  <1>2. ASSUME IInv, [Next]_vars PROVE IInv'
    <2>1. CASE UNCHANGED vars
      BY <1>2, <2>1 DEF vars, IInv, Types, NothingLeftBehind, Requests, Once, Placed, Queued
    <2>2. CASE Next
      BY <1>2, <2>2, RequestKeeps, AppendKeeps, AbortAllKeeps, HandleEventKeeps,
         HwRestartsKeeps DEF Next
    <2> QED
      BY <1>2, <2>1, <2>2
  <1> QED
    BY <1>1, <1>2, InvariantSound, PTL DEF Spec
=============================================================================
