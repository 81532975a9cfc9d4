------------------------- MODULE BaOriginatorProofs -------------------------
(***************************************************************************)
(* The theorems about BaOriginator, for every longest backoff, whatever    *)
(* tokens there are and however many requests are made.                    *)
(***************************************************************************)
EXTENDS BaOriginator, TLAPS

-----------------------------------------------------------------------------
(* The inductive invariant, in parts                                       *)

Response == [token : Tokens, what : Answers]

\* What is on its way, and the bounds.
Types ==
    /\ TypeOK
    /\ requests \in Seq(Tokens)
    /\ responses \in Seq(Response)
    /\ {sent, fails, leaves} \subseteq Nat

\* A token that an answer on its way grants is granted.
Granting ==
    \A i \in DOMAIN responses :
        responses[i].what = "success" => responses[i].token \in granted

\* Within a connection the session has at most the timeout of its own request,
\* registered when the request was sent; an answer may have cancelled it.
OwnTimer ==
    leaves = 0 /\ fails = 0 =>
        \/ timers = EmptyBag
        \/ /\ session.status = "REQUESTED"
           /\ \E p \in Nat : timers = SetToBag({p}) /\ p + waited = session.backoff

IInv == Types /\ AmpduGranted /\ BackoffReached /\ Granting /\ OwnTimer

-----------------------------------------------------------------------------
(* Lemmas                                                                  *)

\* umac_ba_calculate_addba_attempt_backoff stays within the longest backoff.
LEMMA BackoffBounded ==
    ASSUME NEW b \in 0 .. BackoffMax
    PROVE  NextBackoff(b) \in 1 .. BackoffMax
  BY OriginatorAssumption DEF NextBackoff

\* A bag with one more timeout is a bag, and one added to none is alone.
LEMMA BagAdd ==
    ASSUME NEW B, IsABag(B), BagToSet(B) \subseteq 0 .. BackoffMax,
           NEW p \in 0 .. BackoffMax
    PROVE  /\ IsABag(B (+) SetToBag({p}))
           /\ BagToSet(B (+) SetToBag({p})) \subseteq 0 .. BackoffMax
           /\ B = EmptyBag => B (+) SetToBag({p}) = SetToBag({p})
  BY DEF IsABag, BagToSet, SetToBag, EmptyBag, (+)

\* A bag with one timeout less is a bag, and the last one leaves none.
LEMMA BagRemove ==
    ASSUME NEW B, IsABag(B), BagToSet(B) \subseteq 0 .. BackoffMax, NEW p, BagIn(p, B)
    PROVE  /\ IsABag(B (-) SetToBag({p}))
           /\ BagToSet(B (-) SetToBag({p})) \subseteq 0 .. BackoffMax
           /\ B = SetToBag({p}) => B (-) SetToBag({p}) = EmptyBag
  BY DEF IsABag, BagIn, BagToSet, SetToBag, EmptyBag, (-)

\* No timeout is a bag of timeouts.
LEMMA BagNone == IsABag(EmptyBag) /\ BagToSet(EmptyBag) = {}
  BY DEF IsABag, BagToSet, SetToBag, EmptyBag

\* The period that ends takes one off every timeout.
LEMMA BagTick ==
    ASSUME NEW B, IsABag(B), BagToSet(B) \subseteq 0 .. BackoffMax, ~BagIn(0, B),
           NEW C, C = [p \in { q - 1 : q \in BagToSet(B) } |-> B[p + 1]]
    PROVE  /\ IsABag(C) /\ BagToSet(C) \subseteq 0 .. BackoffMax
           /\ \A p \in Nat : B = SetToBag({p}) => p > 0 /\ C = SetToBag({p - 1})
  <1>1. \A p \in DOMAIN C : p \in 0 .. BackoffMax /\ p + 1 \in DOMAIN B /\ C[p] = B[p + 1]
    BY OriginatorAssumption DEF BagIn, BagToSet
  <1>2. IsABag(C) /\ BagToSet(C) \subseteq 0 .. BackoffMax
    BY <1>1 DEF IsABag, BagToSet
  <1>3. ASSUME NEW p \in Nat, B = SetToBag({p})
        PROVE  p > 0 /\ C = SetToBag({p - 1})
    <2>1. DOMAIN B = {p} /\ B[p] = 1
      BY <1>3 DEF SetToBag
    <2>2. p > 0
      BY <2>1 DEF BagIn, BagToSet
    <2>3. { q - 1 : q \in DOMAIN B } = {p - 1}
      BY <2>1
    <2> QED
      BY <2>1, <2>2, <2>3 DEF SetToBag, BagToSet
  <1> QED
    BY <1>2, <1>3

\* A bag of no timeouts and one of one timeout differ, and one has its own.
LEMMA BagOne ==
    ASSUME NEW p
    PROVE  /\ SetToBag({p}) # EmptyBag
           /\ \A q : BagIn(q, SetToBag({p})) => q = p
           /\ \A q : ~BagIn(q, EmptyBag)
  BY DEF SetToBag, EmptyBag, BagIn, BagToSet

-----------------------------------------------------------------------------
(* Every action keeps the invariant                                        *)

\* umac_ba_session_init: a closed session has no timeout, so that the one that
\* is registered is alone.
LEMMA SessionInitKeeps == ASSUME IInv, SessionInit PROVE IInv'
  <1> DEFINE backoff == NextBackoff(session.backoff)
  <1>1. PICK token \in Tokens, txOk \in BOOLEAN, regOk \in BOOLEAN :
          /\ \A i \in DOMAIN responses : responses[i].token # token
          /\ Had(txOk /\ regOk)
          /\ session' = [status  |-> IF txOk THEN "REQUESTED" ELSE "DISABLED",
                         token   |-> token,
                         backoff |-> backoff]
          /\ timers' = IF regOk THEN timers (+) SetToBag({backoff}) ELSE timers
          /\ requests' = IF txOk THEN Append(requests, token) ELSE requests
          /\ waited' = 0
          /\ granted' = granted \ {token}
    BY DEF SessionInit
  <1>2. backoff \in 0 .. BackoffMax
    BY BackoffBounded DEF IInv, Types, TypeOK
  <1> HIDE DEF backoff
  <1>3. Types'
    <2>1. IsABag(timers') /\ BagToSet(timers') \subseteq 0 .. BackoffMax
      <3>1. CASE regOk
        <4>1. timers' = timers (+) SetToBag({backoff})
          BY <1>1, <3>1
        <4> QED
          BY <1>2, <4>1, BagAdd, Zenon DEF IInv, Types, TypeOK
      <3>2. CASE ~regOk
        BY <1>1, <3>2 DEF IInv, Types, TypeOK
      <3> QED
        BY <3>1, <3>2
    <2>2. session' \in [status : Status, token : Tokens \cup {0}, backoff : 0 .. BackoffMax]
      BY <1>1, <1>2 DEF Status
    <2>3. requests' \in Seq(Tokens)
      BY <1>1 DEF IInv, Types
    <2>4. waited' \in 0 .. BackoffMax /\ sent' \in Nat /\ fails' \in Nat
      BY <1>1, OriginatorAssumption DEF SessionInit, Had, IInv, Types
    <2>5. granted' \subseteq Tokens
      BY <1>1 DEF IInv, Types, TypeOK
    <2> QED
      BY <2>1, <2>2, <2>3, <2>4, <2>5 DEF SessionInit, IInv, Types, TypeOK
  <1>4. AmpduGranted' /\ Granting'
    BY <1>1 DEF SessionInit, IInv, AmpduGranted, Granting
  <1>5. leaves' = leaves /\ cut' = cut /\ (fails' = 0 => fails = 0 /\ txOk /\ regOk)
    BY <1>1 DEF SessionInit, Had, IInv, Types
  <1>6. BackoffReached'
    BY <1>5 DEF IInv, BackoffReached
  <1>7. OwnTimer'
    <2> SUFFICES ASSUME leaves' = 0, fails' = 0 PROVE OwnTimer'
      BY DEF OwnTimer
    <2>1. timers = EmptyBag
      BY <1>5 DEF SessionInit, IInv, OwnTimer
    <2>2. timers' = timers (+) SetToBag({backoff})
      BY <1>1, <1>5
    <2>3. timers' = SetToBag({backoff})
      BY <1>2, <2>1, <2>2, BagAdd, Zenon DEF IInv, Types, TypeOK
    <2>4. session'.status = "REQUESTED" /\ session'.backoff = backoff
      BY <1>1, <1>5
    <2>5. backoff \in Nat /\ backoff + waited' = session'.backoff
      BY <1>1, <1>2, <2>4
    <2> QED
      BY <2>3, <2>4, <2>5 DEF OwnTimer
  <1> QED
    BY <1>3, <1>4, <1>6, <1>7 DEF IInv

\* umac_ba_addba_req_timeout_handler: within a connection the timeout that is due
\* is that of the request, and its backoff is over.
LEMMA RequestTimeoutKeeps == ASSUME IInv, RequestTimeout PROVE IInv'
  <1>1. Types'
    <2>1. IsABag(timers') /\ BagToSet(timers') \subseteq 0 .. BackoffMax
      BY BagRemove DEF IInv, Types, TypeOK, RequestTimeout
    <2>2. /\ session' \in [status : Status, token : Tokens \cup {0},
                           backoff : 0 .. BackoffMax]
          /\ fails' \in Nat
      BY DEF RequestTimeout, Had, IInv, Types, TypeOK, Status
    <2>3. cut' \in BOOLEAN
      BY DEF RequestTimeout, IInv, Types, TypeOK
    <2> QED
      BY <2>1, <2>2, <2>3 DEF RequestTimeout, IInv, Types, TypeOK
  <1>2. AmpduGranted' /\ Granting'
    BY DEF RequestTimeout, IInv, Types, TypeOK, AmpduGranted, Granting
  <1>3. leaves' = leaves /\ (fails' = 0 => fails = 0)
    BY DEF RequestTimeout, Had, IInv, Types
  <1>4. ASSUME leaves' = 0, fails' = 0
        PROVE  timers' = EmptyBag /\ ~cut'
    <2>1. PICK p \in Nat : timers = SetToBag({p}) /\ p + waited = session.backoff
      BY <1>3, <1>4, BagOne DEF IInv, OwnTimer, RequestTimeout
    <2>2. p = 0
      BY <2>1, BagOne DEF RequestTimeout
    <2>3. timers' = EmptyBag
      BY <2>1, <2>2, BagRemove DEF RequestTimeout, IInv, Types, TypeOK
    <2>4. ~(waited < session.backoff)
      BY <2>1, <2>2 DEF IInv, Types, TypeOK
    <2> QED
      BY <1>3, <1>4, <2>3, <2>4 DEF RequestTimeout, IInv, BackoffReached
  <1> QED
    BY <1>1, <1>2, <1>4 DEF IInv, BackoffReached, OwnTimer

\* umac_ba_rx_addba_resp: only the answer to the request that is open can turn it
\* into a session.
LEMMA RxAddbaRespKeeps == ASSUME IInv, RxAddbaResp PROVE IInv'
  <1> DEFINE r == Head(responses)
  <1>1. r = responses[1] /\ 1 \in DOMAIN responses /\ r \in Response
    BY DEF RxAddbaResp, IInv, Types
  <1>2. /\ responses' \in Seq(Response)
        /\ \A i \in DOMAIN responses' : i + 1 \in DOMAIN responses
                                        /\ responses'[i] = responses[i + 1]
    BY DEF RxAddbaResp, IInv, Types
  <1>3. StatusAfter(r) \in Status /\ (StatusAfter(r) = "SUCCESS" =>
           \/ session.status = "SUCCESS"
           \/ r.what = "success" /\ session.token = r.token)
    <2>1. r.what \in Answers /\ session.status \in Status
      BY <1>1 DEF Response, IInv, Types, TypeOK
    <2> HIDE DEF r
    <2>2. CASE ~Accepts(r)
      BY <2>1, <2>2 DEF StatusAfter
    <2>3. CASE Accepts(r)
      BY <2>1, <2>3 DEF StatusAfter, Accepts, Answers, Status
    <2> QED
      BY <2>2, <2>3
  <1>4. Types'
    <2>1. deaf' \in BOOLEAN
      BY DEF RxAddbaResp
    <2>2. session' \in [status : Status, token : Tokens \cup {0},
                        backoff : 0 .. BackoffMax]
      BY <1>3 DEF RxAddbaResp, IInv, Types, TypeOK
    <2> QED
      BY <1>2, <2>1, <2>2, BagNone DEF RxAddbaResp, IInv, Types, TypeOK
  <1>5. Granting'
    BY <1>2 DEF RxAddbaResp, IInv, Granting
  <1>6. AmpduGranted'
    <2>1. session'.status = StatusAfter(r) /\ session'.token = session.token
      BY DEF RxAddbaResp, IInv, Types, TypeOK
    <2>2. r.what = "success" => r.token \in granted
      BY <1>1 DEF IInv, Granting
    <2> QED
      BY <1>3, <2>1, <2>2 DEF RxAddbaResp, IInv, AmpduGranted
  <1>7. BackoffReached' /\ OwnTimer'
    BY DEF RxAddbaResp, IInv, BackoffReached, OwnTimer
  <1> QED
    BY <1>4, <1>5, <1>6, <1>7 DEF IInv

\* umac_ba_rx_delba and umac_ba_deinit close the session.
LEMMA ClosedKeeps == ASSUME IInv, RxDelba \/ Deinit PROVE IInv'
  <1>1. CASE RxDelba
    BY <1>1, BagNone DEF RxDelba, IInv, Types, TypeOK, Status, AmpduGranted, Granting,
       BackoffReached, OwnTimer
  <1>2. CASE Deinit
    <2>1. leaves' # 0 /\ leaves' \in Nat
      BY <1>2 DEF Deinit, IInv, Types
    <2>2. Types'
      BY <1>2, <2>1, OriginatorAssumption DEF Deinit, Blank, IInv, Types, TypeOK, Status
    <2> QED
      BY <1>2, <2>1, <2>2 DEF Deinit, Blank, IInv, AmpduGranted, Granting,
         BackoffReached, OwnTimer
  <1> QED
    BY <1>1, <1>2

\* The peer answers the oldest request, or does not.
LEMMA PeerKeeps == ASSUME IInv, PeerAnswers \/ PeerIgnores PROVE IInv'
  <1>1. Head(requests) \in Tokens /\ Tail(requests) \in Seq(Tokens)
    BY DEF PeerAnswers, PeerIgnores, IInv, Types
  <1>2. CASE PeerAnswers
    <2>1. PICK what \in Answers :
            /\ responses' = Append(responses, [token |-> Head(requests), what |-> what])
            /\ granted' = IF what = "success" THEN granted \cup {Head(requests)}
                                              ELSE granted
      BY <1>2 DEF PeerAnswers
    <2>2. [token |-> Head(requests), what |-> what] \in Response
      BY <1>1 DEF Response
    <2>3. responses' \in Seq(Response)
      BY <2>1, <2>2 DEF IInv, Types
    <2>4. Types'
      BY <1>1, <1>2, <2>1, <2>3 DEF PeerAnswers, IInv, Types, TypeOK
    <2>5. \A i \in DOMAIN responses' :
             \/ i \in DOMAIN responses /\ responses'[i] = responses[i]
             \/ responses'[i] = [token |-> Head(requests), what |-> what]
      BY <2>1, <2>2 DEF IInv, Types
    <2>6. AmpduGranted' /\ Granting'
      BY <1>2, <2>1, <2>5 DEF PeerAnswers, IInv, AmpduGranted, Granting
    <2> QED
      BY <1>2, <2>4, <2>6 DEF PeerAnswers, IInv, BackoffReached, OwnTimer
  <1>3. CASE PeerIgnores
    BY <1>1, <1>3 DEF PeerIgnores, IInv, Types, TypeOK, AmpduGranted, Granting,
       BackoffReached, OwnTimer
  <1> QED
    BY <1>2, <1>3

\* A period passes for the session and for its timeout alike.
LEMMA TickKeeps == ASSUME IInv, Tick PROVE IInv'
  <1>1. /\ IsABag(timers') /\ BagToSet(timers') \subseteq 0 .. BackoffMax
        /\ \A p \in Nat : timers = SetToBag({p}) => p > 0 /\ timers' = SetToBag({p - 1})
    BY BagTick DEF Tick, IInv, Types, TypeOK
  <1>2. waited' \in 0 .. BackoffMax
    BY OriginatorAssumption DEF Tick, Lesser, IInv, Types, TypeOK
  <1>3. Types'
    BY <1>1, <1>2 DEF Tick, IInv, Types, TypeOK
  <1>4. OwnTimer'
    <2> SUFFICES ASSUME leaves' = 0, fails' = 0 PROVE OwnTimer'
      BY DEF OwnTimer
    <2>1. PICK p \in Nat : timers = SetToBag({p}) /\ p + waited = session.backoff
      BY DEF Tick, IInv, OwnTimer
    <2>2. p > 0 /\ timers' = SetToBag({p - 1})
      BY <1>1, <2>1
    <2>3. waited' = waited + 1
      BY <2>1, <2>2, OriginatorAssumption DEF Tick, Lesser, IInv, Types, TypeOK
    <2>4. p - 1 \in Nat /\ (p - 1) + waited' = session.backoff
      BY <2>1, <2>2, <2>3 DEF IInv, Types, TypeOK
    <2> QED
      BY <2>1, <2>2, <2>4, BagOne DEF Tick, IInv, OwnTimer
  <1>5. AmpduGranted' /\ Granting' /\ BackoffReached'
    BY DEF Tick, IInv, AmpduGranted, Granting, BackoffReached
  <1> QED
    BY <1>3, <1>4, <1>5 DEF IInv

-----------------------------------------------------------------------------
(* The theorems                                                            *)

\* The invariant is one.
LEMMA Invariance == Spec => []IInv
  <1>1. ASSUME Init PROVE IInv
    <2>1. cut \in BOOLEAN /\ deaf \in BOOLEAN
      BY <1>1 DEF Init
    <2>2. Types
      BY <1>1, <2>1, BagNone, OriginatorAssumption DEF Init, Blank, Types, TypeOK, Status
    <2> QED
      BY <1>1, <2>2 DEF Init, Blank, IInv, AmpduGranted, Granting, BackoffReached,
         OwnTimer
  <1>2. ASSUME IInv, [Next]_vars PROVE IInv'
    <2>1. CASE UNCHANGED vars
      BY <1>2, <2>1 DEF vars, IInv, Types, TypeOK, AmpduGranted, Granting,
         BackoffReached, OwnTimer
    <2>2. CASE Next
      BY <1>2, <2>2, SessionInitKeeps, RequestTimeoutKeeps, RxAddbaRespKeeps, ClosedKeeps,
         PeerKeeps, TickKeeps DEF Next
    <2> QED
      BY <1>2, <2>1, <2>2
  <1> QED
    BY <1>1, <1>2, PTL DEF Spec

\* Frames go out in aggregates only when the peer has granted the request that
\* the session stands for, and the backoff is limited, whatever requests were
\* answered late, refused or given up before (umac_ba_rx_addba_resp).
THEOREM SessionSoundness == Spec => []SessionSound
  <1>1. IInv => SessionSound
    BY DEF IInv, Types, SessionSound
  <1> QED
    BY <1>1, Invariance, PTL

\* Within a connection in which nothing fails, no request is given up by the
\* timeout of another (umac_ba_addba_req_timeout_handler).
THEOREM BackoffKept == Spec => []BackoffReached
  <1>1. IInv => BackoffReached
    BY DEF IInv
  <1> QED
    BY <1>1, Invariance, PTL
=============================================================================
