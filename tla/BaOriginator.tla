---------------------------- MODULE BaOriginator ----------------------------
(***************************************************************************)
(* The block ack session of which this station is the originator, for one  *)
(* traffic identifier (umac_ba.c): a transmission opens it with an ADDBA   *)
(* request, whose answer is awaited for a time that doubles with every     *)
(* request.                                                                *)
(*                                                                         *)
(* The peer is external: it answers requests in order, or not at all, and  *)
(* takes as long as it likes.  Time is counted in units of                 *)
(* ADDBA_REQ_BASE_TIMEOUT_MS.                                              *)
(***************************************************************************)
EXTENDS Integers, Sequences, SequencesExt, FiniteSets, Bags

CONSTANTS
    Tokens,         \* dialog tokens: 1 .. 255
    BackoffMax,     \* ADDBA_REQ_MAX_TIMEOUT_MS: 600 units
    MaxRequests,    \* bound: sessions requested
    MaxFails,       \* bound: frames that cannot be sent, timeouts not had
    MaxLeaves       \* bound: disconnections

Answers == {"success", "refused", "delayed"}

ASSUME OriginatorAssumption ==
    /\ Tokens \subseteq Nat /\ Cardinality(Tokens) > 1
    /\ BackoffMax \in Nat \ {0}
    /\ {MaxRequests, MaxFails, MaxLeaves} \subseteq Nat

VARIABLES
    session,    \* [status, token, backoff]
    timers,     \* bag of the periods left of the timeouts of this session
    waited,     \* periods since the request was sent
    cut,        \* a request was given up before its backoff was over
    deaf,       \* an answer has cancelled the timeout of a request it left open
    requests,   \* tokens of the requests that the peer has not answered
    responses,  \* answers on their way: sequence of [token, what]
    granted,    \* tokens that the peer has answered with success
    sent, fails, leaves

vars == <<session, timers, waited, cut, deaf, requests, responses, granted,
          sent, fails, leaves>>

Status == {"DISABLED", "REQUESTED", "REFUSED", "SUCCESS"}
Blank  == [status |-> "DISABLED", token |-> 0, backoff |-> 0]

\* umac_ba_calculate_addba_attempt_backoff
NextBackoff(b) ==
    IF b = 0 THEN 1 ELSE IF b * 2 >= BackoffMax THEN BackoffMax ELSE b * 2

Init ==
    /\ session = Blank
    /\ timers = EmptyBag
    /\ waited = 0
    /\ cut = FALSE
    /\ deaf = FALSE
    /\ requests = <<>> /\ responses = <<>>
    /\ granted = {}
    /\ sent = 0 /\ fails = 0 /\ leaves = 0

\* A step that needs something that may be refused: it is had, or not.
Had(ok) ==
    /\ ok \/ fails < MaxFails
    /\ fails' = IF ok THEN fails ELSE fails + 1

\* umac_ba_session_init, with umac_ba_tx_addba_req.  The timeout is
\* registered whether or not the request could be sent.  mmhal_random_u32
\* does not repeat the token of a request that is still unanswered.
SessionInit ==
    /\ sent < MaxRequests
    /\ session.status = "DISABLED"
    /\ sent' = sent + 1
    /\ \E token \in Tokens, txOk, regOk \in BOOLEAN :
          /\ token \notin Range(requests)
          /\ \A i \in DOMAIN responses : responses[i].token # token
          /\ Had(txOk /\ regOk)
          /\ LET backoff == NextBackoff(session.backoff) IN
             /\ session' = [status  |-> IF txOk THEN "REQUESTED" ELSE "DISABLED",
                            token   |-> token,
                            backoff |-> backoff]
             /\ timers' = IF regOk THEN timers (+) SetToBag({backoff}) ELSE timers
          /\ requests' = IF txOk THEN Append(requests, token) ELSE requests
          /\ waited' = 0
          /\ granted' = granted \ {token}
    /\ UNCHANGED <<cut, deaf, responses, leaves>>

\* mutant of RequestTimeout: the session is not closed
RequestTimeoutKept ==
    /\ BagIn(0, timers)
    /\ timers' = timers (-) SetToBag({0})
    /\ UNCHANGED <<session, waited, cut, deaf, requests, responses, granted, sent,
                   fails, leaves>>

\* umac_ba_addba_req_timeout_handler.  When the DELBA frame cannot be sent
\* the session remains as it is.
RequestTimeout ==
    /\ BagIn(0, timers)
    /\ timers' = timers (-) SetToBag({0})
    /\ IF session.status # "REQUESTED"
       THEN UNCHANGED <<session, cut, fails>>
       ELSE \E ok \in BOOLEAN :
              /\ Had(ok)
              /\ session' = [session EXCEPT !.status = IF ok THEN "DISABLED" ELSE @]
              /\ cut' = (cut \/ (ok /\ waited < session.backoff))
    /\ UNCHANGED <<waited, deaf, requests, responses, granted, sent, leaves>>

\* mutant of Accepts: the token is not compared
AcceptsAny(r) == session.status = "REQUESTED"

\* umac_ba_rx_addba_resp.  The timeout is cancelled before the answer is
\* looked at.
Accepts(r) == session.status = "REQUESTED" /\ session.token = r.token

StatusAfter(r) ==
    IF ~Accepts(r) THEN session.status
    ELSE CASE r.what = "refused" -> "REFUSED"
           [] r.what = "delayed" -> session.status
           [] r.what = "success" -> "SUCCESS"

RxAddbaResp ==
    /\ responses # <<>>
    /\ responses' = Tail(responses)
    /\ timers' = EmptyBag
    /\ session' = [session EXCEPT !.status = StatusAfter(Head(responses))]
    /\ deaf' = (deaf \/ (session.status = "REQUESTED" /\ session'.status = "REQUESTED"))
    /\ UNCHANGED <<waited, cut, requests, granted, sent, fails, leaves>>

\* mutant of RxDelba: the timeout stays registered
RxDelbaTimerKept ==
    /\ session.status # "DISABLED"
    /\ session' = [session EXCEPT !.status = "DISABLED"]
    /\ UNCHANGED <<timers, waited, cut, deaf, requests, responses, granted, sent, fails, leaves>>

\* umac_ba_rx_delba, sent by the recipient
RxDelba ==
    /\ session.status # "DISABLED"
    /\ session' = [session EXCEPT !.status = "DISABLED"]
    /\ timers' = EmptyBag
    /\ UNCHANGED <<waited, cut, deaf, requests, responses, granted, sent, fails, leaves>>

\* umac_ba_deinit, on disconnection: what is registered stays registered.
\* The peer forgets the station, and what it had to say to it.
Deinit ==
    /\ leaves < MaxLeaves
    /\ session' = Blank
    /\ requests' = <<>> /\ responses' = <<>>
    /\ leaves' = leaves + 1
    /\ UNCHANGED <<timers, waited, cut, deaf, granted, sent, fails>>

PeerAnswers ==
    /\ requests # <<>>
    /\ requests' = Tail(requests)
    /\ \E what \in Answers :
          /\ responses' = Append(responses, [token |-> Head(requests), what |-> what])
          /\ granted' = IF what = "success" THEN granted \cup {Head(requests)}
                                            ELSE granted
    /\ UNCHANGED <<session, timers, waited, cut, deaf, sent, fails, leaves>>

PeerIgnores ==
    /\ requests # <<>>
    /\ requests' = Tail(requests)
    /\ UNCHANGED <<session, timers, waited, cut, deaf, responses, granted, sent, fails, leaves>>

Lesser(a, b) == IF a < b THEN a ELSE b

\* A timeout that is due is dispatched before the next period begins.
Tick ==
    /\ timers # EmptyBag /\ ~BagIn(0, timers)
    /\ timers' = [p \in { q - 1 : q \in BagToSet(timers) } |-> timers[p + 1]]
    /\ waited' = Lesser(waited + 1, BackoffMax)
    /\ UNCHANGED <<session, cut, deaf, requests, responses, granted, sent, fails, leaves>>

Next ==
    \/ SessionInit
    \/ RequestTimeout
    \/ RxAddbaResp
    \/ RxDelba
    \/ Deinit
    \/ PeerAnswers
    \/ PeerIgnores
    \/ Tick

Spec == Init /\ [][Next]_vars

\* The event loop dispatches what is due and what is received, the clock
\* advances, and the peer gets round to every request.
FairSpec ==
    /\ Spec
    /\ WF_vars(Tick) /\ WF_vars(RequestTimeout) /\ WF_vars(RxAddbaResp)
    /\ WF_vars(PeerAnswers \/ PeerIgnores)
-----------------------------------------------------------------------------
\* Every variable has its type; the backoff is limited
\* (umac_ba_calculate_addba_attempt_backoff).
TypeOK ==
    /\ session \in [status : Status, token : Tokens \cup {0},
                    backoff : 0 .. BackoffMax]
    /\ IsABag(timers) /\ BagToSet(timers) \subseteq 0 .. BackoffMax
    /\ waited \in 0 .. BackoffMax
    /\ cut \in BOOLEAN /\ deaf \in BOOLEAN
    /\ granted \subseteq Tokens

\* Frames are sent in aggregates only once the peer has granted the very
\* request the session now stands for, however many earlier requests it has
\* answered in between (umac_ba_is_ampdu_permitted).
AmpduGranted == session.status = "SUCCESS" => session.token \in granted

\* The session is what the peer has granted, and its backoff is limited,
\* whichever way earlier requests ended (umac_ba_rx_addba_resp).
SessionSound == TypeOK /\ AmpduGranted

\* A request does not stay open: an answer or the timeout ends it, and the next
\* transmission asks again, unless a frame or a timeout could not be had, or an
\* answer that does not end it (a late one, or delayed block ack) cancelled its
\* timeout
\* (umac_ba_addba_req_timeout_handler, umac_ba_rx_addba_resp).
RequestEnds ==
    session.status = "REQUESTED" ~>
        (session.status # "REQUESTED" \/ deaf \/ fails > 0)

\* Within a connection a request is given up when its own backoff is over, not
\* by the timeout of an earlier request that was answered or torn down
\* (umac_ba_addba_req_timeout_handler: "Attempt backoff reached").
BackoffReached == leaves = 0 /\ fails = 0 => ~cut
=============================================================================
