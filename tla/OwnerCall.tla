------------------------------- MODULE OwnerCall -------------------------------
(***************************************************************************)
(* One call and everybody who decides about it: the owner's POSTs and GETs *)
(* (OwnerPickup), the message path (MessageRequest), the ringing task and  *)
(* the media streams (KevinFallback), and the call itself (ActiveCall).    *)
(* They share the durable record, and every step interleaves with every    *)
(* other: the handlers run in different Cloud Run instances.               *)
(***************************************************************************)
EXTENDS OwnerPickup, KevinFallback, MessageRequest

vars == <<sharedVars, pickupVars, fallbackVars, messageVars>>

Init == SharedInit /\ PickupInit /\ FallbackInit /\ MessageInit

\* The ringing task adopts a bare command in each round of its poll, by the
\* conference it rings: the command is read, then the record, then claimed.
RingReadsCommand ==
    /\ ring = "poll"
    /\ command = Bare
    /\ ring' = "adopt"
    /\ UNCHANGED sharedVars

RingReadsRecord ==
    /\ ring = "adopt"
    /\ \E outcome \in Outcomes \ {"lost"} :
         /\ Charge(outcome)
         /\ ring' = IF outcome = "ok" /\ Unclaimed(rec, rec.conference_name = FirstConf)
                    THEN "claim" ELSE "poll"
    /\ UNCHANGED <<rec, caller, streams>>

RingClaims ==
    /\ ring = "claim"
    /\ \E outcome \in Outcomes : Commit(outcome, Adoption(rec, rec.conference_name = FirstConf))
    /\ ring' = "poll"
    /\ UNCHANGED <<caller, streams>>

RingAdopts ==
    /\ RingReadsCommand \/ RingReadsRecord \/ RingClaims
    /\ UNCHANGED <<attempt, origin, recoveries, strandedNonce, startNonce>>

Next ==
    \/ CallNext /\ UNCHANGED <<pickupVars, fallbackVars, messageVars>>
    \/ PickupNext /\ UNCHANGED <<fallbackVars, messageVars>>
    \/ FallbackNext /\ UNCHANGED <<pickupVars, messageVars>>
    \/ MessageNext /\ UNCHANGED <<pickupVars, fallbackVars>>
    \/ RingAdopts /\ UNCHANGED <<pickupVars, messageVars>>

Spec == Init /\ [][Next]_vars

-----------------------------------------------------------------------------
(* Fairness: an admitted handler runs on, the ringing task and the timer   *)
(* are supervised loops, the first one of ten rounds, a stream that Twilio *)
(* opened is served, and Kevin, who retries every poll, is eventually not  *)
(* interrupted. Nobody has to POST, poll, hang up or let the call age.     *)

Quiet(A) == A /\ UNCHANGED <<pickupVars, fallbackVars>>

Speaks(t) == ConsumeGuard(t) /\ consume'[t] = "deliver"
Delivers(t) == ConsumeDeliver(t) /\ consume'[t] = "ack"

Answering ==
    /\ \A a \in Accepts : WF_vars(AcceptStep(a) /\ UNCHANGED <<fallbackVars, messageVars>>)
    /\ WF_vars((RingStep \/ RingAdopts) /\ UNCHANGED <<pickupVars, messageVars>>)
    /\ SF_vars(RingTimeout /\ UNCHANGED <<pickupVars, messageVars>>)
    /\ \A t \in Tokens : WF_vars((StreamStart(t) \/ StreamConfirm(t) \/ StreamStop(t))
                                /\ UNCHANGED <<pickupVars, messageVars>>)

Settling ==
    /\ \A q \in Polls : WF_vars(PollStep(q) /\ UNCHANGED <<fallbackVars, messageVars>>)
    /\ \A t \in Tokens :
         /\ WF_vars(Quiet(ConsumeStep(t)))
         /\ SF_vars(Quiet(Speaks(t)))
         /\ SF_vars(Quiet(Delivers(t)))
    /\ \A p \in Publishers : WF_vars(Quiet(PublishStep(p)))
    /\ WF_vars(Quiet(TimerStep))

\* Whoever answers a ringing caller, and, with them, whoever settles a message.
AnsweringSpec == Spec /\ Answering

FairSpec == Spec /\ Answering /\ Settling

-----------------------------------------------------------------------------
(* Safety.                                                                 *)

TypeOK == SharedTypeOK /\ PickupTypeOK /\ FallbackTypeOK /\ MessageTypeOK

\* Of all accept POSTs, retries and lost answers included, at most one ever asks
\* Twilio to move the caller, and its claim still owns the record
\* (_mark_redirect_started, _release_preparation).
OnePickupRedirect ==
    \A a \in redirected :
        rec.claim_nonce = a /\ rec.owner_action = "accept" /\ rec.redirect_started

\* Credentials name a conference the caller was really moved into: no POST and
\* no GET hands out a room that the caller may never reach.
CredentialsAreProved == granted \subseteq {a \in redirected : caller \in {InConf(a), Gone}}

\* A POST answered "preparation_failed, retryable" left nothing behind: its claim
\* is not on the record and its redirect was never sent.
RetryableIsClean ==
    \A a \in Accepts : accept[a] = "preparation_failed" =>
        rec.claim_nonce # a /\ rec.conference_name # a /\ a \notin redirected

\* What the owner's device is answered is true: credentials reach the caller, and a retry
\* is safe (handle_owner_call_action, get_owner_call_action_status).
AnswersAreTrue == CredentialsAreProved /\ RetryableIsClean

\* The caller is never both told that the owner is unavailable and moved to the owner.
MessageExcludesPickup == heard # {} => redirected = {}

\* taking_message is only ever recorded after the stream that now holds the
\* caller's token announced exactly the claim on the record.
TakingMessageWasAnnounced ==
    rec.owner_action_status = "taking_message" =>
        \E t \in Tokens : /\ rec.ws_token = t
                          /\ delivered[t] # None
                          /\ delivered[t].claim_nonce = rec.claim_nonce

\* A caller whom Kevin has is on the one stream whose token the record holds: any
\* other stream is refused, and could neither adopt, announce nor acknowledge a
\* decision (_async_redirect_to_kevin, release_stranded_fallback_redirect).
ServedStreamOwnsToken ==
    \A t \in Tokens : caller = OnStream(t) /\ rec.state # "gone" => rec.ws_token = t

\* Nobody moves a caller away from the owner who took the call.
PickupIsKept ==
    [][\A a \in Accepts : caller = InConf(a) => caller' \in {InConf(a), Gone}]_vars

\* A decision that is out of its preparation stays: nothing releases a pickup
\* whose redirect started, or a message that was requested.
DecisionIsFinal ==
    [][rec.redirect_started \/ rec.owner_action \in {"decline", "timeout"} =>
         /\ rec'.owner_action = rec.owner_action
         /\ rec'.claim_nonce = rec.claim_nonce
         /\ rec'.conference_name = rec.conference_name]_vars

-----------------------------------------------------------------------------
(* The promise.                                                            *)

Decision ==
    CASE rec.owner_action = None -> "open"
      [] rec.owner_action = "accept" /\ ~rec.redirect_started -> "preparing"
      [] rec.owner_action = "accept" /\ rec.redirect_started -> "pickup"
      [] OTHER -> "message"

Place ==
    CASE caller = Gone -> "gone"
      [] caller = InConf(FirstConf) -> "ringing"
      [] \E t \in Tokens : caller = OnStream(t) -> "kevin"
      [] OTHER -> "owner"

Arbitration == INSTANCE CallArbitration WITH
    decision <- Decision, place <- Place, told <- heard # {}

\* The engine implements the arbitration it promises.
ArbitrationSpec == Arbitration!Spec

-----------------------------------------------------------------------------
(* Liveness.                                                               *)

\* A pickup let go of its claim: its preparation failed and the device was told to retry.
LetGo == \E a \in Accepts : accept[a] = "preparation_failed"

Waiting ==
    /\ caller = InConf(FirstConf)
    /\ rec.state = "decision"
    /\ rec.owner_action # "accept"
    /\ ~LetGo

\* A ringing caller does not ring for ever: Kevin answers, unless a pickup claimed
\* the call. Excepted is also the call whose pickup let go of it: a ringing task
\* whose twenty seconds ended on that claim has returned (_ring_contractor), and
\* only another POST answers.
RingIsAnswered == Waiting ~> ~Waiting

Holding ==
    /\ timer # "off"
    /\ PipelineAlive
    /\ MessageAllowed(rec)
    /\ rec.owner_action # "accept"
    /\ heard = {}

\* The caller whom Kevin asked to hold is not held for ever (run_owner_timeout):
\* a message is taken, unless the owner took the call or may still be taking it.
\* Excepted is the call whose pickup let go of it: a timeout that lost to that
\* claim and read the record after the release has ended.
HoldEnds == []<>(~Holding \/ LetGo)
=============================================================================
