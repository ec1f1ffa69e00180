----------------------------- MODULE KevinFallback -----------------------------
(***************************************************************************)
(* The ringing task of src/app/webhooks/twilio_incoming.py that hands an   *)
(* unanswered caller to Kevin (_ring_contractor, _hand_off_to_kevin,       *)
(* _async_redirect_to_kevin, release_stranded_fallback_redirect), and the  *)
(* start and end of the media stream the caller is sent to                 *)
(* (media_stream_ws, confirm_fallback_stream). Attempt n of the hand-off   *)
(* draws one fresh redirect nonce and one fresh stream token: both are n.  *)
(***************************************************************************)
EXTENDS ActiveCall

CONSTANT RecoveryAttempts    \* REDIRECT_RECOVERY_ATTEMPTS

ASSUME RecoveryAssumption == RecoveryAttempts \in Nat

VARIABLES
    ring,        \* where the ringing task is
    attempt,     \* redirect attempts that reached the record
    origin,      \* what asked for the attempt: the "poll" loop or the "handoff"
    recoveries,  \* recovery rounds used
    strandedNonce,  \* the attempt that release_stranded_fallback_redirect read
    startNonce   \* token -> the redirect nonce its stream read when it started

fallbackVars == <<ring, attempt, origin, recoveries, strandedNonce, startNonce>>

FallbackTypeOK ==
    /\ ring \in {"push", "poll", "adopt", "claim", "decide", "store", "redirect", "finish",
                 "recover", "lookup", "release", "done"}
    /\ attempt \in 0 .. MaxAttempts
    /\ origin \in {"poll", "handoff"}
    /\ recoveries \in 0 .. RecoveryAttempts
    /\ strandedNonce \in {None} \cup Attempts
    /\ startNonce \in [Tokens -> {None} \cup Attempts]

FallbackInit ==
    /\ ring = IF Route = "ring" THEN "push" ELSE "done"
    /\ attempt = 0
    /\ origin = "poll"
    /\ recoveries = 0
    /\ strandedNonce = None
    /\ startNonce = [t \in Tokens |-> None]

-----------------------------------------------------------------------------
(* _ring_contractor.                                                       *)

HandOff == ring' = "store" /\ origin' = "handoff"

\* The push goes out, or there is no token to send it to, or sending it raises.
RingPush ==
    /\ ring = "push"
    /\ \/ ring' = "poll" /\ UNCHANGED origin
       \/ HandOff
    /\ UNCHANGED <<sharedVars, attempt, recoveries, strandedNonce, startNonce>>

\* A poll finds a message intent that still names the ring conference.
RingSeesIntent ==
    /\ ring = "poll"
    /\ message_intent_from_record(rec, Requested) # None
    /\ rec.conference_name = FirstConf
    /\ ring' = "store"
    /\ origin' = "poll"
    /\ UNCHANGED <<sharedVars, attempt, recoveries, strandedNonce, startNonce>>

\* Twenty seconds pass.
RingTimeout ==
    /\ ring = "poll"
    /\ ring' = "decide"
    /\ UNCHANGED <<sharedVars, attempt, origin, recoveries, strandedNonce, startNonce>>

StillRinging(r) ==
    /\ live_record(r)
    /\ ~r.accepted
    /\ r.owner_action # "accept"
    /\ r.conference_name = FirstConf

\* A read that fails ends in the handler that hands off all the same.
RingDecide ==
    /\ ring = "decide"
    /\ \E outcome \in Outcomes \ {"lost"} :
         /\ Charge(outcome)
         /\ IF outcome = "ok" /\ ~StillRinging(rec)
            THEN ring' = "done" /\ UNCHANGED origin
            ELSE HandOff
    /\ UNCHANGED <<rec, caller, streams, attempt, recoveries, strandedNonce, startNonce>>

-----------------------------------------------------------------------------
(* _async_redirect_to_kevin, and what each of its callers does when it     *)
(* did not redirect the call.                                              *)

NotRedirected == ring' = IF origin = "poll" THEN "poll" ELSE "recover"

\* Seeded fault: the redirect does not ask who owns the call.
store_token_unasked(r, n) ==
    IF live_record(r) /\ r.kevin_redirect_nonce = None
    THEN [r EXCEPT !.ws_token = n, !.kevin_redirect_nonce = n, !.kevin_redirect_status = "pending"]
    ELSE r

store_token(r, n) ==
    IF StillRinging(r) /\ r.kevin_redirect_nonce = None
    THEN [r EXCEPT !.ws_token = n, !.kevin_redirect_nonce = n, !.kevin_redirect_status = "pending"]
    ELSE r

RedirectStore ==
    /\ ring = "store"
    /\ attempt < MaxAttempts
    /\ \E outcome \in Outcomes :
         LET n      == attempt + 1
             stored == store_token(rec, n)
             owned  == stored.kevin_redirect_nonce = n
         IN  /\ Commit(outcome, stored)
             /\ attempt' = IF outcome # "failed" /\ owned THEN n ELSE attempt
             /\ IF outcome = "ok" /\ owned THEN ring' = "redirect"
                ELSE IF /\ outcome = "ok"
                        /\ StillRinging(stored)
                        /\ stored.kevin_redirect_status = "succeeded" THEN ring' = "done"
                ELSE NotRedirected
    /\ UNCHANGED <<caller, streams, origin, recoveries, strandedNonce, startNonce>>

RedirectCall ==
    /\ ring = "redirect"
    /\ \E outcome \in RedirectOutcomes :
         /\ Redirect(outcome, OnStream(attempt))
         /\ IF outcome = "ok" THEN ring' = "finish" ELSE NotRedirected
    /\ UNCHANGED <<rec, streams, attempt, origin, recoveries, strandedNonce, startNonce>>

\* The provider confirmed: a finish that fails leaves "pending", which still
\* prevents a replay.
RedirectFinish ==
    /\ ring = "finish"
    /\ \E outcome \in Outcomes :
         Commit(outcome, IF StillRinging(rec) /\ rec.kevin_redirect_nonce = attempt
                         THEN [rec EXCEPT !.kevin_redirect_status = "succeeded"] ELSE rec)
    /\ ring' = "done"
    /\ UNCHANGED <<caller, streams, attempt, origin, recoveries, strandedNonce, startNonce>>

-----------------------------------------------------------------------------
(* _hand_off_to_kevin: release_stranded_fallback_redirect decides whether  *)
(* a redirect that was not confirmed may be sent again.                    *)

\* Seeded fault: an attempt that is still pending is never recovered.
EligibleUntried(r) == StillRinging(r) /\ r.kevin_redirect_status = None

Eligible(r) == StillRinging(r) /\ r.kevin_redirect_status \in {None, "pending"}

RecoverRead ==
    /\ ring = "recover"
    /\ recoveries < RecoveryAttempts
    /\ recoveries' = recoveries + 1
    /\ \E outcome \in Outcomes \ {"lost"} :
         /\ Charge(outcome)
         /\ ring' = IF outcome = "failed" THEN "recover"
                    ELSE IF Eligible(rec) THEN "lookup" ELSE "done"
    /\ strandedNonce' = IF ring' = "lookup" THEN rec.kevin_redirect_nonce ELSE None
    /\ UNCHANGED <<rec, caller, streams, attempt, origin, startNonce>>

\* Seeded fault: a redirect that raised is sent again without proof that it failed.
RecoverUnproved ==
    /\ ring = "lookup"
    /\ ring' = "release"
    /\ UNCHANGED <<sharedVars, attempt, origin, recoveries, strandedNonce, startNonce>>

\* Proof that the redirect did not work: the caller is still in the conference.
RecoverLookup ==
    /\ ring = "lookup"
    /\ \E outcome \in Outcomes \ {"lost"} :
         /\ Charge(outcome)
         /\ ring' = IF outcome = "ok" /\ caller = InConf(FirstConf) THEN "release" ELSE "recover"
    /\ UNCHANGED <<rec, caller, streams, attempt, origin, recoveries, strandedNonce, startNonce>>

release_redirect(r) ==
    IF Eligible(r) /\ r.kevin_redirect_nonce = strandedNonce
    THEN [r EXCEPT !.kevin_redirect_nonce = None, !.kevin_redirect_status = None]
    ELSE r

RecoverRelease ==
    /\ ring = "release"
    /\ \E outcome \in Outcomes :
         LET freed == release_redirect(rec) IN
         /\ Commit(outcome, freed)
         /\ ring' = IF outcome # "ok" THEN "recover"
                    ELSE IF Eligible(freed) /\ freed.kevin_redirect_nonce = None THEN "store"
                    ELSE "done"
    /\ strandedNonce' = None
    /\ UNCHANGED <<caller, streams, attempt, origin, recoveries, startNonce>>

\* "Hand-off to Kevin unconfirmed; the caller may still be waiting".
RecoverGiveUp ==
    /\ ring = "recover"
    /\ recoveries = RecoveryAttempts
    /\ ring' = "done"
    /\ UNCHANGED <<sharedVars, attempt, origin, recoveries, strandedNonce, startNonce>>

RingStep ==
    \/ RingPush \/ RingSeesIntent \/ RingTimeout \/ RingDecide
    \/ RedirectStore \/ RedirectCall \/ RedirectFinish
    \/ RecoverRead \/ RecoverLookup \/ RecoverRelease \/ RecoverGiveUp

-----------------------------------------------------------------------------
(* The media stream of token t: media_stream_ws and relay_stream_ws.       *)

\* The socket opens and its token is checked against the record. A stream that
\* is refused ends the TwiML the caller was on, and so the call.
StreamStart(t) ==
    /\ streams[t] = "off"
    /\ caller = OnStream(t)
    /\ LET authentic == rec.state # "gone" /\ rec.ws_token = t
           next == IF ~authentic THEN "closed"
                   ELSE IF rec.kevin_redirect_nonce = None THEN "up" ELSE "confirming"
       IN  /\ streams' = [streams EXCEPT ![t] = next]
           /\ caller' = IF next = "closed" THEN Gone ELSE caller
           /\ startNonce' = [startNonce EXCEPT ![t] =
                               IF next = "confirming" THEN rec.kevin_redirect_nonce ELSE None]
    /\ UNCHANGED <<rec, faults, ring, attempt, origin, recoveries, strandedNonce>>

FallbackMatches(r, t) ==
    /\ live_record(r)
    /\ r.ws_token = t
    /\ r.kevin_redirect_nonce = startNonce[t]
    /\ r.kevin_redirect_status \in {"pending", "succeeded"}
    /\ ~r.accepted
    /\ r.owner_action # "accept"

\* confirm_fallback_stream: the stream's arrival proves the redirect worked.
StreamConfirm(t) ==
    /\ streams[t] = "confirming"
    /\ \E outcome \in Outcomes :
         LET confirmed == IF FallbackMatches(rec, t)
                          THEN [rec EXCEPT !.kevin_redirect_status = "succeeded"] ELSE rec
             next == IF outcome = "ok" /\ FallbackMatches(confirmed, t) THEN "up" ELSE "closed"
         IN  /\ Commit(outcome, confirmed)
             /\ streams' = [streams EXCEPT ![t] = next]
             /\ caller' = IF next = "closed" /\ caller = OnStream(t) THEN Gone ELSE caller
    /\ startNonce' = [startNonce EXCEPT ![t] = None]
    /\ UNCHANGED <<ring, attempt, origin, recoveries, strandedNonce>>

\* Twilio closes the socket of a caller who is no longer on the stream; the
\* pipeline runs on until it does.
StreamStop(t) ==
    /\ streams[t] = "up"
    /\ caller # OnStream(t)
    /\ streams' = [streams EXCEPT ![t] = "closed"]
    /\ UNCHANGED <<rec, caller, faults, fallbackVars>>

FallbackNext == RingStep \/ \E t \in Tokens : StreamStart(t) \/ StreamConfirm(t) \/ StreamStop(t)
=============================================================================
