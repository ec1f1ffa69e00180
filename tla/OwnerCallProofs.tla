---------------------------- MODULE OwnerCallProofs ----------------------------
(***************************************************************************)
(* Proofs about OwnerCall for every set of POSTs, every bound and both     *)
(* routes. The callbacks of the transactions are proved first, as facts    *)
(* about records: each keeps the claim well formed (GoodRecord), and none  *)
(* takes back a decision (Decided). What the handlers may rely on follows  *)
(* by one inductive invariant, IInv.                                       *)
(***************************************************************************)
EXTENDS OwnerCall, TLAPS

\* The fields of a claim come and go together, and name its POST.
ClaimShape(r) ==
    /\ r.owner_action = None => r.owner_action_status = None /\ ~r.accepted /\ ~r.redirect_started
    /\ r.owner_action = "accept" =>
         /\ r.claim_nonce \in Accepts
         /\ r.owner_operation_id = OpOf[r.claim_nonce]
         /\ r.conference_name = r.claim_nonce
         /\ r.previous_conference_name \in Confs
    /\ r.owner_action \in {"decline", "timeout"} =>
         /\ r.claim_nonce \in Nonces \ Accepts
         /\ r.owner_operation_id \in AllOps
         /\ ~r.redirect_started

GoodRecord(r) == r \in Record /\ ClaimShape(r)

\* What no later transaction may change.
Decided(r) == r.redirect_started \/ r.owner_action \in {"decline", "timeout"}

Keeps(r, s) ==
    Decided(r) => /\ s.owner_action = r.owner_action
                  /\ s.claim_nonce = r.claim_nonce
                  /\ s.conference_name = r.conference_name
                  /\ s.redirect_started = r.redirect_started

Evolves(r, s) == GoodRecord(s) /\ Keeps(r, s)

\* A POST that is past its mark, or asked Twilio, owns the record for good.
Owns(a) == rec.owner_action = "accept" /\ rec.claim_nonce = a /\ rec.redirect_started

RedirectOwns ==
    \A a \in Accepts :
        a \in redirected \/ accept[a] \in {"redirect", "finish_uncertain", "finish_accepted"} => Owns(a)

MessageClaimed == rec.owner_action \in {"decline", "timeout"}

\* Where a consumer acts on the intent it read.
Acting == {"confirm", "guard", "deliver", "ack", "acknowledge"}

\* Whoever read an intent, or heard of one, knows that a message was claimed.
MessageOwns ==
    /\ \A t \in Tokens : /\ intent[t] # None => MessageClaimed
                         /\ consume[t] \in Acting => intent[t] \in Intent /\ MessageClaimed
    /\ heard # {} => MessageClaimed

PublisherHolds ==
    \A p \in Publishers : publish[p] # "idle" => expected[p] \in Claims

Seen == [claim_nonce : Accepts, owner_action_status : {"accepting", "uncertain"}]

PollHolds == \A q \in Polls : poll[q] # "idle" => pollSeen[q] \in Seen

IInv == TypeOK /\ ClaimShape(rec) /\ RedirectOwns /\ MessageOwns /\ PublisherHolds /\ PollHolds

-----------------------------------------------------------------------------
(* The callbacks.                                                          *)

\* An absent field is no action, nonce, operation id or conference.
LEMMA NoneIsApart ==
    /\ None \notin {"accept", "decline", "timeout"}
    /\ None \notin Nonces
    /\ None \notin AllOps
    /\ None \notin Confs
    /\ None \notin Nat
BY RequestsAssumption

\* What a POST carries: its operation id, its nonce, its conference (OwnerCallActionRequest).
LEMMA AcceptOps == \A a \in Accepts : OpOf[a] \in AllOps /\ a \in Nonces /\ a \in Confs
BY RequestsAssumption DEF Nonces, Confs

\* reduce_active_call_action, for a POST that accepts.
LEMMA ReduceAccept ==
    ASSUME NEW r, GoodRecord(r), NEW a \in Accepts
    PROVE  Evolves(r, reduce_active_call_action(r, "accept", OpOf[a], a))
<1>1. CASE ~Claimable(r)
  BY <1>1 DEF reduce_active_call_action, Evolves, Keeps
<1>2. CASE Claimable(r)
  <2>1. reduce_active_call_action(r, "accept", OpOf[a], a) = ClaimedAccept(r, OpOf[a], a)
    BY <1>2 DEF reduce_active_call_action
  <2>2. ~Decided(r)
    BY <1>2, NoneIsApart DEF Claimable, Decided, GoodRecord, ClaimShape
  <2>3. ClaimedAccept(r, OpOf[a], a) \in Record
    BY AcceptOps DEF ClaimedAccept, GoodRecord, Record
  <2>4. ClaimShape(ClaimedAccept(r, OpOf[a], a))
    BY AcceptOps, NoneIsApart DEF ClaimedAccept, GoodRecord, Record, ClaimShape
  <2> QED BY <2>1, <2>2, <2>3, <2>4 DEF Evolves, Keeps, GoodRecord
<1> QED BY <1>1, <1>2

\* reduce_active_call_action, for whoever takes a message.
LEMMA ReduceMessage ==
    ASSUME NEW r, GoodRecord(r), NEW action \in {"decline", "timeout"},
           NEW op \in AllOps, NEW nonce \in Nonces \ Accepts
    PROVE  Evolves(r, reduce_active_call_action(r, action, op, nonce))
<1>1. CASE ~Claimable(r)
  BY <1>1 DEF reduce_active_call_action, Evolves, Keeps
<1>2. CASE Claimable(r)
  <2>1. reduce_active_call_action(r, action, op, nonce) = ClaimedMessage(r, action, op, nonce)
    BY <1>2 DEF reduce_active_call_action
  <2>2. ~Decided(r)
    BY <1>2, NoneIsApart DEF Claimable, Decided, GoodRecord, ClaimShape
  <2>3. ClaimedMessage(r, action, op, nonce) \in Record
    BY DEF ClaimedMessage, GoodRecord, Record
  <2>4. ClaimShape(ClaimedMessage(r, action, op, nonce))
    BY <1>2, NoneIsApart DEF Claimable, ClaimedMessage, GoodRecord, Record, ClaimShape
  <2> QED BY <2>1, <2>2, <2>3, <2>4 DEF Evolves, Keeps, GoodRecord
<1> QED BY <1>1, <1>2

\* _mark_redirect_started
LEMMA MarkEvolves ==
    ASSUME NEW r, GoodRecord(r), NEW a \in Accepts
    PROVE  Evolves(r, mark_redirect_started(r, a))
<1> DEFINE s == mark_redirect_started(r, a)
<1>1. s \in Record
  <2>1. [r EXCEPT !.accepted = TRUE, !.redirect_started = TRUE] \in Record
    BY DEF GoodRecord, Record
  <2> QED BY <2>1 DEF mark_redirect_started, GoodRecord
<1>2. ClaimShape(s)
  BY NoneIsApart DEF mark_redirect_started, same_claim, GoodRecord, Record, ClaimShape
<1>3. Keeps(r, s)
  BY DEF mark_redirect_started, same_claim, GoodRecord, Record, ClaimShape, Keeps, Decided
<1> QED BY <1>1, <1>2, <1>3 DEF Evolves, GoodRecord

\* _release_preparation
LEMMA ReleaseEvolves ==
    ASSUME NEW r, GoodRecord(r), NEW a \in Accepts
    PROVE  Evolves(r, release_preparation(r, a))
<1> DEFINE s == release_preparation(r, a)
<1>1. s \in Record
  <2> DEFINE freed == [r EXCEPT !.conference_name = r.previous_conference_name,
                                !.previous_conference_name = None,
                                !.preparation_release_nonce = a,
                                !.owner_action = None, !.owner_action_status = None,
                                !.owner_operation_id = None, !.claim_nonce = None]
  <2>1. CASE ~same_claim(r, a)
    BY <2>1 DEF release_preparation, GoodRecord
  <2>2. CASE same_claim(r, a)
    <3>1. r \in Record /\ r.previous_conference_name \in Confs
      BY <2>2 DEF same_claim, GoodRecord, ClaimShape
    <3>2. freed \in Record
      BY <3>1 DEF Record
    <3>3. s \in {r, freed}
      BY DEF release_preparation
    <3> QED BY <3>1, <3>2, <3>3
  <2> QED BY <2>1, <2>2
<1>2. ClaimShape(s)
  BY NoneIsApart DEF release_preparation, same_claim, GoodRecord, Record, ClaimShape
<1>3. Keeps(r, s)
  BY DEF release_preparation, same_claim, GoodRecord, Keeps, Decided
<1> QED BY <1>1, <1>2, <1>3 DEF Evolves, GoodRecord

\* _finish
LEMMA FinishEvolves ==
    ASSUME NEW r, GoodRecord(r), NEW a \in Accepts, NEW status, NEW target \in {"accepted", "uncertain"}
    PROVE  Evolves(r, finish(r, a, status, target))
<1> DEFINE s == finish(r, a, status, target)
<1>1. s \in Record
  <2>1. [r EXCEPT !.owner_action_status = target] \in Record
    BY DEF GoodRecord, Record
  <2> QED BY <2>1 DEF finish, GoodRecord
<1>2. ClaimShape(s) /\ Keeps(r, s)
  BY NoneIsApart DEF finish, same_claim, GoodRecord, Record, ClaimShape, Keeps, Decided
<1> QED BY <1>1, <1>2 DEF Evolves, GoodRecord

\* Every other callback leaves the claim alone: the redirect to Kevin, the
\* confirmation of its stream, the publication, the acknowledgement, the age of
\* the record and its end.
SameClaimFields(r, s) ==
    /\ s.owner_action = r.owner_action
    /\ s.owner_operation_id = r.owner_operation_id
    /\ s.claim_nonce = r.claim_nonce
    /\ s.conference_name = r.conference_name
    /\ s.previous_conference_name = r.previous_conference_name
    /\ s.accepted = r.accepted
    /\ s.redirect_started = r.redirect_started

\* A write that leaves the claim's fields alone keeps the record well formed
\* (transition_state, update_active_call, _finish_projection, _async_redirect_to_kevin).
LEMMA SameClaimEvolves ==
    ASSUME NEW r, GoodRecord(r), NEW s \in Record, SameClaimFields(r, s),
           s.owner_action_status = r.owner_action_status \/ r.owner_action # None
    PROVE  Evolves(r, s)
BY DEF GoodRecord, ClaimShape, SameClaimFields, Evolves, Keeps

\* A callback that changes nothing keeps what it was given.
LEMMA StayEvolves == ASSUME NEW r, GoodRecord(r) PROVE Evolves(r, r)
BY DEF Evolves, Keeps

\* A transaction that fails leaves the record as it was.
LEMMA CommitEvolves ==
    ASSUME GoodRecord(rec), NEW outcome, NEW new, Evolves(rec, new), Commit(outcome, new)
    PROVE  Evolves(rec, rec')
BY StayEvolves DEF Commit

-----------------------------------------------------------------------------
(* What each step does to the record.                                      *)

\* A call that goes on to a later state.
LEMMA LaterIsRecord ==
    ASSUME NEW r \in Record, NEW x \in {"fresh", "stale", "renewed"}
    PROVE  [r EXCEPT !.state = "later", !.age = x] \in Record
<1>1. [r EXCEPT !.state = "later"] \in Record BY DEF Record
<1>2. ASSUME NEW s \in Record PROVE [s EXCEPT !.age = x] \in Record BY DEF Record
<1> QED BY <1>1, <1>2

\* The caller hanging up, the ten minutes, transition_state and delete_active_call.
LEMMA CallEvolves == ASSUME IInv, CallNext PROVE Evolves(rec, rec')
<1> USE DEF IInv, TypeOK, SharedTypeOK
<1>1. GoodRecord(rec)
  BY DEF GoodRecord
<1>2. rec' \in Record
  <2>1. CASE HangUp
    BY <2>1 DEF HangUp
  <2>2. CASE EndRecord
    BY <2>2 DEF EndRecord, Record
  <2>3. CASE GoStale
    BY <2>3 DEF GoStale, Record
  <2>4. CASE update_active_call
    BY <2>4 DEF update_active_call, Record
  <2>5. CASE transition_state
    <3>1. rec.age \in {"fresh", "stale", "renewed"}
      BY DEF Record
    <3>2. Renewed(rec) \in {"fresh", "stale", "renewed"}
      BY <3>1 DEF Renewed
    <3> QED BY <2>5, <3>2, LaterIsRecord DEF transition_state
  <2> QED BY <2>1, <2>2, <2>3, <2>4, <2>5 DEF CallNext
<1>3. SameClaimFields(rec, rec') /\ rec'.owner_action_status = rec.owner_action_status
  BY DEF CallNext, HangUp, EndRecord, GoStale, update_active_call, transition_state,
         SameClaimFields, Record
<1> QED BY <1>1, <1>2, <1>3, SameClaimEvolves

\* Every step of an accept POST (handle_owner_call_action).
LEMMA AcceptEvolves ==
    ASSUME IInv, NEW a \in Accepts, AcceptClaim(a) \/ AcceptStep(a)
    PROVE  Evolves(rec, rec')
<1>1. GoodRecord(rec)
  BY DEF IInv, TypeOK, SharedTypeOK, GoodRecord
<1>2. CASE AcceptClaim(a)
  BY <1>1, <1>2, ReduceAccept, CommitEvolves DEF AcceptClaim
<1>3. CASE AcceptMark(a)
  BY <1>1, <1>3, MarkEvolves, CommitEvolves DEF AcceptMark
<1>4. CASE AcceptRelease(a)
  BY <1>1, <1>4, ReleaseEvolves, CommitEvolves DEF AcceptRelease
<1>5. CASE AcceptFinishUncertain(a)
  BY <1>1, <1>5, FinishEvolves, CommitEvolves DEF AcceptFinishUncertain
<1>6. CASE AcceptFinish(a)
  BY <1>1, <1>6, FinishEvolves, CommitEvolves DEF AcceptFinish
<1>7. CASE AcceptPrepare(a) \/ AcceptCheck(a) \/ AcceptRedirect(a)
  BY <1>1, <1>7, StayEvolves DEF AcceptPrepare, AcceptCheck, AcceptRedirect
<1> QED BY <1>2, <1>3, <1>4, <1>5, <1>6, <1>7 DEF AcceptStep

\* Every step of a status GET (get_owner_call_action_status).
LEMMA PollEvolves ==
    ASSUME IInv, NEW q \in Polls, PollRead(q) \/ PollStep(q)
    PROVE  Evolves(rec, rec')
<1>1. GoodRecord(rec)
  BY DEF IInv, TypeOK, SharedTypeOK, GoodRecord
<1>2. CASE PollFinish(q)
  <2>1. pollSeen[q].claim_nonce \in Accepts
    BY <1>2 DEF PollFinish, IInv, PollHolds, Seen
  <2> QED BY <1>1, <1>2, <2>1, FinishEvolves, CommitEvolves DEF PollFinish
<1>3. CASE PollRead(q) \/ PollLookup(q) \/ PollReread(q)
  BY <1>1, <1>3, StayEvolves DEF PollRead, PollLookup, PollReread, PollAnswer, sharedVars
<1> QED BY <1>2, <1>3 DEF PollStep

\* Every step of the ringing task (_ring_contractor, _async_redirect_to_kevin,
\* release_stranded_fallback_redirect).
LEMMA RingEvolves == ASSUME IInv, RingStep PROVE Evolves(rec, rec')
<1>1. GoodRecord(rec)
  BY DEF IInv, TypeOK, SharedTypeOK, GoodRecord
<1>2. CASE RedirectStore
  <2> DEFINE n == attempt + 1
  <2>1. n \in Attempts
    BY <1>2, BoundsAssumption DEF RedirectStore, IInv, TypeOK, FallbackTypeOK, Attempts
  <2>2. store_token(rec, n) \in Record
    <3>1. n \in {None} \cup Tokens
      BY <2>1, BoundsAssumption DEF Attempts, Tokens
    <3>2. [rec EXCEPT !.ws_token = n, !.kevin_redirect_nonce = n,
                      !.kevin_redirect_status = "pending"] \in Record
      BY <1>1, <2>1, <3>1 DEF GoodRecord, Record
    <3> QED BY <1>1, <3>2 DEF store_token, GoodRecord
  <2>3. Evolves(rec, store_token(rec, n))
    <3>1. SameClaimFields(rec, store_token(rec, n))
          /\ store_token(rec, n).owner_action_status = rec.owner_action_status
      BY <1>1 DEF store_token, SameClaimFields, GoodRecord, Record
    <3> QED BY <1>1, <2>2, <3>1, SameClaimEvolves
  <2> QED BY <1>1, <1>2, <2>3, CommitEvolves DEF RedirectStore
<1>3. CASE RedirectFinish
  <2> DEFINE done == [rec EXCEPT !.kevin_redirect_status = "succeeded"]
  <2>1. done \in Record /\ SameClaimFields(rec, done) /\ done.owner_action_status = rec.owner_action_status
    BY <1>1 DEF SameClaimFields, GoodRecord, Record
  <2>2. Evolves(rec, done) /\ Evolves(rec, rec)
    BY <1>1, <2>1, SameClaimEvolves, StayEvolves
  <2> QED BY <1>1, <1>3, <2>2, CommitEvolves DEF RedirectFinish
<1>4. CASE RecoverRelease
  <2> DEFINE freed == [rec EXCEPT !.kevin_redirect_nonce = None, !.kevin_redirect_status = None]
  <2> HIDE DEF freed
  <2>0. freed \in Record
    BY <1>1 DEF freed, GoodRecord, Record
  <2>1. /\ SameClaimFields(rec, freed)
        /\ freed.owner_action_status = rec.owner_action_status
    BY <1>1 DEF freed, SameClaimFields, GoodRecord, Record
  <2>2. Evolves(rec, freed) /\ Evolves(rec, rec)
    BY <1>1, <2>0, <2>1, SameClaimEvolves, StayEvolves
  <2>3. Evolves(rec, release_redirect(rec))
    BY <2>2 DEF release_redirect, freed
  <2> QED BY <1>1, <1>4, <2>3, CommitEvolves DEF RecoverRelease
<1>5. CASE ~RedirectStore /\ ~RedirectFinish /\ ~RecoverRelease
  BY <1>1, <1>5, StayEvolves
     DEF RingStep, RingPush, RingSeesIntent, RingTimeout, RingDecide, RedirectCall, RecoverRead,
         RecoverLookup, RecoverGiveUp, HandOff, sharedVars
<1> QED BY <1>2, <1>3, <1>4, <1>5

\* A media stream starting, confirming its redirect and stopping (confirm_fallback_stream).
LEMMA StreamEvolves ==
    ASSUME IInv, NEW t \in Tokens, StreamStart(t) \/ StreamConfirm(t) \/ StreamStop(t)
    PROVE  Evolves(rec, rec')
<1>1. GoodRecord(rec)
  BY DEF IInv, TypeOK, SharedTypeOK, GoodRecord
<1>2. CASE StreamConfirm(t)
  <2> DEFINE done == [rec EXCEPT !.kevin_redirect_status = "succeeded"]
  <2>1. done \in Record /\ SameClaimFields(rec, done) /\ done.owner_action_status = rec.owner_action_status
    BY <1>1 DEF SameClaimFields, GoodRecord, Record
  <2>2. Evolves(rec, done) /\ Evolves(rec, rec)
    BY <1>1, <2>1, SameClaimEvolves, StayEvolves
  <2> QED BY <1>1, <1>2, <2>2, CommitEvolves DEF StreamConfirm
<1>3. CASE StreamStart(t) \/ StreamStop(t)
  BY <1>1, <1>3, StayEvolves DEF StreamStart, StreamStop
<1> QED BY <1>2, <1>3

\* The timer's and the adopted command's claims are no POST's.
LEMMA MessageConstants ==
    /\ LegacyOp \in AllOps /\ TimeoutOp \in AllOps
    /\ LegacyNonce \in Nonces \ Accepts /\ TimerNonce \in Nonces \ Accepts
    /\ \A d \in Declines : d \in Nonces \ Accepts /\ OpOf[d] \in AllOps
BY RequestsAssumption DEF AllOps, Nonces

\* Adopting a bare legacy command claims as a decline does (adopt_legacy_message_intent).
LEMMA AdoptionEvolves ==
    ASSUME GoodRecord(rec), NEW bound PROVE Evolves(rec, Adoption(rec, bound))
BY StayEvolves, ReduceMessage, MessageConstants DEF Adoption

\* Every step of a publication (_publish_message_intent).
LEMMA PublishEvolves ==
    ASSUME IInv, NEW p \in Publishers, PublishStep(p) PROVE Evolves(rec, rec')
<1>1. GoodRecord(rec)
  BY DEF IInv, TypeOK, SharedTypeOK, GoodRecord
<1>2. CASE PublishReserve(p)
  <2> DEFINE held == [rec EXCEPT !.projection_nonce = p, !.projection_status = "attempting"]
  <2> HIDE DEF held
  <2>0. held \in Record
    BY <1>1 DEF held, GoodRecord, Record, Publishers
  <2>1. SameClaimFields(rec, held) /\ held.owner_action_status = rec.owner_action_status
    BY <1>1 DEF held, SameClaimFields, GoodRecord, Record
  <2>2. Evolves(rec, held) /\ Evolves(rec, rec)
    BY <1>1, <2>0, <2>1, SameClaimEvolves, StayEvolves
  <2> QED BY <1>1, <1>2, <2>2, CommitEvolves DEF PublishReserve, held
<1>3. CASE PublishRecord(p)
  <2> DEFINE closed == [rec EXCEPT !.projection_status = publish[p]]
  <2>1. closed \in Record /\ SameClaimFields(rec, closed)
        /\ closed.owner_action_status = rec.owner_action_status
    BY <1>1, <1>3 DEF PublishRecord, SameClaimFields, GoodRecord, Record
  <2>2. Evolves(rec, closed) /\ Evolves(rec, rec)
    BY <1>1, <2>1, SameClaimEvolves, StayEvolves
  <2> QED BY <1>1, <1>3, <2>2, CommitEvolves DEF PublishRecord
<1>4. CASE PublishRecheck(p) \/ PublishCommand(p)
  BY <1>1, <1>4, StayEvolves DEF PublishRecheck, PublishCommand
<1> QED BY <1>2, <1>3, <1>4 DEF PublishStep

\* A decline POST and its publication (handle_owner_call_action).
LEMMA DeclineEvolves ==
    ASSUME IInv, NEW d \in Declines, DeclineClaim(d) PROVE Evolves(rec, rec')
<1>1. GoodRecord(rec)
  BY DEF IInv, TypeOK, SharedTypeOK, GoodRecord
<1> QED BY <1>1, ReduceMessage, MessageConstants, CommitEvolves DEF DeclineClaim

\* Every step of the owner timeout (run_owner_timeout, arbitrate_owner_timeout).
LEMMA TimerEvolves == ASSUME IInv, TimerStart \/ TimerStep PROVE Evolves(rec, rec')
<1>1. GoodRecord(rec)
  BY DEF IInv, TypeOK, SharedTypeOK, GoodRecord
<1>2. CASE TimerArbitrate
  BY <1>1, <1>2, ReduceMessage, MessageConstants, CommitEvolves DEF TimerArbitrate
<1>3. CASE TimerStart \/ TimerDeadline \/ TimerRecheck \/ TimerPublished \/ TimerSettle \/ TimerEnds
  BY <1>1, <1>3, StayEvolves
     DEF TimerStart, TimerDeadline, TimerRecheck, TimerPublished, TimerSettle, TimerEnds, sharedVars
<1> QED BY <1>2, <1>3 DEF TimerStep

\* All else that a consumer does only reads the record (adopt_legacy_message_intent,
\* _consume_message_intent).
LEMMA ConsumerReads ==
    ASSUME NEW t \in Tokens, ConsumeStep(t), ~ConsumeClaim(t), ~ConsumeAcknowledge(t)
    PROVE  UNCHANGED <<rec, caller, streams>>
BY DEF ConsumeStep, ConsumeCommand, ConsumeAdopt, ConsumeIntent, ConsumeReads, ConsumeOwed, ConsumeConfirm,
       ConsumeGuard, ConsumeDeliver, ConsumeAck, ConsumeCleanup, sharedVars

\* Every step of a pipeline's consumer (_consume_message_intent).
LEMMA ConsumeEvolves ==
    ASSUME IInv, NEW t \in Tokens, ConsumeStep(t) PROVE Evolves(rec, rec')
<1>1. GoodRecord(rec)
  BY DEF IInv, TypeOK, SharedTypeOK, GoodRecord
<1>2. CASE ConsumeClaim(t)
  BY <1>1, <1>2, AdoptionEvolves, CommitEvolves DEF ConsumeClaim
<1>3. CASE ConsumeAcknowledge(t)
  <2> DEFINE acked == [rec EXCEPT !.owner_action_status = "taking_message"]
  <2>1. acked \in Record /\ SameClaimFields(rec, acked)
    BY <1>1 DEF SameClaimFields, GoodRecord, Record
  <2>2. MessageClaimed
    BY <1>3 DEF ConsumeAcknowledge, IInv, MessageOwns, Acting
  <2>3. rec.owner_action # None
    BY <2>2, NoneIsApart DEF MessageClaimed
  <2>4. Evolves(rec, acked) /\ Evolves(rec, rec)
    BY <1>1, <2>1, <2>3, SameClaimEvolves, StayEvolves
  <2> QED BY <1>1, <1>3, <2>4, CommitEvolves DEF ConsumeAcknowledge
<1>4. ASSUME ~ConsumeClaim(t), ~ConsumeAcknowledge(t) PROVE Evolves(rec, rec')
  BY <1>1, <1>4, ConsumerReads, StayEvolves
<1> QED BY <1>2, <1>3, <1>4

\* No step of anybody takes back a decision, or leaves a claim half written.
LEMMA StepEvolves == ASSUME IInv, [Next]_vars PROVE Evolves(rec, rec')
<1>1. GoodRecord(rec)
  BY DEF IInv, TypeOK, SharedTypeOK, GoodRecord
<1>2. CASE UNCHANGED vars
  BY <1>1, <1>2, StayEvolves DEF vars, sharedVars
<1>3. CASE CallNext
  BY <1>3, CallEvolves
<1>4. CASE PickupNext
  BY <1>4, AcceptEvolves, PollEvolves DEF PickupNext
<1>5. CASE FallbackNext
  BY <1>5, RingEvolves, StreamEvolves DEF FallbackNext
<1>6. CASE MessageNext
  <2>1. CASE LegacyDecline
    BY <1>1, <2>1, StayEvolves DEF LegacyDecline, sharedVars
  <2> QED BY <1>6, <2>1, DeclineEvolves, PublishEvolves, TimerEvolves, ConsumeEvolves DEF MessageNext
<1>7. CASE RingAdopts
  BY <1>1, <1>7, AdoptionEvolves, CommitEvolves, StayEvolves
     DEF RingAdopts, RingReadsCommand, RingReadsRecord, RingClaims, sharedVars
<1> QED BY <1>2, <1>3, <1>4, <1>5, <1>6, <1>7 DEF Next

-----------------------------------------------------------------------------
(* Types.                                                                  *)

\* The storage and provider calls that failed are counted within their bound.
LEMMA ChargeTypes ==
    ASSUME faults \in 0 .. MaxFaults, NEW outcome \in Outcomes, Charge(outcome)
    PROVE  faults' \in 0 .. MaxFaults
BY BoundsAssumption DEF Outcomes, Charge

\* A transaction's outcome touches the record and the count of failures only (run_rtdb_transaction).
LEMMA CommitTypes ==
    ASSUME faults \in 0 .. MaxFaults, NEW outcome \in Outcomes, NEW new, Commit(outcome, new)
    PROVE  faults' \in 0 .. MaxFaults
BY ChargeTypes DEF Commit

\* A redirect puts the caller where it was asked to, or nowhere (_redirect).
LEMMA RedirectTypes ==
    ASSUME faults \in 0 .. MaxFaults, caller \in Places, NEW place \in Places,
           NEW outcome \in RedirectOutcomes, Redirect(outcome, place)
    PROVE  faults' \in 0 .. MaxFaults /\ caller' \in Places
BY BoundsAssumption DEF Outcomes, RedirectOutcomes, Redirect

\* Where a caller may be moved.
LEMMA PlaceTypes ==
    /\ \A a \in Accepts : InConf(a) \in Places
    /\ \A t \in Tokens : OnStream(t) \in Places
    /\ Gone \in Places
BY DEF Places, Confs

\* The record's own type is part of StepEvolves.
LEMMA SharedTypes == ASSUME IInv, [Next]_vars PROVE SharedTypeOK'
<1> USE DEF IInv, TypeOK, SharedTypeOK
<1>1. rec' \in Record
  BY StepEvolves DEF Evolves, GoodRecord
<1>2. CASE UNCHANGED vars
  BY <1>2 DEF vars, sharedVars
<1>3. CASE CallNext
  BY <1>1, <1>3, PlaceTypes
     DEF CallNext, HangUp, EndRecord, GoStale, update_active_call, transition_state
<1>4. CASE PickupNext
  <2>1. ASSUME NEW a \in Accepts, AcceptRedirect(a) PROVE SharedTypeOK'
    BY <1>1, <2>1, PlaceTypes, RedirectTypes DEF AcceptRedirect
  <2>2. ASSUME NEW a \in Accepts,
               \/ AcceptClaim(a) \/ AcceptPrepare(a) \/ AcceptCheck(a) \/ AcceptMark(a)
               \/ AcceptRelease(a) \/ AcceptFinishUncertain(a) \/ AcceptFinish(a)
        PROVE  SharedTypeOK'
    BY <1>1, <2>2, ChargeTypes, CommitTypes
       DEF AcceptClaim, AcceptPrepare, AcceptCheck, AcceptMark, AcceptRelease,
           AcceptFinishUncertain, AcceptFinish
  <2>3. ASSUME NEW q \in Polls, PollRead(q) \/ PollStep(q) PROVE SharedTypeOK'
    BY <1>1, <2>3, ChargeTypes, CommitTypes
       DEF PollRead, PollStep, PollLookup, PollFinish, PollReread, PollAnswer, sharedVars
  <2> QED BY <1>4, <2>1, <2>2, <2>3 DEF PickupNext, AcceptStep
<1>5. CASE FallbackNext
  <2>1. CASE RedirectCall
    <3>1. attempt \in Tokens
      BY BoundsAssumption DEF FallbackTypeOK, Tokens
    <3> QED BY <1>1, <2>1, <3>1, PlaceTypes, RedirectTypes DEF RedirectCall
  <2>2. CASE RingStep /\ ~RedirectCall
    BY <1>1, <2>2, ChargeTypes, CommitTypes
       DEF RingStep, RingPush, RingSeesIntent, RingTimeout, RingDecide, RedirectStore, RedirectFinish,
           RecoverRead, RecoverLookup, RecoverRelease, RecoverGiveUp, HandOff, sharedVars
  <2>3. ASSUME NEW t \in Tokens, StreamStart(t) \/ StreamConfirm(t) \/ StreamStop(t)
        PROVE  SharedTypeOK'
    BY <1>1, <2>3, PlaceTypes, CommitTypes DEF StreamStart, StreamConfirm, StreamStop
  <2> QED BY <1>5, <2>1, <2>2, <2>3 DEF FallbackNext
<1>6. CASE MessageNext \/ RingAdopts
  <2>1. ASSUME NEW p \in Publishers, PublishStep(p) PROVE SharedTypeOK'
    BY <1>1, <2>1, ChargeTypes, CommitTypes
       DEF PublishStep, PublishReserve, PublishRecheck, PublishCommand, PublishRecord
  <2>2. CASE TimerStart \/ TimerStep
    BY <1>1, <2>2, ChargeTypes, CommitTypes
       DEF TimerStart, TimerStep, TimerDeadline, TimerRecheck, TimerArbitrate, TimerPublished,
           TimerSettle, TimerEnds, sharedVars
  <2>3. ASSUME NEW t \in Tokens, ConsumeStep(t) PROVE SharedTypeOK'
    BY <1>1, <2>3, ChargeTypes, CommitTypes
       DEF ConsumeStep, ConsumeCommand, ConsumeAdopt, ConsumeClaim, ConsumeIntent, ConsumeReads, ConsumeOwed,
           ConsumeConfirm, ConsumeGuard, ConsumeDeliver, ConsumeAck, ConsumeAcknowledge, ConsumeCleanup,
           sharedVars
  <2>4. CASE RingAdopts \/ LegacyDecline \/ \E d \in Declines : DeclineClaim(d)
    BY <1>1, <2>4, ChargeTypes, CommitTypes
       DEF RingAdopts, RingReadsCommand, RingReadsRecord, RingClaims, LegacyDecline, DeclineClaim, sharedVars
  <2> QED BY <1>6, <2>1, <2>2, <2>3, <2>4 DEF MessageNext
<1> QED BY <1>2, <1>3, <1>4, <1>5, <1>6 DEF Next

\* The accept POSTs and the GETs keep their types, and a GET that went on to the
\* provider read a claim that was accepting or uncertain.
LEMMA PickupTypes == ASSUME IInv, [Next]_vars PROVE PickupTypeOK' /\ PollHolds'
<1> USE DEF IInv, TypeOK, PickupTypeOK, PollHolds, Seen
<1>1. rec \in Record /\ ClaimShape(rec)
  BY DEF SharedTypeOK
<1>2. CASE UNCHANGED pickupVars
  BY <1>2 DEF pickupVars
<1>3. ASSUME NEW a \in Accepts, AcceptClaim(a) PROVE PickupTypeOK' /\ PollHolds'
  <2> DEFINE claimed == reduce_active_call_action(rec, "accept", OpOf[a], a)
  <2>1. claimed \in Record
    BY <1>1, ReduceAccept DEF Evolves, GoodRecord
  <2> HIDE DEF claimed
  <2>2. claimed.conference_name \in Confs
    BY <2>1 DEF Record
  <2>3. AfterClaim(claimed, a) \in {"unavailable", "conflict", "prepare", "credentials", "pending"}
    BY DEF AfterClaim
  <2>4. PICK outcome \in Outcomes :
          LET next == IF outcome = "ok" THEN AfterClaim(claimed, a) ELSE "error"
          IN  /\ accept' = [accept EXCEPT ![a] = next]
              /\ granted' = IF next = "credentials" THEN granted \cup {claimed.conference_name}
                            ELSE granted
    BY <1>3 DEF AcceptClaim, Goto, claimed
  <2>5. UNCHANGED <<poll, pollSeen, bindings, redirected>>
    BY <1>3 DEF AcceptClaim
  <2> QED BY <2>2, <2>3, <2>4, <2>5 DEF AcceptSteps, Answered
<1>4. ASSUME NEW a \in Accepts, AcceptStep(a) PROVE PickupTypeOK' /\ PollHolds'
  BY <1>4, AcceptOps
     DEF AcceptStep, AcceptPrepare, AcceptCheck, AcceptMark, AcceptRelease, AcceptRedirect,
         AcceptFinishUncertain, AcceptFinish, Goto, AcceptSteps, Answered
<1>5. rec.conference_name \in Confs
  BY <1>1 DEF Record
<1>6. ASSUME NEW q \in Polls, PollRead(q) PROVE PickupTypeOK' /\ PollHolds'
  <2>1. CASE rec.owner_action_status \in {"accepting", "uncertain"}
    <3> DEFINE seen == [claim_nonce |-> rec.claim_nonce,
                        owner_action_status |-> rec.owner_action_status]
    <3>1. seen \in Seen
      BY <1>1, <1>6, <2>1 DEF PollRead, ClaimShape
    <3> HIDE DEF seen
    <3>2. poll' = [poll EXCEPT ![q] = "lookup"] /\ pollSeen' = [pollSeen EXCEPT ![q] = seen]
      BY <1>6, <2>1 DEF PollRead, seen
    <3>3. UNCHANGED <<accept, bindings, redirected, granted>>
      BY <1>6, <2>1 DEF PollRead
    <3> QED BY <3>1, <3>2, <3>3
  <2>2. CASE rec.owner_action_status \notin {"accepting", "uncertain"}
    BY <1>5, <1>6, <2>2 DEF PollRead, PollAnswer
  <2> QED BY <2>1, <2>2
<1>7. ASSUME NEW q \in Polls, PollStep(q) PROVE PickupTypeOK' /\ PollHolds'
  <2>1. CASE PollLookup(q) \/ PollFinish(q)
    BY <2>1 DEF PollLookup, PollFinish
  <2>2. CASE PollReread(q)
    BY <1>5, <2>2 DEF PollReread, PollAnswer
  <2> QED BY <1>7, <2>1, <2>2 DEF PollStep
<1> QED BY <1>2, <1>3, <1>4, <1>6, <1>7 DEF Next, PickupNext, vars

\* The ringing task and the streams keep their types; no redirect is attempted
\* beyond the bound.
LEMMA FallbackTypes == ASSUME IInv, [Next]_vars PROVE FallbackTypeOK'
<1> USE DEF IInv, TypeOK, FallbackTypeOK
<1>1. rec.kevin_redirect_nonce \in {None} \cup Attempts
  BY DEF SharedTypeOK, Record
<1>2. CASE UNCHANGED fallbackVars
  BY <1>2 DEF fallbackVars
<1>3. CASE RedirectStore
  BY <1>3, BoundsAssumption DEF RedirectStore, NotRedirected
<1>4. CASE RecoverRead
  <2>1. recoveries' \in 0 .. RecoveryAttempts
    BY <1>4, RecoveryAssumption DEF RecoverRead
  <2>2. ring' \in {"recover", "lookup", "done"}
    BY <1>4 DEF RecoverRead
  <2>3. strandedNonce' \in {None} \cup Attempts
    BY <1>1, <1>4 DEF RecoverRead
  <2> QED BY <1>4, <2>1, <2>2, <2>3 DEF RecoverRead
<1>5. CASE RingStep /\ ~RedirectStore /\ ~RecoverRead
  BY <1>5
     DEF RingStep, RingPush, RingSeesIntent, RingTimeout, RingDecide, RedirectCall, RedirectFinish,
         RecoverLookup, RecoverRelease, RecoverGiveUp, HandOff, NotRedirected
<1>6. ASSUME NEW t \in Tokens, StreamStart(t) \/ StreamConfirm(t) \/ StreamStop(t)
      PROVE  FallbackTypeOK'
  BY <1>1, <1>6 DEF StreamStart, StreamConfirm, StreamStop, fallbackVars
<1>7. CASE RingAdopts
  BY <1>7 DEF RingAdopts, RingReadsCommand, RingReadsRecord, RingClaims
<1> QED BY <1>2, <1>3, <1>4, <1>5, <1>6, <1>7 DEF Next, FallbackNext, vars

\* An intent that a reader finds is well formed, and rests on a claim that stays.
LEMMA IntentTypes ==
    ASSUME NEW r, GoodRecord(r), NEW statuses, message_intent_from_record(r, statuses) # None
    PROVE  /\ message_intent_from_record(r, statuses) \in Intent
           /\ r.owner_action \in {"decline", "timeout"}
BY DEF message_intent_from_record, GoodRecord, ClaimShape, Intent

\* So is the intent that an adopted command stands for (adopt_legacy_message_intent).
LEMMA ObservedTypes ==
    ASSUME NEW r, GoodRecord(r), NEW bound, NEW queued, Observed(r, bound, queued) # None
    PROVE  /\ Observed(r, bound, queued) \in Intent
           /\ Observed(r, bound, queued).claim_nonce = r.claim_nonce
           /\ r.owner_action \in {"decline", "timeout"}
<1>1. Observed(r, bound, queued) = message_intent_from_record(r, AnyMessage)
  BY DEF Observed
<1> QED BY <1>1, IntentTypes DEF message_intent_from_record

\* A snapshot that holds an intent took it from the record as the step leaves it.
LEMMA SnapshotTypes ==
    ASSUME IInv, NEW t \in Tokens, ConsumeAdopt(t) \/ ConsumeClaim(t)
    PROVE  \/ consume' = [consume EXCEPT ![t] = "claim"] /\ UNCHANGED <<intent, adopted>>
           \/ \E seen \in {None} \cup Intent :
                 /\ seen # None => MessageClaimed' /\ seen.claim_nonce = rec'.claim_nonce
                 /\ intent' = [intent EXCEPT ![t] = seen]
                 /\ consume' = [consume EXCEPT ![t] = "intent"]
                 /\ adopted' = [adopted EXCEPT ![t] = IF seen = None THEN None ELSE adopted[t]]
<1>1. GoodRecord(rec)
  BY DEF IInv, TypeOK, SharedTypeOK, GoodRecord
<1>2. CASE ConsumeAdopt(t)
  <2> DEFINE seen == Observed(rec, rec.ws_token = t, adopted[t])
  <2>1. seen # None => seen \in Intent /\ MessageClaimed /\ seen.claim_nonce = rec.claim_nonce
    BY <1>1, ObservedTypes DEF MessageClaimed
  <2>2. rec' = rec
    BY <1>2 DEF ConsumeAdopt
  <2> HIDE DEF seen
  <2>3. \/ ConsumeTo(t, "claim") /\ UNCHANGED <<intent, adopted>>
        \/ Snapshot(t, seen) \/ Snapshot(t, None)
    BY <1>2 DEF ConsumeAdopt, seen
  <2> QED BY <2>1, <2>2, <2>3 DEF Snapshot, ConsumeTo, MessageClaimed
<1>3. CASE ConsumeClaim(t)
  <2> DEFINE new == Adoption(rec, rec.ws_token = t)
             seen == Observed(new, new.ws_token = t, Bare)
  <2>1. GoodRecord(new)
    BY <1>1, AdoptionEvolves DEF Evolves
  <2> HIDE DEF new
  <2>2. seen # None => seen \in Intent /\ seen.claim_nonce = new.claim_nonce
                       /\ new.owner_action \in {"decline", "timeout"}
    BY <2>1, ObservedTypes
  <2> HIDE DEF seen
  <2>3. (rec' = new /\ Snapshot(t, seen)) \/ Snapshot(t, None)
    BY <1>3 DEF ConsumeClaim, Commit, new, seen
  <2> QED BY <2>2, <2>3 DEF Snapshot, ConsumeTo, MessageClaimed
<1> QED BY <1>2, <1>3

\* What a publisher expects is a message claim (_expected_message).
LEMMA ClaimTypes ==
    ASSUME NEW r, GoodRecord(r), message_intent_from_record(r, Requested) # None
    PROVE  ClaimOf(r) \in Claims
BY IntentTypes DEF ClaimOf, Claims, GoodRecord, Record

\* A publication begins with the claim that was just read (publish_message_intent).
LEMMA BeginTypes ==
    ASSUME IInv, NEW p \in Publishers, NEW r, GoodRecord(r), BeginPublish(p, r)
    PROVE  /\ publish' \in [Publishers -> {"idle", "reserve", "recheck", "command",
                                           "published", "blocked", "uncertain"}]
           /\ expected' \in [Publishers -> {None} \cup Claims]
           /\ PublisherHolds'
<1> USE DEF IInv, TypeOK, MessageTypeOK, PublisherHolds
<1>1. CASE message_intent_from_record(r, Requested) # None
  BY <1>1, ClaimTypes DEF BeginPublish
<1>2. CASE message_intent_from_record(r, Requested) = None
  BY <1>2 DEF BeginPublish
<1> QED BY <1>1, <1>2

\* A message, once claimed, stays claimed.
LEMMA MessageClaimStays == ASSUME IInv, [Next]_vars, MessageClaimed PROVE MessageClaimed'
BY StepEvolves DEF Evolves, Keeps, Decided, MessageClaimed

\* The message path keeps its types, publishers hold message claims, and whoever
\* read or heard an instruction did so under a message claim.
LEMMA MessageTypes == ASSUME IInv, [Next]_vars PROVE MessageTypeOK' /\ PublisherHolds' /\ MessageOwns'
<1> USE DEF IInv, TypeOK
<1> DEFINE Goal == MessageTypeOK' /\ PublisherHolds' /\ MessageOwns'
<1>1. GoodRecord(rec)
  BY DEF SharedTypeOK, GoodRecord
<1>2. MessageClaimed => MessageClaimed'
  BY MessageClaimStays
<1>3. CASE UNCHANGED messageVars
  BY <1>2, <1>3 DEF messageVars, MessageTypeOK, PublisherHolds, MessageOwns
<1>4. ASSUME NEW d \in Declines, DeclineClaim(d) PROVE Goal
  <2> DEFINE claimed == reduce_active_call_action(rec, "decline", OpOf[d], d)
  <2>1. GoodRecord(claimed)
    BY <1>1, ReduceMessage, MessageConstants DEF Evolves
  <2> HIDE DEF claimed
  <2>2. BeginPublish(d, claimed) \/ UNCHANGED <<publish, expected>>
    BY <1>4 DEF DeclineClaim, claimed
  <2>3. /\ publish' \in [Publishers -> {"idle", "reserve", "recheck", "command",
                                        "published", "blocked", "uncertain"}]
        /\ expected' \in [Publishers -> {None} \cup Claims]
        /\ PublisherHolds'
    BY <2>1, <2>2, BeginTypes DEF Publishers, MessageTypeOK, PublisherHolds
  <2> QED BY <1>2, <1>4, <2>3 DEF DeclineClaim, MessageTypeOK, MessageOwns
<1>5. ASSUME NEW p \in Publishers, PublishStep(p) PROVE Goal
  <2>1. expected[p] \in Claims /\ expected[p].intent \in Intent
    BY <1>5 DEF PublishStep, PublishReserve, PublishRecheck, PublishCommand, PublishRecord,
                PublisherHolds, Claims
  <2>2. MessageTypeOK' /\ PublisherHolds'
    BY <1>5, <2>1 DEF PublishStep, PublishReserve, PublishRecheck, PublishCommand, PublishRecord,
                EndPublish, MessageTypeOK, PublisherHolds
  <2>3. MessageOwns'
    BY <1>2, <1>5 DEF PublishStep, PublishReserve, PublishRecheck, PublishCommand, PublishRecord,
                MessageOwns
  <2> QED BY <2>2, <2>3
<1>6. CASE TimerArbitrate
  <2> DEFINE claimed == reduce_active_call_action(rec, "timeout", TimeoutOp, TimerNonce)
  <2>1. GoodRecord(claimed)
    BY <1>1, ReduceMessage, MessageConstants DEF Evolves
  <2> HIDE DEF claimed
  <2>2. BeginPublish(TimerNonce, claimed) \/ UNCHANGED <<publish, expected>>
    BY <1>6 DEF TimerArbitrate, claimed
  <2>3. /\ publish' \in [Publishers -> {"idle", "reserve", "recheck", "command",
                                        "published", "blocked", "uncertain"}]
        /\ expected' \in [Publishers -> {None} \cup Claims]
        /\ PublisherHolds'
    BY <2>1, <2>2, BeginTypes DEF Publishers, MessageTypeOK, PublisherHolds
  <2> QED BY <1>2, <1>6, <2>3 DEF TimerArbitrate, MessageTypeOK, MessageOwns
<1>7. CASE TimerStart \/ TimerDeadline \/ TimerRecheck \/ TimerPublished \/ TimerSettle \/ TimerEnds
  BY <1>2, <1>7
     DEF TimerStart, TimerDeadline, TimerRecheck, TimerPublished, TimerSettle, TimerEnds,
         MessageTypeOK, PublisherHolds, MessageOwns
<1>8. CASE LegacyDecline
  BY <1>2, <1>8 DEF LegacyDecline, MessageTypeOK, PublisherHolds, MessageOwns
<1>9. ASSUME NEW t \in Tokens, ConsumeStep(t) PROVE Goal
  <2>1. CASE ConsumeAdopt(t) \/ ConsumeClaim(t)
    <3>1. UNCHANGED <<posted, timer, publish, expected, command, delivered, heard>>
      BY <2>1 DEF ConsumeAdopt, ConsumeClaim
    <3>2. CASE consume' = [consume EXCEPT ![t] = "claim"] /\ UNCHANGED <<intent, adopted>>
      BY <1>2, <3>1, <3>2 DEF MessageTypeOK, PublisherHolds, MessageOwns, Acting
    <3>3. ASSUME NEW seen \in {None} \cup Intent, seen # None => MessageClaimed',
                 intent' = [intent EXCEPT ![t] = seen], consume' = [consume EXCEPT ![t] = "intent"],
                 adopted' = [adopted EXCEPT ![t] = IF seen = None THEN None ELSE adopted[t]]
          PROVE  Goal
      BY <1>2, <3>1, <3>3 DEF MessageTypeOK, PublisherHolds, MessageOwns, Acting
    <3> QED BY <2>1, <3>2, <3>3, SnapshotTypes
  <2>2. CASE ConsumeIntent(t)
    <3> DEFINE found == message_intent_from_record(rec, Requested)
    <3>1. found # None => found \in Intent /\ MessageClaimed
      BY <1>1, IntentTypes DEF MessageClaimed
    <3> HIDE DEF found
    <3>2. \/ /\ found # None
             /\ intent' = [intent EXCEPT ![t] = found]
             /\ consume' = [consume EXCEPT ![t] = "confirm"]
             /\ UNCHANGED adopted
          \/ /\ Remembers(t)
             /\ consume' \in {[consume EXCEPT ![t] = "owed"], [consume EXCEPT ![t] = "idle"]}
      BY <2>2 DEF ConsumeIntent, ConsumeTo, found
    <3>3. UNCHANGED <<posted, timer, publish, expected, command, delivered, heard>>
      BY <2>2 DEF ConsumeIntent
    <3>4. CASE Remembers(t) /\ consume' \in {[consume EXCEPT ![t] = "owed"], [consume EXCEPT ![t] = "idle"]}
      BY <1>2, <3>3, <3>4 DEF Remembers, MessageTypeOK, PublisherHolds, MessageOwns, Acting
    <3> QED BY <1>2, <3>1, <3>2, <3>3, <3>4 DEF MessageTypeOK, PublisherHolds, MessageOwns, Acting
  <2>3. CASE ConsumeOwed(t) \/ ConsumeConfirm(t) \/ ConsumeGuard(t) \/ ConsumeAck(t)
    <3>1. Remembers(t) /\ UNCHANGED <<posted, timer, publish, expected, command, delivered, heard>>
      BY <2>3 DEF ConsumeOwed, ConsumeConfirm, ConsumeGuard, ConsumeAck, ConsumeReads
    <3>2. PICK step \in Acting \cup {"idle", "cleanup"} :
            /\ consume' = [consume EXCEPT ![t] = step]
            /\ step \in Acting => consume[t] \in Acting
      BY <2>3 DEF ConsumeOwed, ConsumeConfirm, ConsumeGuard, ConsumeAck, ConsumeReads, ConsumeTo, Acting
    <3> QED BY <1>2, <3>1, <3>2 DEF Remembers, MessageTypeOK, PublisherHolds, MessageOwns, Acting
  <2>4. CASE ConsumeDeliver(t)
    <3>1. intent[t] \in Intent /\ MessageClaimed'
      BY <1>2, <2>4 DEF ConsumeDeliver, MessageOwns, Acting
    <3> QED BY <1>2, <2>4, <3>1
            DEF ConsumeDeliver, ConsumeTo, Remembers, MessageTypeOK, PublisherHolds, MessageOwns, Acting
  <2>5. CASE ConsumeAcknowledge(t) \/ ConsumeCleanup(t)
    BY <1>2, <2>5
       DEF ConsumeAcknowledge, ConsumeCleanup, ConsumeTo, Remembers, MessageTypeOK, PublisherHolds, MessageOwns, Acting
  <2>6. CASE ConsumeCommand(t)
    <3>1. /\ adopted' \in {[adopted EXCEPT ![t] = command], [adopted EXCEPT ![t] = None]}
          /\ consume' \in {[consume EXCEPT ![t] = "intent"], [consume EXCEPT ![t] = "adopt"]}
          /\ UNCHANGED <<posted, timer, publish, expected, command, intent, delivered, heard>>
      BY <2>6 DEF ConsumeCommand, ConsumeTo
    <3> QED BY <1>2, <3>1 DEF MessageTypeOK, PublisherHolds, MessageOwns, Acting
  <2> QED BY <1>9, <2>1, <2>2, <2>3, <2>4, <2>5, <2>6 DEF ConsumeStep
<1> QED BY <1>3, <1>4, <1>5, <1>6, <1>7, <1>8, <1>9
        DEF Next, MessageNext, TimerStep, vars

\* The owner of a redirect is never displaced: whoever marks it finds its own
\* claim on the record, and no later step changes that.
LEMMA RedirectOwnsStays == ASSUME IInv, [Next]_vars PROVE RedirectOwns'
<1>1. ASSUME NEW a \in Accepts, Owns(a) PROVE Owns(a)'
  BY <1>1, StepEvolves DEF Evolves, Keeps, Decided, Owns
<1>2. CASE UNCHANGED <<accept, redirected>>
  BY <1>1, <1>2 DEF IInv, RedirectOwns
<1>3. ASSUME NEW b \in Accepts, AcceptClaim(b) \/ AcceptStep(b) PROVE RedirectOwns'
  <2> SUFFICES ASSUME NEW a \in Accepts,
                      \/ a \in redirected'
                      \/ accept'[a] \in {"redirect", "finish_uncertain", "finish_accepted"}
               PROVE  Owns(a)'
    BY DEF RedirectOwns
  <2> USE DEF IInv, TypeOK, PickupTypeOK
  <2>1. CASE AcceptMark(b) /\ a = b /\ accept'[b] = "redirect"
    <3>1. PICK outcome \in Outcomes :
            /\ Commit(outcome, mark_redirect_started(rec, b))
            /\ accept' = [accept EXCEPT ![b] =
                 IF outcome # "ok" THEN "release"
                 ELSE IF same_claim(mark_redirect_started(rec, b), b)
                         /\ mark_redirect_started(rec, b).owner_action_status = "accepting"
                         /\ mark_redirect_started(rec, b).redirect_started THEN "redirect"
                 ELSE "unavailable"]
      BY <2>1 DEF AcceptMark, Goto
    <3>2. outcome = "ok" /\ same_claim(mark_redirect_started(rec, b), b)
          /\ mark_redirect_started(rec, b).redirect_started
      BY <2>1, <3>1
    <3>3. rec' = mark_redirect_started(rec, b)
      BY <3>1, <3>2 DEF Commit
    <3> QED BY <2>1, <3>2, <3>3 DEF same_claim, Owns
  <2>2. CASE AcceptRedirect(b)
    BY <1>1, <2>2 DEF AcceptRedirect, Goto, RedirectOwns
  <2>3. CASE AcceptMark(b) /\ ~(a = b /\ accept'[b] = "redirect")
    BY <1>1, <2>3 DEF AcceptMark, Goto, RedirectOwns
  <2>4. CASE AcceptClaim(b)
    <3>1. PICK next \in {"unavailable", "conflict", "prepare", "credentials", "pending", "error"} :
            accept' = [accept EXCEPT ![b] = next]
      BY <2>4 DEF AcceptClaim, AfterClaim, Goto
    <3> QED BY <1>1, <2>4, <3>1 DEF AcceptClaim, RedirectOwns
  <2>5. CASE \/ AcceptPrepare(b) \/ AcceptCheck(b) \/ AcceptRelease(b)
             \/ AcceptFinishUncertain(b) \/ AcceptFinish(b)
    BY <1>1, <2>5
       DEF AcceptPrepare, AcceptCheck, AcceptRelease, AcceptFinishUncertain, AcceptFinish,
           Goto, RedirectOwns
  <2> QED BY <1>3, <2>1, <2>2, <2>3, <2>4, <2>5 DEF AcceptStep
<1>4. ASSUME NEW q \in Polls, PollRead(q) \/ PollStep(q) PROVE UNCHANGED <<accept, redirected>>
  BY <1>4 DEF PollRead, PollStep, PollLookup, PollFinish, PollReread
<1> QED BY <1>2, <1>3, <1>4 DEF Next, PickupNext, pickupVars, vars, RingAdopts

-----------------------------------------------------------------------------

\* A call that has just been admitted, ringing or screened, has no claim and no
\* redirect (_prepare_direct_call, _post_routing_tasks).
LEMMA InitIInv == Init => IInv
<1> SUFFICES ASSUME Init PROVE IInv
  OBVIOUS
<1> USE DEF Init, TypeOK
<1>1. FirstConf \in Confs /\ 0 \in Tokens
  BY BoundsAssumption DEF Confs, Tokens
<1>2. rec \in Record
  BY <1>1 DEF SharedInit, InitialRecord, Record
<1>3. caller \in Places
  BY <1>1 DEF SharedInit, Places
<1>4. SharedTypeOK /\ ClaimShape(rec)
  BY <1>2, <1>3, NoneIsApart, BoundsAssumption
     DEF SharedInit, SharedTypeOK, ClaimShape, InitialRecord
<1>5. PickupTypeOK /\ PollHolds /\ RedirectOwns
  BY <1>1 DEF PickupInit, PickupTypeOK, PollHolds, RedirectOwns, AcceptSteps, Answered
<1>6. FallbackTypeOK
  BY BoundsAssumption, RecoveryAssumption DEF FallbackInit, FallbackTypeOK
<1>7. MessageTypeOK /\ PublisherHolds /\ MessageOwns
  BY DEF MessageInit, MessageTypeOK, PublisherHolds, MessageOwns, Acting
<1> QED BY <1>4, <1>5, <1>6, <1>7 DEF IInv

\* Every step of every handler, of the ringing task, of the timer, of the streams
\* and of the caller keeps the inductive invariant.
LEMMA NextIInv == IInv /\ [Next]_vars => IInv'
<1> SUFFICES ASSUME IInv, [Next]_vars PROVE IInv'
  OBVIOUS
<1>1. ClaimShape(rec)'
  BY StepEvolves DEF Evolves, GoodRecord
<1>2. TypeOK'
  BY SharedTypes, PickupTypes, FallbackTypes, MessageTypes DEF TypeOK
<1> QED BY <1>1, <1>2, PickupTypes, MessageTypes, RedirectOwnsStays DEF IInv

\* The inductive invariant holds of every behaviour of the engine.
LEMMA Invariance == Spec => []IInv
BY InitIInv, NextIInv, PTL DEF Spec

\* The record, the command, the bindings and every handler's variables keep their
\* types, for any number of devices, retries, polls, tokens and attempts.
THEOREM TypeCorrect == Spec => []TypeOK
<1>1. IInv => TypeOK
  BY DEF IInv
<1> QED BY <1>1, Invariance, PTL

\* However many devices accept, retry and lose their answers, at most one of
\* them asks Twilio to move the caller, and the record stays its own
\* (_mark_redirect_started, _release_preparation, _finish).
THEOREM OneRedirect == Spec => []OnePickupRedirect
<1>1. IInv => OnePickupRedirect
  BY DEF IInv, RedirectOwns, Owns, OnePickupRedirect, TypeOK, PickupTypeOK
<1> QED BY <1>1, Invariance, PTL

\* A caller who was told that the owner is unavailable is not put through
\* afterwards, and one who was put through is not told so: the instruction is
\* spoken under a message claim, the redirect sent under a pickup claim, and
\* neither claim ever gives way to the other (reduce_active_call_action).
THEOREM NoMixedAnswer == Spec => []MessageExcludesPickup
<1>1. IInv => MessageExcludesPickup
  BY DEF IInv, RedirectOwns, Owns, MessageOwns, MessageClaimed, MessageExcludesPickup,
         TypeOK, PickupTypeOK
<1> QED BY <1>1, Invariance, PTL

\* Nothing that any handler writes takes back a pickup whose redirect started or a
\* message that was requested: the action, its claim and its conference stay.
THEOREM DecisionStays == Spec => DecisionIsFinal
<1>1. IInv /\ [Next]_vars =>
        [rec.redirect_started \/ rec.owner_action \in {"decline", "timeout"} =>
           /\ rec'.owner_action = rec.owner_action
           /\ rec'.claim_nonce = rec.claim_nonce
           /\ rec'.conference_name = rec.conference_name]_vars
  BY StepEvolves DEF Evolves, Keeps, Decided
<1> QED BY <1>1, Invariance, PTL DEF Spec, DecisionIsFinal
-----------------------------------------------------------------------------
(***************************************************************************)
(* The caller: where Twilio holds the leg, what the owner's device and the *)
(* caller are told, and that the engine implements CallArbitration. What a *)
(* step does to the caller, to the sockets, to the claim and to the        *)
(* redirect on the record is stated first, once for all handlers           *)
(* (CallerSteps, StreamSteps, ClaimSteps, FallbackSteps, ConsumerSteps);   *)
(* the invariant CallInv follows from that.                                *)
(***************************************************************************)

\* The ring conference is the only one that a claim replaces and a release restores; a claim and
\* its status go together.
ClaimFits(r) ==
    /\ r.owner_action = None => r.claim_nonce = None
    /\ r.owner_action # "accept" => r.conference_name = FirstConf
    /\ r.owner_action = "accept" => r.previous_conference_name = FirstConf
    /\ r.owner_action_status \in {"accepting", "accepted", "uncertain"} => r.owner_action = "accept"
    /\ r.owner_action_status \in {"message_requested", "taking_message"} => r.owner_action \in {"decline", "timeout"}

\* Only POST a writes its nonce, and not after it let go of its claim.
NonceIsOfItsPost ==
    \A a \in Accepts : accept[a] \in {"idle", "preparation_failed"} => rec.claim_nonce # a

\* The caller is with POST a, or was until hanging up.
With(a) == a \in redirected /\ caller \in {InConf(a), Gone}

OwnersAreWith ==
    /\ \A a \in Accepts : caller = InConf(a) => a \in redirected
    /\ \A a \in Accepts : accept[a] = "finish_accepted" => With(a)
    /\ rec.owner_action_status = "accepted" => With(rec.claim_nonce)
    /\ \A q \in Polls : poll[q] = "finish" => With(pollSeen[q].claim_nonce)
    /\ \A a \in granted : With(a)

OffStreams == \A t \in Tokens : streams[t] = "off" /\ caller # OnStream(t)

\* Tokens and nonces are of attempts that were made, and the caller is on the stream of the last.
TokensAreOfAttempts ==
    /\ rec.kevin_redirect_nonce # None => rec.kevin_redirect_nonce <= attempt
    /\ rec.ws_token # None => rec.ws_token <= attempt
    /\ \A t \in Tokens : t > attempt => streams[t] = "off"
    /\ \A t \in Tokens : caller = OnStream(t) => rec.ws_token = t

\* A ringing call without a fallback redirect on record has not been sent to a stream; one whose
\* redirect is about to be sent, or was proved not to have worked, neither.
RingKeepsTheCaller ==
    /\ Route = "screening" => ring = "done"
    /\ Route = "ring" /\ rec.kevin_redirect_nonce = None => OffStreams
    /\ ring = "release" => OffStreams
    /\ ring = "redirect" =>
          /\ rec.kevin_redirect_status = "pending" /\ rec.owner_action # "accept"
          /\ rec.kevin_redirect_nonce = attempt /\ rec.ws_token = attempt
          /\ streams[attempt] = "off" /\ caller # OnStream(attempt)
    /\ caller = InConf(FirstConf) => OffStreams

\* What a stream read, and what it said, is of the claim on the record.
AnnouncementsFit ==
    /\ \A t \in Tokens :
          /\ intent[t] # None => intent[t].claim_nonce = rec.claim_nonce
          /\ consume[t] \in Acting => intent[t] # None
          /\ delivered[t] # None => MessageClaimed /\ delivered[t].claim_nonce = rec.claim_nonce
          /\ consume[t] \in {"ack", "acknowledge"} => delivered[t] = intent[t]
          /\ consume[t] = "acknowledge" => streams[t] # "off"
    /\ rec.owner_action_status = "taking_message" =>
          \E t \in Tokens : rec.ws_token = t /\ delivered[t] # None /\ streams[t] # "off"

CallParts ==
    /\ ClaimFits(rec) /\ NonceIsOfItsPost /\ OwnersAreWith /\ TokensAreOfAttempts /\ RingKeepsTheCaller
    /\ AnnouncementsFit

-----------------------------------------------------------------------------
(* What a step does to the caller, to the streams and to the record.       *)

\* The provider's places are pairwise different: a conference, a stream, nowhere.
LEMMA PlacesApart ==
    /\ \A c, d : InConf(c) = InConf(d) => c = d
    /\ \A t, u : OnStream(t) = OnStream(u) => t = u
    /\ \A c, t : InConf(c) # OnStream(t) /\ InConf(c) # Gone /\ OnStream(t) # Gone
BY DEF InConf, OnStream, Gone

\* Only an accept POST and the ringing task move the caller, and no one moves a caller who hung up
\* (_redirect, _async_redirect_to_kevin).
CallerSteps ==
    \/ caller' \in {caller, Gone}
    \/ caller # Gone /\ \E a \in Accepts : AcceptRedirect(a) /\ caller' = InConf(a)
    \/ caller # Gone /\ RedirectCall /\ caller' = OnStream(attempt)

\* Every step moves the caller in one of these ways.
LEMMA CallerMoves == ASSUME [Next]_vars PROVE CallerSteps
<1>1. CASE CallNext \/ UNCHANGED vars
  BY <1>1 DEF CallNext, HangUp, EndRecord, GoStale, update_active_call, transition_state, vars, sharedVars,
              CallerSteps
<1>2. ASSUME NEW a \in Accepts, AcceptRedirect(a) PROVE CallerSteps
  BY <1>2 DEF AcceptRedirect, Redirect, RedirectOutcomes, CallerSteps
<1>3. ASSUME NEW a \in Accepts, AcceptClaim(a) \/ AcceptStep(a), ~AcceptRedirect(a) PROVE caller' = caller
  BY <1>3 DEF AcceptClaim, AcceptStep, AcceptPrepare, AcceptCheck, AcceptMark, AcceptRelease,
              AcceptFinishUncertain, AcceptFinish
<1>4. ASSUME NEW q \in Polls, PollRead(q) \/ PollStep(q) PROVE caller' = caller
  BY <1>4 DEF PollRead, PollStep, PollLookup, PollFinish, PollReread, sharedVars
<1>5. CASE RedirectCall
  BY <1>5 DEF RedirectCall, Redirect, RedirectOutcomes, CallerSteps
<1>6. CASE RingStep /\ ~RedirectCall
  BY <1>6 DEF RingStep, RingPush, RingSeesIntent, RingTimeout, RingDecide, RedirectStore, RedirectFinish,
              RecoverRead, RecoverLookup, RecoverRelease, RecoverGiveUp, HandOff, sharedVars, CallerSteps
<1>7. ASSUME NEW t \in Tokens, StreamStart(t) \/ StreamConfirm(t) \/ StreamStop(t) PROVE CallerSteps
  BY <1>7 DEF StreamStart, StreamConfirm, StreamStop, CallerSteps
<1>8. ASSUME MessageNext \/ RingAdopts PROVE caller' = caller
  BY <1>8, ConsumerReads DEF MessageNext, DeclineClaim, PublishStep, PublishReserve, PublishRecheck, PublishCommand,
              PublishRecord, TimerStart, TimerStep, TimerDeadline, TimerRecheck, TimerArbitrate,
              TimerPublished, TimerSettle, TimerEnds, LegacyDecline, ConsumeClaim, ConsumeAcknowledge,
              RingAdopts, RingReadsCommand, RingReadsRecord, RingClaims, sharedVars
<1> QED BY <1>1, <1>2, <1>3, <1>4, <1>5, <1>6, <1>7, <1>8 DEF Next, PickupNext, FallbackNext, CallerSteps

\* A socket opens once, for the caller who is on it, and never comes back (media_stream_ws).
StreamSteps ==
    \A t \in Tokens :
        \/ streams'[t] = streams[t]
        \/ StreamStart(t) /\ streams'[t] # "off"
        \/ streams[t] # "off" /\ streams'[t] # "off"

\* Every step leaves each socket alone, opens it or moves it on.
LEMMA StreamMoves == ASSUME IInv, [Next]_vars PROVE StreamSteps
<1>0. streams \in [Tokens -> {"off", "confirming", "up", "closed"}]
  BY DEF IInv, TypeOK, SharedTypeOK
<1>1. CASE UNCHANGED streams
  BY <1>1 DEF StreamSteps
<1>2. ASSUME NEW t \in Tokens, StreamStart(t) \/ StreamConfirm(t) \/ StreamStop(t) PROVE StreamSteps
  <2>1. PICK next \in {"confirming", "up", "closed"} : streams' = [streams EXCEPT ![t] = next]
    BY <1>2 DEF StreamStart, StreamConfirm, StreamStop
  <2> QED BY <1>0, <1>2, <2>1 DEF StreamSteps, StreamConfirm, StreamStop
<1>3. ASSUME CallNext \/ PickupNext \/ RingStep PROVE UNCHANGED streams
  BY <1>3 DEF CallNext, HangUp, EndRecord, GoStale, update_active_call, transition_state,
              PickupNext, AcceptClaim, AcceptStep, AcceptPrepare, AcceptCheck, AcceptMark, AcceptRelease,
              AcceptRedirect, AcceptFinishUncertain, AcceptFinish,
              PollRead, PollStep, PollLookup, PollFinish, PollReread,
              RingStep, RingPush, RingSeesIntent, RingTimeout, RingDecide, RedirectStore, RedirectCall,
              RedirectFinish, RecoverRead, RecoverLookup, RecoverRelease, RecoverGiveUp, HandOff, sharedVars
<1>4. ASSUME MessageNext \/ RingAdopts PROVE UNCHANGED streams
  BY <1>4, ConsumerReads DEF MessageNext, DeclineClaim, PublishStep, PublishReserve, PublishRecheck, PublishCommand,
              PublishRecord, TimerStart, TimerStep, TimerDeadline, TimerRecheck, TimerArbitrate,
              TimerPublished, TimerSettle, TimerEnds, LegacyDecline, ConsumeClaim, ConsumeAcknowledge,
              RingAdopts, RingReadsCommand, RingReadsRecord, RingClaims, sharedVars
<1> QED BY <1>1, <1>2, <1>3, <1>4 DEF Next, FallbackNext, vars, sharedVars

SameDecision(r, s) == SameClaimFields(r, s) /\ s.owner_action_status = r.owner_action_status

\* Whoever finishes a claim as accepted has the caller with it (_finish).
Finishes(a, status) ==
    \/ AcceptFinish(a) /\ status = "accepted"
    \/ AcceptFinishUncertain(a) /\ status = "uncertain"
    \/ \E q \in Polls : PollFinish(q) /\ pollSeen[q].claim_nonce = a /\ status = "accepted"

Given(r, a) ==
    [r EXCEPT !.conference_name = r.previous_conference_name, !.previous_conference_name = None,
              !.preparation_release_nonce = a, !.owner_action = None, !.owner_action_status = None,
              !.owner_operation_id = None, !.claim_nonce = None]

\* A step leaves the claim alone, or is one of the transactions that write it.
ClaimSteps ==
    \/ SameDecision(rec, rec')
    \/ \E a \in Accepts : AcceptClaim(a) /\ Claimable(rec) /\ rec' = ClaimedAccept(rec, OpOf[a], a)
    \/ \E a \in Accepts : /\ AcceptMark(a)
                          /\ same_claim(rec, a)
                          /\ rec' = [rec EXCEPT !.accepted = TRUE, !.redirect_started = TRUE]
    \/ \E a \in Accepts : AcceptRelease(a) /\ same_claim(rec, a) /\ ~rec.redirect_started /\ rec' = Given(rec, a)
    \/ /\ Claimable(rec)
       /\ UNCHANGED <<accept, redirected, caller>>
       /\ \E action \in {"decline", "timeout"}, op \in AllOps, nonce \in Nonces \ Accepts :
             rec' = ClaimedMessage(rec, action, op, nonce)
    \/ \E a \in Accepts, status \in {"accepted", "uncertain"} :
          Finishes(a, status) /\ same_claim(rec, a) /\ rec' = [rec EXCEPT !.owner_action_status = status]
    \/ \E t \in Tokens :
          ConsumeAcknowledge(t) /\ Names(t, AnyMessage) /\ rec' = [rec EXCEPT !.owner_action_status = "taking_message"]

\* The callbacks that take a message claim as ClaimedMessage does, or change nothing.
LEMMA MessageReduces ==
    ASSUME IInv, UNCHANGED <<accept, redirected, caller>>, NEW action \in {"decline", "timeout"}, NEW op \in AllOps,
           NEW nonce \in Nonces \ Accepts,
           rec' \in {rec, reduce_active_call_action(rec, action, op, nonce)}
    PROVE  ClaimSteps
<1>1. CASE rec' = rec
  BY <1>1 DEF ClaimSteps, SameDecision, SameClaimFields
<1>2. CASE rec' # rec
  <2>1. Claimable(rec) /\ rec' = ClaimedMessage(rec, action, op, nonce)
    BY <1>2 DEF reduce_active_call_action
  <2> QED BY <2>1 DEF ClaimSteps
<1> QED BY <1>1, <1>2

\* The claim transactions of the message path (handle_owner_call_action, arbitrate_owner_timeout,
\* adopt_legacy_message_intent).
LEMMA MessageClaims ==
    ASSUME IInv,
           \/ (\E d \in Declines : DeclineClaim(d)) /\ UNCHANGED pickupVars
           \/ TimerArbitrate /\ UNCHANGED pickupVars
           \/ (\E t \in Tokens : ConsumeClaim(t)) /\ UNCHANGED pickupVars
           \/ RingAdopts /\ UNCHANGED pickupVars
    PROVE  ClaimSteps
<1>0. UNCHANGED <<accept, redirected, caller>>
  BY DEF pickupVars, DeclineClaim, TimerArbitrate, ConsumeClaim, RingAdopts, RingReadsCommand,
         RingReadsRecord, RingClaims, sharedVars
<1>1. ASSUME NEW d \in Declines, DeclineClaim(d) PROVE ClaimSteps
  <2>1. rec' \in {rec, reduce_active_call_action(rec, "decline", OpOf[d], d)}
    BY <1>1 DEF DeclineClaim, Commit
  <2> QED BY <1>0, <2>1, MessageReduces, MessageConstants
<1>2. CASE TimerArbitrate
  <2>1. rec' \in {rec, reduce_active_call_action(rec, "timeout", TimeoutOp, TimerNonce)}
    BY <1>2 DEF TimerArbitrate, Commit
  <2> QED BY <1>0, <2>1, MessageReduces, MessageConstants
<1>3. ASSUME RingAdopts \/ \E t \in Tokens : ConsumeClaim(t) PROVE ClaimSteps
  <2>1. rec' \in {rec, reduce_active_call_action(rec, "decline", LegacyOp, LegacyNonce)}
    BY <1>3 DEF RingAdopts, RingReadsCommand, RingReadsRecord, RingClaims, ConsumeClaim, Commit, Adoption,
                sharedVars
  <2> QED BY <1>0, <2>1, MessageReduces, MessageConstants
<1> QED BY <1>1, <1>2, <1>3

\* Every other step leaves the claim alone, or is the POST's, the GET's or the consumer's own.
LEMMA ClaimMoves == ASSUME IInv, [Next]_vars PROVE ClaimSteps
<1>0. rec \in Record
  BY DEF IInv, TypeOK, SharedTypeOK
<1>1. CASE UNCHANGED rec
  BY <1>1 DEF ClaimSteps, SameDecision, SameClaimFields
<1>2. CASE CallNext
  BY <1>0, <1>2 DEF CallNext, HangUp, EndRecord, GoStale, update_active_call, transition_state, Record,
                    ClaimSteps, SameDecision, SameClaimFields
<1>3. ASSUME NEW a \in Accepts, AcceptClaim(a) PROVE ClaimSteps
  <2>1. rec' \in {rec, reduce_active_call_action(rec, "accept", OpOf[a], a)}
    BY <1>3 DEF AcceptClaim, Commit
  <2>2. rec' # rec => Claimable(rec) /\ rec' = ClaimedAccept(rec, OpOf[a], a)
    BY <2>1 DEF reduce_active_call_action
  <2> QED BY <1>1, <1>3, <2>2 DEF ClaimSteps
<1>4. ASSUME NEW a \in Accepts, AcceptMark(a) PROVE ClaimSteps
  <2>1. rec' \in {rec, mark_redirect_started(rec, a)}
    BY <1>4 DEF AcceptMark, Commit
  <2>2. rec' # rec => same_claim(rec, a) /\ rec' = [rec EXCEPT !.accepted = TRUE, !.redirect_started = TRUE]
    BY <2>1 DEF mark_redirect_started
  <2> QED BY <1>1, <1>4, <2>2 DEF ClaimSteps
<1>5. ASSUME NEW a \in Accepts, AcceptRelease(a) PROVE ClaimSteps
  <2>1. rec' \in {rec, release_preparation(rec, a)}
    BY <1>5 DEF AcceptRelease, Commit
  <2>2. rec' # rec => same_claim(rec, a) /\ ~rec.redirect_started /\ rec' = Given(rec, a)
    BY <2>1 DEF release_preparation, Given
  <2> QED BY <1>1, <1>5, <2>2 DEF ClaimSteps
<1>6. ASSUME NEW a \in Accepts, NEW expects, NEW status \in {"accepted", "uncertain"}, Finishes(a, status),
             rec' \in {rec, finish(rec, a, expects, status)}
      PROVE  ClaimSteps
  <2>1. rec' # rec => same_claim(rec, a) /\ rec' = [rec EXCEPT !.owner_action_status = status]
    BY <1>6 DEF finish
  <2> QED BY <1>1, <1>6, <2>1 DEF ClaimSteps
<1>7. ASSUME NEW a \in Accepts, AcceptFinish(a) \/ AcceptFinishUncertain(a) PROVE ClaimSteps
  <2>1. CASE AcceptFinish(a)
    BY <1>6, <2>1 DEF AcceptFinish, Commit, Finishes
  <2>2. CASE AcceptFinishUncertain(a)
    BY <1>6, <2>2 DEF AcceptFinishUncertain, Commit, Finishes
  <2> QED BY <1>7, <2>1, <2>2
<1>8. ASSUME NEW q \in Polls, PollFinish(q) PROVE ClaimSteps
  <2>1. pollSeen[q].claim_nonce \in Accepts
    BY <1>8 DEF PollFinish, IInv, PollHolds, Seen
  <2> QED BY <1>6, <1>8, <2>1 DEF PollFinish, Commit, Finishes
<1>9. ASSUME PickupNext,
             \A a \in Accepts : ~(AcceptClaim(a) \/ AcceptMark(a) \/ AcceptRelease(a) \/ AcceptFinish(a)
                                  \/ AcceptFinishUncertain(a)),
             \A q \in Polls : ~PollFinish(q)
      PROVE  UNCHANGED rec
  BY <1>9 DEF PickupNext, AcceptStep, AcceptPrepare, AcceptCheck, AcceptRedirect, PollRead, PollStep,
              PollLookup, PollReread, sharedVars
<1>10. CASE FallbackNext
  <2> DEFINE stored == [rec EXCEPT !.ws_token = attempt + 1, !.kevin_redirect_nonce = attempt + 1,
                                   !.kevin_redirect_status = "pending"]
             done   == [rec EXCEPT !.kevin_redirect_status = "succeeded"]
             freed  == [rec EXCEPT !.kevin_redirect_nonce = None, !.kevin_redirect_status = None]
  <2>1. SameDecision(rec, stored) /\ SameDecision(rec, done) /\ SameDecision(rec, freed)
    BY <1>0 DEF Record, SameDecision, SameClaimFields
  <2>2. RedirectStore => rec' \in {rec, stored}
    BY DEF RedirectStore, Commit, store_token
  <2>3. RedirectFinish => rec' \in {rec, done}
    BY DEF RedirectFinish, Commit
  <2>4. RecoverRelease => rec' \in {rec, freed}
    BY DEF RecoverRelease, Commit, release_redirect
  <2>5. ASSUME NEW t \in Tokens, StreamStart(t) \/ StreamConfirm(t) \/ StreamStop(t)
        PROVE  rec' \in {rec, done}
    BY <2>5 DEF StreamStart, StreamConfirm, StreamStop, Commit
  <2>6. RingStep => RedirectStore \/ RedirectFinish \/ RecoverRelease \/ UNCHANGED rec
    BY DEF RingStep, RingPush, RingSeesIntent, RingTimeout, RingDecide, RedirectCall, RecoverRead,
           RecoverLookup, RecoverGiveUp, HandOff, sharedVars
  <2> HIDE DEF stored, done, freed
  <2> QED BY <1>1, <1>10, <2>1, <2>2, <2>3, <2>4, <2>5, <2>6 DEF FallbackNext, ClaimSteps
<1>11. ASSUME NEW t \in Tokens, ConsumeAcknowledge(t) PROVE ClaimSteps
  BY <1>1, <1>11 DEF ConsumeAcknowledge, Commit, ClaimSteps
<1>12. ASSUME NEW p \in Publishers, PublishReserve(p) \/ PublishRecord(p) PROVE ClaimSteps
  BY <1>0, <1>12 DEF PublishReserve, PublishRecord, Commit, Record, ClaimSteps, SameDecision, SameClaimFields
<1>13. ASSUME MessageNext, \A d \in Declines : ~DeclineClaim(d), ~TimerArbitrate,
              \A t \in Tokens : ~ConsumeClaim(t) /\ ~ConsumeAcknowledge(t),
              \A p \in Publishers : ~PublishReserve(p) /\ ~PublishRecord(p)
       PROVE  UNCHANGED rec
  BY <1>13, ConsumerReads DEF MessageNext, PublishStep, PublishRecheck, PublishCommand, TimerStart, TimerStep,
               TimerDeadline, TimerRecheck, TimerPublished, TimerSettle, TimerEnds, LegacyDecline,
               sharedVars
<1>14. ASSUME UNCHANGED pickupVars, MessageNext \/ RingAdopts PROVE ClaimSteps
  BY <1>1, <1>11, <1>12, <1>13, <1>14, MessageClaims
<1>15. CASE PickupNext
  BY <1>1, <1>3, <1>4, <1>5, <1>7, <1>8, <1>9, <1>15
<1> QED BY <1>1, <1>2, <1>10, <1>14, <1>15 DEF Next, vars, sharedVars

\* The token, the redirect nonce and the status of the redirect are written by the ringing task, and the
\* status by the stream that arrives (_async_redirect_to_kevin, confirm_fallback_stream).
SameFallback(r, s) ==
    /\ s.ws_token = r.ws_token
    /\ s.kevin_redirect_nonce = r.kevin_redirect_nonce
    /\ s.kevin_redirect_status = r.kevin_redirect_status

Stored(r, n) == [r EXCEPT !.ws_token = n, !.kevin_redirect_nonce = n, !.kevin_redirect_status = "pending"]
Freed(r) == [r EXCEPT !.kevin_redirect_nonce = None, !.kevin_redirect_status = None]
Served(r) == [r EXCEPT !.kevin_redirect_status = "succeeded"]

FallbackSteps ==
    \/ SameFallback(rec, rec')
    \/ RedirectStore /\ StillRinging(rec) /\ rec.kevin_redirect_nonce = None /\ rec' = Stored(rec, attempt + 1)
    \/ RecoverRelease /\ rec.kevin_redirect_nonce = strandedNonce /\ rec' = Freed(rec)
    \/ RedirectFinish /\ rec' = Served(rec)
    \/ \E t \in Tokens : StreamConfirm(t) /\ FallbackMatches(rec, t) /\ rec' = Served(rec)

\* Every step writes them in one of these ways, or not at all.
LEMMA FallbackMoves == ASSUME IInv, [Next]_vars PROVE FallbackSteps
<1>0. rec \in Record
  BY DEF IInv, TypeOK, SharedTypeOK
<1>1. CASE UNCHANGED rec
  BY <1>1 DEF FallbackSteps, SameFallback
<1>2. CASE CallNext
  BY <1>0, <1>2 DEF CallNext, HangUp, EndRecord, GoStale, update_active_call, transition_state, Record,
                    FallbackSteps, SameFallback
<1>3. \A op, nonce : SameFallback(rec, ClaimedAccept(rec, op, nonce))
  BY <1>0 DEF ClaimedAccept, Record, SameFallback
<1>4. \A action, op, nonce : SameFallback(rec, ClaimedMessage(rec, action, op, nonce))
  BY <1>0 DEF ClaimedMessage, Record, SameFallback
<1>5. \A a : SameFallback(rec, Given(rec, a))
  BY <1>0 DEF Given, Record, SameFallback
<1>6. \A status : SameFallback(rec, [rec EXCEPT !.owner_action_status = status])
  BY <1>0 DEF Record, SameFallback
<1>7. SameFallback(rec, [rec EXCEPT !.accepted = TRUE, !.redirect_started = TRUE])
  BY <1>0 DEF Record, SameFallback
<1>9. CASE FallbackNext
  <2>1. CASE RedirectStore
    <3>1. rec' \in {rec, store_token(rec, attempt + 1)}
      BY <2>1 DEF RedirectStore, Commit
    <3> QED BY <1>1, <2>1, <3>1 DEF store_token, Stored, FallbackSteps
  <2>2. CASE RedirectFinish
    BY <1>1, <2>2 DEF RedirectFinish, Commit, Served, FallbackSteps
  <2>3. CASE RecoverRelease
    <3>1. rec' \in {rec, release_redirect(rec)}
      BY <2>3 DEF RecoverRelease, Commit
    <3> QED BY <1>1, <2>3, <3>1 DEF release_redirect, Freed, FallbackSteps
  <2>4. CASE RingStep /\ ~RedirectStore /\ ~RedirectFinish /\ ~RecoverRelease
    <3>1. UNCHANGED rec
      BY <2>4 DEF RingStep, RingPush, RingSeesIntent, RingTimeout, RingDecide, RedirectCall, RecoverRead,
                  RecoverLookup, RecoverGiveUp, HandOff, sharedVars
    <3> QED BY <1>1, <3>1
  <2>5. ASSUME NEW t \in Tokens, StreamConfirm(t) PROVE FallbackSteps
    BY <1>1, <2>5 DEF StreamConfirm, Commit, Served, FallbackSteps
  <2>6. ASSUME NEW t \in Tokens, StreamStart(t) \/ StreamStop(t) PROVE UNCHANGED rec
    BY <2>6 DEF StreamStart, StreamStop
  <2> QED BY <1>1, <1>9, <2>1, <2>2, <2>3, <2>4, <2>5, <2>6 DEF FallbackNext
<1>10. ASSUME NEW p \in Publishers, PublishStep(p) PROVE FallbackSteps
  BY <1>0, <1>10 DEF PublishStep, PublishReserve, PublishRecheck, PublishCommand, PublishRecord, Commit,
                     Record, FallbackSteps, SameFallback
<1>11. ASSUME NEW t \in Tokens, ConsumeStep(t) PROVE FallbackSteps
  <2>1. CASE ConsumeClaim(t)
    BY <1>1, <1>4, <2>1 DEF ConsumeClaim, Commit, Adoption, reduce_active_call_action, FallbackSteps
  <2>2. CASE ConsumeAcknowledge(t)
    BY <1>1, <1>6, <2>2 DEF ConsumeAcknowledge, Commit, FallbackSteps
  <2> QED BY <1>1, <1>11, <2>1, <2>2, ConsumerReads
<1>12. CASE MessageNext \/ RingAdopts
  <2>1. CASE (\E d \in Declines : DeclineClaim(d)) \/ TimerArbitrate \/ RingAdopts
    BY <1>1, <1>4, <2>1 DEF DeclineClaim, TimerArbitrate, RingAdopts, RingReadsCommand, RingReadsRecord,
                            RingClaims, Commit, Adoption, reduce_active_call_action, FallbackSteps, sharedVars
  <2>2. CASE LegacyDecline \/ TimerStart \/ (TimerStep /\ ~TimerArbitrate)
    <3>1. UNCHANGED rec
      BY <2>2 DEF LegacyDecline, TimerStart, TimerStep, TimerDeadline, TimerRecheck, TimerPublished,
                  TimerSettle, TimerEnds, sharedVars
    <3> QED BY <1>1, <3>1
  <2> QED BY <1>10, <1>11, <1>12, <2>1, <2>2 DEF MessageNext
<1>13. CASE PickupNext
  <2>1. \A a \in Accepts : AcceptClaim(a) => FallbackSteps
    BY <1>1, <1>3 DEF AcceptClaim, Commit, reduce_active_call_action, FallbackSteps
  <2>2. \A a \in Accepts : AcceptMark(a) => FallbackSteps
    BY <1>1, <1>7 DEF AcceptMark, Commit, mark_redirect_started, FallbackSteps
  <2>3. \A a \in Accepts : AcceptRelease(a) => FallbackSteps
    BY <1>1, <1>5 DEF AcceptRelease, Commit, release_preparation, Given, FallbackSteps
  <2>4. \A a \in Accepts : AcceptFinish(a) \/ AcceptFinishUncertain(a) => FallbackSteps
    BY <1>1, <1>6 DEF AcceptFinish, AcceptFinishUncertain, Commit, finish, FallbackSteps
  <2>5. \A q \in Polls : PollFinish(q) => FallbackSteps
    BY <1>1, <1>6 DEF PollFinish, Commit, finish, FallbackSteps
  <2>6. \A a \in Accepts : AcceptPrepare(a) \/ AcceptCheck(a) \/ AcceptRedirect(a) => UNCHANGED rec
    BY DEF AcceptPrepare, AcceptCheck, AcceptRedirect
  <2>7. \A q \in Polls : PollRead(q) \/ PollLookup(q) \/ PollReread(q) => UNCHANGED rec
    BY DEF PollRead, PollLookup, PollReread, sharedVars
  <2> QED BY <1>1, <1>13, <2>1, <2>2, <2>3, <2>4, <2>5, <2>6, <2>7 DEF PickupNext, AcceptStep, PollStep
<1> QED BY <1>1, <1>2, <1>9, <1>12, <1>13 DEF Next, vars, sharedVars

-----------------------------------------------------------------------------
(* The parts of the invariant.                                             *)

\* A claim, its status and its conference fit each other, whoever writes (reduce_active_call_action,
\* _release_preparation, _finish, acknowledge_owner_action).
LEMMA ClaimStaysFit == ASSUME IInv, ClaimFits(rec), [Next]_vars PROVE ClaimFits(rec')
<1>0. rec \in Record /\ ClaimShape(rec)
  BY DEF IInv, TypeOK, SharedTypeOK
<1>1. CASE SameDecision(rec, rec')
  BY <1>1 DEF SameDecision, SameClaimFields, ClaimFits
<1>2. ASSUME NEW a \in Accepts, Claimable(rec), rec' = ClaimedAccept(rec, OpOf[a], a) PROVE ClaimFits(rec')
  BY <1>0, <1>2, NoneIsApart DEF ClaimedAccept, Claimable, Record, ClaimFits
<1>3. ASSUME NEW a \in Accepts, same_claim(rec, a), rec' = [rec EXCEPT !.accepted = TRUE, !.redirect_started = TRUE]
      PROVE  ClaimFits(rec')
  BY <1>0, <1>3 DEF Record, ClaimFits
<1>4. ASSUME NEW a \in Accepts, same_claim(rec, a), rec' = Given(rec, a) PROVE ClaimFits(rec')
  BY <1>0, <1>4, RequestsAssumption DEF Given, same_claim, Record, ClaimFits
<1>5. ASSUME Claimable(rec), NEW action \in {"decline", "timeout"}, NEW op \in AllOps, NEW nonce \in Nonces \ Accepts,
             rec' = ClaimedMessage(rec, action, op, nonce)
      PROVE  ClaimFits(rec')
  BY <1>0, <1>5, NoneIsApart DEF ClaimedMessage, Claimable, Record, ClaimFits
<1>6. ASSUME NEW a \in Accepts, NEW status \in {"accepted", "uncertain"}, same_claim(rec, a),
             rec' = [rec EXCEPT !.owner_action_status = status]
      PROVE  ClaimFits(rec')
  BY <1>0, <1>6 DEF same_claim, Record, ClaimFits
<1>7. ASSUME NEW t \in Tokens, ConsumeAcknowledge(t), rec' = [rec EXCEPT !.owner_action_status = "taking_message"]
      PROVE  ClaimFits(rec')
  <2>1. MessageClaimed
    BY <1>7 DEF ConsumeAcknowledge, IInv, MessageOwns, Acting
  <2> QED BY <1>0, <1>7, <2>1 DEF MessageClaimed, Record, ClaimFits
<1> QED BY <1>1, <1>2, <1>3, <1>4, <1>5, <1>6, <1>7, ClaimMoves DEF ClaimSteps

\* A POST answers "preparation_failed" only after its claim is off the record, and no one but the POST puts
\* it there (_release_preparation).
LEMMA NonceStaysOfItsPost ==
    ASSUME IInv, ClaimFits(rec), NonceIsOfItsPost, [Next]_vars PROVE NonceIsOfItsPost'
<1>0. rec \in Record /\ accept \in [Accepts -> AcceptSteps \cup Answered]
  BY DEF IInv, TypeOK, SharedTypeOK, PickupTypeOK
<1>1. ASSUME NEW a \in Accepts, rec'.claim_nonce = a
      PROVE  rec.claim_nonce = a \/ AcceptClaim(a)
  <2>1. CASE SameDecision(rec, rec')
    BY <1>1, <2>1 DEF SameDecision, SameClaimFields
  <2>2. ASSUME NEW b \in Accepts, AcceptClaim(b), rec' = ClaimedAccept(rec, OpOf[b], b) PROVE AcceptClaim(a)
    <3>1. rec'.claim_nonce = b
      BY <1>0, <2>2 DEF ClaimedAccept, Record
    <3> QED BY <1>1, <2>2, <3>1
  <2>3. ASSUME NEW b \in Accepts, rec' = Given(rec, b) PROVE FALSE
    BY <1>0, <1>1, <2>3, NoneIsApart DEF Given, Record, Nonces
  <2>4. ASSUME NEW action, NEW op, NEW nonce \in Nonces \ Accepts, rec' = ClaimedMessage(rec, action, op, nonce)
        PROVE  FALSE
    BY <1>0, <1>1, <2>4 DEF ClaimedMessage, Record
  <2>5. ASSUME NEW status, rec' = [rec EXCEPT !.owner_action_status = status] PROVE rec.claim_nonce = a
    BY <1>0, <1>1, <2>5 DEF Record
  <2>6. ASSUME rec' = [rec EXCEPT !.accepted = TRUE, !.redirect_started = TRUE] PROVE rec.claim_nonce = a
    BY <1>0, <1>1, <2>6 DEF Record
  <2> QED BY <2>1, <2>2, <2>3, <2>4, <2>5, <2>6, ClaimMoves DEF ClaimSteps
<1>2. ASSUME NEW a \in Accepts, AcceptClaim(a) PROVE accept'[a] \notin {"idle", "preparation_failed"}
  BY <1>0, <1>2 DEF AcceptClaim, AfterClaim, Goto
<1>3. ASSUME NEW a \in Accepts, accept'[a] \in {"idle", "preparation_failed"}
      PROVE  accept[a] = accept'[a] \/ rec'.claim_nonce # a
  <2>1. CASE UNCHANGED accept
    BY <2>1
  <2>2. ASSUME NEW b \in Accepts, AcceptRelease(b) PROVE accept[a] = accept'[a] \/ rec'.claim_nonce # a
    <3>1. CASE a = b
      <4>1. accept'[a] = "preparation_failed"
        BY <1>0, <1>3, <2>2, <3>1 DEF AcceptRelease, Goto
      <4>2. ReleaseConfirmed(rec', a)
        BY <1>0, <2>2, <3>1, <4>1 DEF AcceptRelease, Goto, Commit
      <4>3. rec'.claim_nonce = None
        BY <4>2, ClaimStaysFit DEF ReleaseConfirmed, ClaimFits
      <4> QED BY <4>3, NoneIsApart DEF Nonces
    <3>2. CASE a # b
      BY <1>0, <2>2, <3>2 DEF AcceptRelease, Goto
    <3> QED BY <3>1, <3>2
  <2>3. ASSUME NEW b \in Accepts, AcceptClaim(b) \/ AcceptStep(b), ~AcceptRelease(b)
        PROVE  accept[a] = accept'[a]
    BY <1>0, <1>2, <1>3, <2>3
       DEF AcceptClaim, AfterClaim, AcceptStep, AcceptPrepare, AcceptCheck, AcceptMark, AcceptRedirect,
           AcceptFinishUncertain, AcceptFinish, Goto
  <2>4. ASSUME NEW q \in Polls, PollRead(q) \/ PollStep(q) PROVE UNCHANGED accept
    BY <2>4 DEF PollRead, PollStep, PollLookup, PollFinish, PollReread
  <2> QED BY <2>1, <2>2, <2>3, <2>4 DEF Next, PickupNext, pickupVars, vars, RingAdopts
<1> QED BY <1>1, <1>2, <1>3 DEF NonceIsOfItsPost

\* A caller who is with a pickup stays with it until hanging up (_redirect, _async_redirect_to_kevin).
LEMMA WithStays ==
    ASSUME IInv, RingKeepsTheCaller, NEW a \in Accepts, With(a), [Next]_vars PROVE With(a)'
<1>1. Owns(a)
  BY DEF With, IInv, RedirectOwns
<1>2. a \in redirected'
  <2>1. redirected \subseteq redirected'
    BY DEF Next, PickupNext, AcceptClaim, AcceptStep, AcceptPrepare, AcceptCheck, AcceptMark, AcceptRelease,
           AcceptRedirect, AcceptFinishUncertain, AcceptFinish, PollRead, PollStep, PollLookup, PollFinish,
           PollReread, RingAdopts, pickupVars, vars
  <2> QED BY <2>1 DEF With
<1>3. ASSUME NEW b \in Accepts, AcceptRedirect(b) PROVE b = a
  BY <1>1, <1>3 DEF AcceptRedirect, IInv, RedirectOwns, Owns
<1>4. ~RedirectCall
  BY <1>1 DEF RedirectCall, RingKeepsTheCaller, Owns
<1>5. caller' \in {InConf(a), Gone}
  BY <1>3, <1>4, CallerMoves DEF CallerSteps, With
<1> QED BY <1>2, <1>5 DEF With

\* Wherever the owner's device was told that it has the caller, it does (_finish, get_owner_call_action_status).
LEMMA OwnersStayWith ==
    ASSUME IInv, ClaimFits(rec), OwnersAreWith, RingKeepsTheCaller, [Next]_vars PROVE OwnersAreWith'
<1>0. /\ rec \in Record /\ ClaimShape(rec)
      /\ accept \in [Accepts -> AcceptSteps \cup Answered]
      /\ poll \in [Polls -> {"idle", "lookup", "finish", "reread"}]
  BY DEF IInv, TypeOK, SharedTypeOK, PickupTypeOK
<1>1. \A a \in Accepts : With(a) => With(a)'
  BY WithStays
<1>2. ASSUME NEW a \in Accepts, caller' = InConf(a) PROVE a \in redirected'
  <2>1. CASE caller = InConf(a)
    <3>1. With(a)
      BY <2>1 DEF OwnersAreWith, With
    <3> QED BY <1>1, <3>1 DEF With
  <2>2. CASE caller # InConf(a)
    <3>1. PICK b \in Accepts : AcceptRedirect(b) /\ caller' = InConf(b)
      BY <1>2, <2>2, CallerMoves, PlacesApart DEF CallerSteps
    <3>2. b = a
      BY <1>2, <3>1, PlacesApart
    <3> QED BY <3>1, <3>2 DEF AcceptRedirect
  <2> QED BY <2>1, <2>2
<1>3. ASSUME NEW a \in Accepts, accept'[a] = "finish_accepted" PROVE With(a)'
  <2>1. CASE accept[a] = "finish_accepted"
    BY <1>1, <2>1 DEF OwnersAreWith
  <2>2. CASE accept[a] # "finish_accepted"
    <3>1. ASSUME NEW b \in Accepts, AcceptClaim(b) \/ AcceptStep(b), ~(b = a /\ AcceptRedirect(b)) PROVE FALSE
      BY <1>0, <1>3, <2>2, <3>1
         DEF AcceptClaim, AfterClaim, AcceptStep, AcceptPrepare, AcceptCheck, AcceptMark, AcceptRelease,
             AcceptRedirect, AcceptFinishUncertain, AcceptFinish, Goto
    <3>2. ASSUME NEW q \in Polls, PollRead(q) \/ PollStep(q) PROVE FALSE
      BY <1>3, <2>2, <3>2 DEF PollRead, PollStep, PollLookup, PollFinish, PollReread
    <3>3. AcceptRedirect(a)
      BY <1>3, <2>2, <3>1, <3>2 DEF Next, PickupNext, pickupVars, vars, RingAdopts
    <3>4. caller' = InConf(a)
      BY <1>0, <1>3, <3>3 DEF AcceptRedirect, Redirect, Goto
    <3> QED BY <3>3, <3>4 DEF AcceptRedirect, With
  <2> QED BY <2>1, <2>2
<1>4. ASSUME rec'.owner_action_status = "accepted" PROVE With(rec.claim_nonce)' /\ rec'.claim_nonce \in Accepts
  <2>1. CASE rec.owner_action_status = "accepted"
    <3>1. rec.claim_nonce \in Accepts /\ With(rec.claim_nonce)
      BY <1>0, <2>1 DEF OwnersAreWith, ClaimFits, ClaimShape
    <3>2. rec'.claim_nonce = rec.claim_nonce
      BY <3>1, StepEvolves DEF With, IInv, RedirectOwns, Owns, Evolves, Keeps, Decided
    <3> QED BY <1>1, <3>1, <3>2 DEF With
  <2>2. CASE rec.owner_action_status # "accepted"
    <3>1. PICK a \in Accepts : /\ Finishes(a, "accepted")
                               /\ same_claim(rec, a)
                               /\ rec' = [rec EXCEPT !.owner_action_status = "accepted"]
      <4>1. ~SameDecision(rec, rec')
        BY <1>4, <2>2 DEF SameDecision
      <4>2. ASSUME NEW b, NEW op, rec' = ClaimedAccept(rec, op, b) \/ rec' = Given(rec, b) PROVE FALSE
        BY <1>0, <1>4, <4>2, RequestsAssumption DEF ClaimedAccept, Given, Record
      <4>3. ASSUME NEW action, NEW op, NEW nonce, rec' = ClaimedMessage(rec, action, op, nonce) PROVE FALSE
        BY <1>0, <1>4, <4>3 DEF ClaimedMessage, Record
      <4>4. ASSUME NEW status, rec' = [rec EXCEPT !.owner_action_status = status] PROVE status = "accepted"
        BY <1>0, <1>4, <4>4 DEF Record
      <4>5. ASSUME rec' = [rec EXCEPT !.accepted = TRUE, !.redirect_started = TRUE] PROVE FALSE
        BY <1>0, <1>4, <2>2, <4>5 DEF Record
      <4>6. PICK a \in Accepts, status \in {"accepted", "uncertain"} :
              Finishes(a, status) /\ same_claim(rec, a) /\ rec' = [rec EXCEPT !.owner_action_status = status]
        BY <4>1, <4>2, <4>3, <4>4, <4>5, ClaimMoves DEF ClaimSteps
      <4>7. status = "accepted"
        BY <4>4, <4>6
      <4> QED BY <4>6, <4>7
    <3>2. With(a)
      BY <3>1 DEF Finishes, AcceptFinish, AcceptFinishUncertain, PollFinish, OwnersAreWith
    <3>3. rec'.claim_nonce = a
      BY <1>0, <3>1 DEF same_claim, Record
    <3> QED BY <1>1, <3>2, <3>3 DEF With
  <2> QED BY <2>1, <2>2
<1>5. ASSUME NEW q \in Polls, poll'[q] = "finish" PROVE With(pollSeen[q].claim_nonce)'
  <2>1. CASE poll[q] = "finish" /\ pollSeen'[q] = pollSeen[q]
    <3>1. pollSeen[q].claim_nonce \in Accepts /\ With(pollSeen[q].claim_nonce)
      BY <2>1 DEF OwnersAreWith, IInv, PollHolds, Seen
    <3> QED BY <1>1, <2>1, <3>1 DEF With
  <2>2. CASE ~(poll[q] = "finish" /\ pollSeen'[q] = pollSeen[q])
    <3>1. ASSUME UNCHANGED <<poll, pollSeen>> PROVE FALSE
      BY <1>5, <2>2, <3>1
    <3>2. ASSUME NEW p \in Polls, PollRead(p) \/ PollFinish(p) \/ PollReread(p) PROVE FALSE
      <4>0. pollSeen \in [Polls -> {None} \cup Seen]
        BY DEF IInv, TypeOK, PickupTypeOK, Seen
      <4> QED BY <1>0, <1>5, <2>2, <3>2, <4>0 DEF PollRead, PollFinish, PollReread, PollAnswer
    <3>3. ASSUME NEW a \in Accepts, AcceptClaim(a) \/ AcceptStep(a) PROVE FALSE
      BY <3>1, <3>3
         DEF AcceptClaim, AcceptStep, AcceptPrepare, AcceptCheck, AcceptMark, AcceptRelease,
             AcceptRedirect, AcceptFinishUncertain, AcceptFinish
    <3>4. PICK p \in Polls : PollLookup(p)
      BY <3>1, <3>2, <3>3 DEF Next, PickupNext, PollStep, pickupVars, vars, RingAdopts
    <3>5. p = q /\ caller = InConf(pollSeen[q].claim_nonce) /\ pollSeen[q].claim_nonce \in Accepts
          /\ pollSeen' = pollSeen
      BY <1>0, <1>5, <2>2, <3>4 DEF PollLookup, conference_contains_call, IInv, PollHolds, Seen
    <3>6. With(pollSeen[q].claim_nonce)
      BY <3>5 DEF OwnersAreWith, With
    <3> QED BY <1>1, <3>5, <3>6 DEF With
  <2> QED BY <2>1, <2>2
<1>6. ASSUME NEW a \in granted' PROVE With(a)'
  <2>0. granted \subseteq Accepts
    BY DEF OwnersAreWith, With, IInv, TypeOK, PickupTypeOK
  <2>1. CASE a \in granted
    BY <1>1, <2>0, <2>1 DEF OwnersAreWith
  <2>2. CASE a \notin granted
    <3>1. ASSUME rec.owner_action_status = "accepted", a = rec.conference_name PROVE With(a)'
      <4>1. rec.claim_nonce = a /\ a \in Accepts
        BY <1>0, <3>1 DEF ClaimFits, ClaimShape
      <4> QED BY <1>1, <3>1, <4>1 DEF OwnersAreWith
    <3>2. ASSUME NEW b \in Accepts, AcceptClaim(b) PROVE With(a)'
      <4> DEFINE claimed == reduce_active_call_action(rec, "accept", OpOf[b], b)
      <4>1. AfterClaim(claimed, b) = "credentials" /\ a = claimed.conference_name
        BY <2>2, <3>2 DEF AcceptClaim
      <4>2. claimed = rec
        <5>1. claimed # rec => claimed = ClaimedAccept(rec, OpOf[b], b)
          BY DEF reduce_active_call_action
        <5>2. ClaimedAccept(rec, OpOf[b], b).claim_nonce = b
          BY <1>0 DEF ClaimedAccept, Record
        <5> HIDE DEF claimed
        <5> QED BY <4>1, <5>1, <5>2 DEF AfterClaim
      <4> HIDE DEF claimed
      <4>3. rec.owner_action_status = "accepted"
        BY <4>1, <4>2 DEF AfterClaim
      <4> QED BY <3>1, <4>1, <4>2, <4>3
    <3>3. ASSUME NEW b \in Accepts, AcceptFinish(b) PROVE With(a)'
      BY <1>1, <2>2, <3>3 DEF AcceptFinish, OwnersAreWith
    <3>4. ASSUME NEW q \in Polls, PollRead(q) \/ PollReread(q) PROVE With(a)'
      BY <2>2, <3>1, <3>4 DEF PollRead, PollReread, PollAnswer
    <3>5. ASSUME NEW b \in Accepts, AcceptStep(b), ~AcceptFinish(b) PROVE FALSE
      BY <2>2, <3>5 DEF AcceptStep, AcceptPrepare, AcceptCheck, AcceptMark, AcceptRelease, AcceptRedirect,
                        AcceptFinishUncertain
    <3>6. ASSUME NEW q \in Polls, PollLookup(q) \/ PollFinish(q) PROVE FALSE
      BY <2>2, <3>6 DEF PollLookup, PollFinish
    <3> QED BY <2>2, <3>2, <3>3, <3>4, <3>5, <3>6 DEF Next, PickupNext, PollStep, pickupVars, vars, RingAdopts
  <2> QED BY <2>1, <2>2
<1> QED BY <1>2, <1>3, <1>4, <1>5, <1>6 DEF OwnersAreWith

\* No attempt is made that the record does not hold (_async_redirect_to_kevin).
LEMMA StoreFits ==
    ASSUME IInv, TokensAreOfAttempts, RedirectStore
    PROVE  \/ /\ StillRinging(rec) /\ rec.kevin_redirect_nonce = None
              /\ rec' = Stored(rec, attempt + 1) /\ attempt' = attempt + 1
           \/ rec' = rec /\ attempt' = attempt /\ ring' # "redirect"
<1> DEFINE n == attempt + 1
           stored == store_token(rec, n)
<1>0. rec \in Record /\ attempt \in Nat /\ n # None
  BY NoneIsApart, BoundsAssumption DEF IInv, TypeOK, SharedTypeOK, FallbackTypeOK
<1>1. rec.kevin_redirect_nonce # n
  <2>1. rec.kevin_redirect_nonce = None \/ (rec.kevin_redirect_nonce \in Nat /\ rec.kevin_redirect_nonce <= attempt)
    BY <1>0 DEF TokensAreOfAttempts, Record, Attempts
  <2> QED BY <1>0, <2>1
<1>2. CASE StillRinging(rec) /\ rec.kevin_redirect_nonce = None
  <2>1. stored = Stored(rec, n)
    BY <1>2 DEF store_token, Stored
  <2>2. stored.kevin_redirect_nonce = n
    BY <1>0, <2>1 DEF Stored, Record
  <2> HIDE DEF stored, n
  <2>3. \/ rec' = stored /\ attempt' = n
        \/ rec' = rec /\ attempt' = attempt /\ ring' # "redirect"
    BY <2>2 DEF RedirectStore, Commit, NotRedirected, stored, n
  <2> QED BY <1>2, <2>1, <2>3 DEF n
<1>3. CASE ~(StillRinging(rec) /\ rec.kevin_redirect_nonce = None)
  <2>1. stored = rec
    BY <1>3 DEF store_token
  <2> HIDE DEF stored, n
  <2> QED BY <1>1, <2>1 DEF RedirectStore, Commit, NotRedirected, stored, n
<1> QED BY <1>2, <1>3

\* The ringing task alone moves itself and its attempts on (_ring_contractor).
LEMMA RingMoves ==
    ASSUME [Next]_vars
    PROVE  \/ RingStep
           \/ /\ {ring, ring'} \subseteq {"poll", "adopt", "claim"}
              /\ UNCHANGED <<attempt, strandedNonce>>
           \/ UNCHANGED <<ring, attempt, strandedNonce>>
BY DEF Next, CallNext, PickupNext, FallbackNext, StreamStart, StreamConfirm, StreamStop, RingAdopts,
       RingReadsCommand, RingReadsRecord, RingClaims, fallbackVars, vars

\* While no redirect is sent, a caller who is on no stream opens none (media_stream_ws).
LEMMA OffStays ==
    ASSUME IInv, OffStreams, \A t \in Tokens : caller' # OnStream(t), [Next]_vars PROVE OffStreams'
BY StreamMoves DEF StreamSteps, StreamStart, OffStreams

\* A caller who is on no stream is put on one only by the redirect.
LEMMA OffStaysUnredirected ==
    ASSUME IInv, OffStreams, ~RedirectCall, [Next]_vars PROVE OffStreams'
<1>1. \A t \in Tokens : caller' # OnStream(t)
  BY CallerMoves, PlacesApart DEF CallerSteps, OffStreams
<1> QED BY <1>1, OffStays

\* Tokens stay of the attempts, and the caller on the stream of the token
\* (_async_redirect_to_kevin, release_stranded_fallback_redirect).
LEMMA TokensStayOfAttempts ==
    ASSUME IInv, TokensAreOfAttempts, RingKeepsTheCaller, [Next]_vars PROVE TokensAreOfAttempts'
<1>0. /\ rec \in Record /\ attempt \in Nat /\ Tokens \subseteq Nat
      /\ streams \in [Tokens -> {"off", "confirming", "up", "closed"}]
      /\ None \notin Nat
  BY NoneIsApart, BoundsAssumption DEF IInv, TypeOK, SharedTypeOK, FallbackTypeOK, Tokens
<1>1. \/ attempt' = attempt
      \/ attempt' = attempt + 1 /\ rec' = Stored(rec, attempt + 1)
  BY RingMoves, StoreFits
     DEF RingStep, RingPush, RingSeesIntent, RingTimeout, RingDecide, RedirectCall, RedirectFinish,
         RecoverRead, RecoverLookup, RecoverRelease, RecoverGiveUp, HandOff
<1>2. \/ SameFallback(rec, rec')
      \/ RedirectStore /\ rec.kevin_redirect_nonce = None /\ rec' = Stored(rec, attempt + 1) /\ attempt' = attempt + 1
      \/ rec'.kevin_redirect_nonce = None /\ rec'.ws_token = rec.ws_token
      \/ rec'.kevin_redirect_nonce = rec.kevin_redirect_nonce /\ rec'.ws_token = rec.ws_token
  <2>1. CASE RedirectStore
    BY <2>1, StoreFits DEF SameFallback
  <2>2. CASE rec' = Freed(rec)
    BY <1>0, <2>2 DEF Freed, Record
  <2>3. CASE rec' = Served(rec)
    BY <1>0, <2>3 DEF Served, Record
  <2> QED BY <2>1, <2>2, <2>3, FallbackMoves DEF FallbackSteps
<1>3. rec' = Stored(rec, attempt + 1) => rec'.ws_token = attempt + 1 /\ rec'.kevin_redirect_nonce = attempt + 1
  BY <1>0 DEF Stored, Record
<1>4. rec.ws_token \in {None} \cup Nat /\ rec.kevin_redirect_nonce \in {None} \cup Nat
  <2>1. Attempts \subseteq Nat
    BY BoundsAssumption DEF Attempts
  <2> QED BY <1>0, <2>1 DEF Record
<1>5. /\ rec'.kevin_redirect_nonce # None => rec'.kevin_redirect_nonce <= attempt'
      /\ rec'.ws_token # None => rec'.ws_token <= attempt'
  BY <1>0, <1>1, <1>2, <1>3, <1>4 DEF SameFallback, TokensAreOfAttempts
<1>6. ASSUME NEW t \in Tokens, t > attempt' PROVE streams'[t] = "off"
  <2>1. t > attempt
    BY <1>0, <1>1, <1>6
  <2>2. ~StreamStart(t)
    BY <1>0, <2>1 DEF StreamStart, TokensAreOfAttempts
  <2> QED BY <2>1, <2>2, StreamMoves DEF StreamSteps, TokensAreOfAttempts
<1>7. ASSUME NEW t \in Tokens, caller' = OnStream(t) PROVE rec'.ws_token = t
  <2>1. CASE caller = OnStream(t)
    <3>1. rec.ws_token = t /\ ~OffStreams
      BY <2>1 DEF TokensAreOfAttempts, OffStreams
    <3>2. ~(RedirectStore /\ rec.kevin_redirect_nonce = None)
      BY <3>1, BoundsAssumption DEF RedirectStore, RingKeepsTheCaller
    <3> QED BY <1>2, <3>1, <3>2 DEF SameFallback
  <2>2. CASE caller # OnStream(t)
    <3>1. RedirectCall /\ OnStream(attempt) = OnStream(t)
      BY <1>7, <2>2, CallerMoves, PlacesApart DEF CallerSteps
    <3>2. attempt = t
      BY <3>1, PlacesApart
    <3> QED BY <3>1, <3>2 DEF RedirectCall, RingKeepsTheCaller
  <2> QED BY <2>1, <2>2
<1> QED BY <1>5, <1>6, <1>7 DEF TokensAreOfAttempts

\* Until a redirect is on record, and while one is being taken back, no stream has the caller
\* (_async_redirect_to_kevin, release_stranded_fallback_redirect).
LEMMA RingKeepsOn ==
    ASSUME IInv, TokensAreOfAttempts, RingKeepsTheCaller, [Next]_vars PROVE RingKeepsTheCaller'
<1>0. /\ rec \in Record /\ attempt \in Nat /\ attempt + 1 \in Nat /\ Tokens \subseteq Nat /\ attempt \in Tokens
      /\ None \notin Nat
  BY NoneIsApart, BoundsAssumption DEF IInv, TypeOK, SharedTypeOK, FallbackTypeOK, Tokens
<1>1. Route = "screening" => ring' = "done"
  BY RingMoves
     DEF RingKeepsTheCaller, RingStep, RingPush, RingSeesIntent, RingTimeout, RingDecide, RedirectStore,
         RedirectCall, RedirectFinish, RecoverRead, RecoverLookup, RecoverRelease, RecoverGiveUp
<1>2. ASSUME Route = "ring", rec'.kevin_redirect_nonce = None PROVE OffStreams'
  <2>1. CASE rec.kevin_redirect_nonce = None
    <3>1. OffStreams /\ ~RedirectCall
      BY <1>0, <1>2, <2>1 DEF RingKeepsTheCaller, RedirectCall
    <3> QED BY <3>1, OffStaysUnredirected
  <2>2. CASE rec.kevin_redirect_nonce # None
    <3>1. Stored(rec, attempt + 1).kevin_redirect_nonce = attempt + 1
      BY <1>0 DEF Stored, Record
    <3>2. Served(rec).kevin_redirect_nonce = rec.kevin_redirect_nonce
      BY <1>0 DEF Served, Record
    <3>3. RecoverRelease
      BY <1>0, <1>2, <2>2, <3>1, <3>2, FallbackMoves DEF FallbackSteps, SameFallback
    <3>4. OffStreams /\ ~RedirectCall
      BY <3>3 DEF RecoverRelease, RedirectCall, RingKeepsTheCaller
    <3> QED BY <3>4, OffStaysUnredirected
  <2> QED BY <2>1, <2>2
<1>3. ASSUME ring' = "release" PROVE OffStreams'
  <2>1. CASE ring = "release"
    <3>1. OffStreams /\ ~RedirectCall
      BY <2>1 DEF RingKeepsTheCaller, RedirectCall
    <3> QED BY <3>1, OffStaysUnredirected
  <2>2. CASE ring # "release"
    <3>1. RecoverLookup
      BY <1>3, <2>2, RingMoves
         DEF RingStep, RingPush, RingSeesIntent, RingTimeout, RingDecide, RedirectStore, RedirectCall,
             RedirectFinish, RecoverRead, RecoverLookup, RecoverRelease, RecoverGiveUp, HandOff, NotRedirected
    <3>2. OffStreams /\ ~RedirectCall
      BY <1>3, <3>1 DEF RecoverLookup, RedirectCall, RingKeepsTheCaller
    <3> QED BY <3>2, OffStaysUnredirected
  <2> QED BY <2>1, <2>2
<1>4. ASSUME ring' = "redirect"
      PROVE  /\ rec'.kevin_redirect_status = "pending" /\ rec'.owner_action # "accept"
             /\ rec'.kevin_redirect_nonce = attempt' /\ rec'.ws_token = attempt'
             /\ streams'[attempt'] = "off" /\ caller' # OnStream(attempt')
  <2>1. CASE RedirectStore
    <3>1. StillRinging(rec) /\ rec' = Stored(rec, attempt + 1) /\ attempt' = attempt + 1
      BY <1>4, <2>1, StoreFits
    <3>2. /\ rec'.kevin_redirect_status = "pending" /\ rec'.owner_action # "accept"
          /\ rec'.kevin_redirect_nonce = attempt' /\ rec'.ws_token = attempt'
      BY <1>0, <3>1 DEF Stored, StillRinging, Record
    <3>3. UNCHANGED <<caller, streams>>
      BY <2>1 DEF RedirectStore
    <3>4. attempt + 1 \in Tokens /\ attempt + 1 > attempt
      BY <1>0, <2>1, BoundsAssumption DEF RedirectStore, Tokens
    <3>5. streams[attempt + 1] = "off"
      BY <3>4 DEF TokensAreOfAttempts
    <3>6. rec.ws_token # attempt + 1
      <4>1. rec.ws_token \in {None} \cup Nat
        BY <1>0 DEF Record
      <4> QED BY <1>0, <3>4, <4>1 DEF TokensAreOfAttempts
    <3>7. caller # OnStream(attempt + 1)
      BY <3>4, <3>6 DEF TokensAreOfAttempts
    <3> QED BY <3>1, <3>2, <3>3, <3>5, <3>7
  <2>2. CASE ~RedirectStore
    <3>1. ring = "redirect" /\ attempt' = attempt /\ ~RingStep
      BY <1>4, <2>2, RingMoves
         DEF RingStep, RingPush, RingSeesIntent, RingTimeout, RingDecide, RedirectCall, RedirectFinish,
             RecoverRead, RecoverLookup, RecoverRelease, RecoverGiveUp, HandOff, NotRedirected
    <3>2. /\ rec.kevin_redirect_status = "pending" /\ rec.owner_action # "accept"
          /\ rec.kevin_redirect_nonce = attempt /\ rec.ws_token = attempt
          /\ streams[attempt] = "off" /\ caller # OnStream(attempt)
      BY <3>1 DEF RingKeepsTheCaller
    <3>3. SameFallback(rec, rec')
      BY <3>1, <3>2, FallbackMoves DEF FallbackSteps, RingStep, FallbackMatches, StreamConfirm
    <3>4. rec'.owner_action # "accept"
      <4>1. \A a : ~same_claim(rec, a)
        BY <3>2 DEF same_claim
      <4>2. ~Claimable(rec)
        BY <3>2 DEF Claimable
      <4>3. \A status : [rec EXCEPT !.owner_action_status = status].owner_action = rec.owner_action
        BY <1>0 DEF Record
      <4>4. rec'.owner_action = rec.owner_action
        BY <4>1, <4>2, <4>3, ClaimMoves DEF ClaimSteps, SameDecision, SameClaimFields
      <4> QED BY <3>2, <4>4
    <3>5. caller' # OnStream(attempt)
      BY <3>1, <3>2, CallerMoves, PlacesApart DEF CallerSteps, RingStep
    <3>6. streams'[attempt] = "off"
      BY <1>0, <3>2, StreamMoves DEF StreamSteps, StreamStart
    <3> QED BY <3>1, <3>2, <3>3, <3>4, <3>5, <3>6 DEF SameFallback
  <2> QED BY <2>1, <2>2
<1>5. ASSUME caller' = InConf(FirstConf) PROVE OffStreams'
  <2>1. caller = InConf(FirstConf)
    BY <1>5, CallerMoves, PlacesApart, RequestsAssumption DEF CallerSteps
  <2>2. OffStreams
    BY <2>1 DEF RingKeepsTheCaller
  <2> QED BY <1>5, <2>2, PlacesApart, OffStays
<1> QED BY <1>1, <1>2, <1>3, <1>4, <1>5 DEF RingKeepsTheCaller

\* What a step does to one stream's consumer: nothing, it gives up or goes on, it reads the record's claim,
\* or it announces the claim that it read (_consume_message_intent).
ConsumerSteps ==
    \A t \in Tokens :
        \/ /\ consume'[t] \notin Acting /\ delivered'[t] = delivered[t]
           /\ intent'[t] \in {intent[t], None}
        \/ /\ intent'[t] = intent[t] /\ delivered'[t] = delivered[t]
           /\ \/ consume'[t] = consume[t]
              \/ consume[t] = "confirm" /\ consume'[t] = "guard"
              \/ consume[t] = "confirm" /\ consume'[t] = "ack" /\ delivered[t] = intent[t]
              \/ consume[t] = "guard" /\ consume'[t] = "deliver"
              \/ consume[t] = "ack" /\ consume'[t] = "acknowledge" /\ streams[t] = "up"
        \/ /\ intent'[t] # None => MessageClaimed' /\ intent'[t].claim_nonce = rec'.claim_nonce
           /\ delivered'[t] = delivered[t]
           /\ consume'[t] = "intent" \/ (consume'[t] = "confirm" /\ intent'[t] # None)
        \/ /\ consume[t] = "deliver" /\ consume'[t] = "ack"
           /\ intent'[t] = intent[t] /\ delivered'[t] = intent[t]

\* Every step of the engine does one of these to each consumer.
LEMMA ConsumerMoves == ASSUME IInv, [Next]_vars PROVE ConsumerSteps
<1>0. /\ GoodRecord(rec)
      /\ consume \in [Tokens -> {"idle", "adopt", "claim", "intent", "owed", "confirm",
                                "guard", "deliver", "ack", "acknowledge", "cleanup"}]
      /\ intent \in [Tokens -> {None} \cup Intent]
      /\ delivered \in [Tokens -> {None} \cup Intent]
  BY DEF IInv, TypeOK, SharedTypeOK, MessageTypeOK, GoodRecord
<1>1. CASE UNCHANGED <<consume, intent, delivered>>
  BY <1>1 DEF ConsumerSteps
<1>2. ASSUME NEW t \in Tokens,
             ConsumeOwed(t) \/ ConsumeConfirm(t) \/ ConsumeGuard(t) \/ ConsumeAck(t)
      PROVE  ConsumerSteps
  <2>1. Remembers(t) /\ UNCHANGED delivered
    BY <1>2 DEF ConsumeOwed, ConsumeConfirm, ConsumeGuard, ConsumeAck, ConsumeReads
  <2>2. PICK step :
          /\ consume' = [consume EXCEPT ![t] = step]
          /\ \/ step \in {"idle", "cleanup"}
             \/ consume[t] = "confirm" /\ step = "guard"
             \/ consume[t] = "confirm" /\ step = "ack" /\ delivered[t] = intent[t]
             \/ consume[t] = "guard" /\ step = "deliver"
             \/ consume[t] = "ack" /\ step = "acknowledge" /\ streams[t] = "up"
    BY <1>2 DEF ConsumeOwed, ConsumeConfirm, ConsumeGuard, ConsumeAck, ConsumeReads, ConsumeTo, Guarded
  <2> QED BY <1>0, <2>1, <2>2 DEF Remembers, ConsumerSteps, Acting
<1>3. ASSUME NEW t \in Tokens, ConsumeIntent(t) PROVE ConsumerSteps
  <2> DEFINE found == message_intent_from_record(rec, Requested)
  <2>1. found # None => MessageClaimed /\ found.claim_nonce = rec.claim_nonce
    BY <1>0 DEF message_intent_from_record, MessageClaimed
  <2>2. \/ /\ found # None /\ intent' = [intent EXCEPT ![t] = found]
           /\ consume' = [consume EXCEPT ![t] = "confirm"]
        \/ Remembers(t) /\ \E step \in {"owed", "idle"} : consume' = [consume EXCEPT ![t] = step]
    BY <1>3 DEF ConsumeIntent, ConsumeTo
  <2>3. UNCHANGED <<rec, delivered>>
    BY <1>3 DEF ConsumeIntent, sharedVars
  <2> HIDE DEF found
  <2> QED BY <1>0, <2>1, <2>2, <2>3 DEF Remembers, ConsumerSteps, Acting, MessageClaimed
<1>7. ASSUME NEW t \in Tokens, ConsumeAdopt(t) \/ ConsumeClaim(t) PROVE ConsumerSteps
  <2>1. UNCHANGED delivered
    BY <1>7 DEF ConsumeAdopt, ConsumeClaim
  <2> QED BY <1>0, <1>7, <2>1, SnapshotTypes DEF ConsumerSteps, Acting
<1>8. ASSUME NEW t \in Tokens, ConsumeCommand(t) \/ ConsumeAcknowledge(t) \/ ConsumeCleanup(t)
      PROVE  ConsumerSteps
  <2>1. PICK step \in {"intent", "adopt", "cleanup", "idle"} : consume' = [consume EXCEPT ![t] = step]
    BY <1>8 DEF ConsumeCommand, ConsumeAcknowledge, ConsumeCleanup, ConsumeTo
  <2>2. (UNCHANGED intent \/ Remembers(t)) /\ UNCHANGED delivered
    BY <1>8 DEF ConsumeCommand, ConsumeAcknowledge, ConsumeCleanup
  <2> QED BY <1>0, <2>1, <2>2 DEF Remembers, ConsumerSteps, Acting
<1>4. ASSUME NEW t \in Tokens, ConsumeDeliver(t) PROVE ConsumerSteps
  BY <1>0, <1>4 DEF ConsumeDeliver, ConsumeTo, Remembers, ConsumerSteps, Acting
<1>5. ASSUME MessageNext, \A t \in Tokens : ~ConsumeStep(t) PROVE UNCHANGED <<consume, intent, delivered>>
  BY <1>5 DEF MessageNext, DeclineClaim, PublishStep, PublishReserve, PublishRecheck, PublishCommand,
              PublishRecord, TimerStart, TimerStep, TimerDeadline, TimerRecheck, TimerArbitrate,
              TimerPublished, TimerSettle, TimerEnds, LegacyDecline
<1>6. ASSUME UNCHANGED messageVars PROVE UNCHANGED <<consume, intent, delivered>>
  BY <1>6 DEF messageVars
<1> QED BY <1>1, <1>2, <1>3, <1>4, <1>5, <1>6, <1>7, <1>8 DEF Next, ConsumeStep, vars

\* A stream read the claim on the record, which no one replaces; what is acknowledged was announced
\* (_consume_message_intent, acknowledge_owner_action).
LEMMA AnnouncementsStayFit ==
    ASSUME IInv, AnnouncementsFit, TokensAreOfAttempts, RingKeepsTheCaller, [Next]_vars PROVE AnnouncementsFit'
<1>0. /\ rec \in Record
      /\ consume \in [Tokens -> {"idle", "adopt", "claim", "intent", "owed", "confirm",
                                "guard", "deliver", "ack", "acknowledge", "cleanup"}]
      /\ intent \in [Tokens -> {None} \cup Intent]
      /\ delivered \in [Tokens -> {None} \cup Intent]
  BY DEF IInv, TypeOK, SharedTypeOK, MessageTypeOK
<1>1. MessageClaimed => MessageClaimed' /\ rec'.claim_nonce = rec.claim_nonce
  BY MessageClaimStays, StepEvolves DEF MessageClaimed, Evolves, Keeps, Decided
<1>2. ConsumerSteps
  BY ConsumerMoves
<1>3. \A t \in Tokens : intent'[t] # None => MessageClaimed' /\ intent'[t].claim_nonce = rec'.claim_nonce
  BY <1>1, <1>2 DEF ConsumerSteps, AnnouncementsFit, IInv, MessageOwns
<1>4. ASSUME NEW t \in Tokens, delivered'[t] # None
      PROVE  MessageClaimed /\ delivered'[t].claim_nonce = rec.claim_nonce
  BY <1>2, <1>4 DEF ConsumerSteps, AnnouncementsFit, IInv, MessageOwns, Acting
<1>5. ASSUME NEW t \in Tokens, consume'[t] \in {"ack", "acknowledge"} PROVE delivered'[t] = intent'[t]
  BY <1>2, <1>5 DEF ConsumerSteps, AnnouncementsFit, Acting
<1>6. ASSUME NEW t \in Tokens, consume'[t] \in Acting PROVE intent'[t] # None
  BY <1>2, <1>6 DEF ConsumerSteps, AnnouncementsFit, Acting
<1>8. ASSUME NEW t \in Tokens, consume'[t] = "acknowledge" PROVE streams'[t] # "off"
  <2>1. streams[t] # "off"
    BY <1>2, <1>8 DEF ConsumerSteps, AnnouncementsFit, Acting
  <2> QED BY <2>1, StreamMoves DEF StreamSteps
<1>7. ASSUME rec'.owner_action_status = "taking_message"
      PROVE  \E t \in Tokens : rec'.ws_token = t /\ delivered'[t] # None /\ streams'[t] # "off"
  <2>1. PICK t \in Tokens : rec.ws_token = t /\ delivered[t] # None /\ streams[t] # "off"
    <3>1. CASE rec.owner_action_status = "taking_message"
      BY <3>1 DEF AnnouncementsFit
    <3>2. CASE rec.owner_action_status # "taking_message"
      <4>1. ~SameDecision(rec, rec')
        BY <1>7, <3>2 DEF SameDecision
      <4>2. ASSUME NEW b, NEW op, rec' = ClaimedAccept(rec, op, b) \/ rec' = Given(rec, b) PROVE FALSE
        <5>1. None # "taking_message"
          BY RequestsAssumption
        <5>2. CASE rec' = ClaimedAccept(rec, op, b)
          BY <1>0, <1>7, <5>2 DEF ClaimedAccept, Record
        <5>3. CASE rec' = Given(rec, b)
          BY <1>0, <1>7, <5>1, <5>3 DEF Given, Record
        <5> QED BY <4>2, <5>2, <5>3
      <4>3. ASSUME NEW action, NEW op, NEW nonce, rec' = ClaimedMessage(rec, action, op, nonce) PROVE FALSE
        BY <1>0, <1>7, <4>3 DEF ClaimedMessage, Record
      <4>4. ASSUME NEW status \in {"accepted", "uncertain"}, rec' = [rec EXCEPT !.owner_action_status = status]
            PROVE  FALSE
        BY <1>0, <1>7, <4>4 DEF Record
      <4>5. ASSUME rec' = [rec EXCEPT !.accepted = TRUE, !.redirect_started = TRUE] PROVE FALSE
        BY <1>0, <1>7, <3>2, <4>5 DEF Record
      <4>6. PICK t \in Tokens : ConsumeAcknowledge(t) /\ Names(t, AnyMessage)
        BY <4>1, <4>2, <4>3, <4>4, <4>5, ClaimMoves DEF ClaimSteps
      <4>7. delivered[t] # None /\ streams[t] # "off"
        BY <4>6 DEF ConsumeAcknowledge, AnnouncementsFit, Acting
      <4> QED BY <4>6, <4>7 DEF Names
    <3> QED BY <3>1, <3>2
  <2>2. streams'[t] # "off"
    BY <2>1, StreamMoves DEF StreamSteps
  <2>3. delivered'[t] # None
    BY <1>2, <2>1 DEF ConsumerSteps, AnnouncementsFit, Acting
  <2>4. rec'.ws_token = t
    <3>1. ~OffStreams
      BY <2>1 DEF OffStreams
    <3>2. ~(RedirectStore /\ rec.kevin_redirect_nonce = None)
      BY <3>1, BoundsAssumption DEF RedirectStore, RingKeepsTheCaller
    <3>3. Freed(rec).ws_token = rec.ws_token /\ Served(rec).ws_token = rec.ws_token
      BY <1>0 DEF Freed, Served, Record
    <3> QED BY <2>1, <3>2, <3>3, FallbackMoves DEF FallbackSteps, SameFallback
  <2> QED BY <2>2, <2>3, <2>4
<1> QED BY <1>0, <1>1, <1>3, <1>4, <1>5, <1>6, <1>7, <1>8 DEF AnnouncementsFit

-----------------------------------------------------------------------------
(* The invariant, and what it shows.                                       *)

\* A call that has just been admitted has neither claim, stream nor redirect (_prepare_direct_call,
\* _post_routing_tasks).
LEMMA InitParts == Init => CallParts
<1> SUFFICES ASSUME Init PROVE CallParts
  OBVIOUS
<1>1. rec = InitialRecord /\ streams = [t \in Tokens |-> "off"] /\ attempt = 0
  BY DEF Init, SharedInit, FallbackInit
<1>2. caller = IF Route = "screening" THEN OnStream(0) ELSE InConf(FirstConf)
  BY DEF Init, SharedInit
<1>3. /\ accept = [a \in Accepts |-> "idle"] /\ poll = [q \in Polls |-> "idle"] /\ granted = {}
      /\ ring = IF Route = "ring" THEN "push" ELSE "done"
  BY DEF Init, PickupInit, FallbackInit
<1>4. /\ consume = [t \in Tokens |-> "idle"]
      /\ intent = [t \in Tokens |-> None] /\ delivered = [t \in Tokens |-> None]
  BY DEF Init, MessageInit
<1>5. ClaimFits(rec) /\ NonceIsOfItsPost
  BY <1>1, <1>3, RequestsAssumption DEF InitialRecord, ClaimFits, NonceIsOfItsPost, Nonces
<1>6. OwnersAreWith
  BY <1>1, <1>2, <1>3, PlacesApart, RequestsAssumption DEF InitialRecord, OwnersAreWith
<1>7. Tokens \subseteq Nat /\ Route \in {"screening", "ring"}
  BY BoundsAssumption DEF Tokens
<1>8. TokensAreOfAttempts
  BY <1>1, <1>2, <1>7, PlacesApart DEF InitialRecord, TokensAreOfAttempts
<1>9. RingKeepsTheCaller
  BY <1>1, <1>2, <1>3, <1>7, PlacesApart DEF InitialRecord, RingKeepsTheCaller, OffStreams
<1>10. AnnouncementsFit
  BY <1>1, <1>4, RequestsAssumption DEF InitialRecord, AnnouncementsFit, Acting
<1> QED BY <1>5, <1>6, <1>8, <1>9, <1>10 DEF CallParts

\* Every step keeps every part.
LEMMA NextParts == ASSUME IInv, CallParts, [Next]_vars PROVE CallParts'
BY ClaimStaysFit, NonceStaysOfItsPost, OwnersStayWith, TokensStayOfAttempts, RingKeepsOn, AnnouncementsStayFit
   DEF CallParts

CallInv == IInv /\ CallParts

\* The inductive invariant of the engine, with the caller, the streams and the announcements.
LEMMA CallInvariance == Spec => []CallInv
<1>1. Init => CallInv
  BY InitIInv, InitParts DEF CallInv
<1>2. CallInv /\ [Next]_vars => CallInv'
  BY NextIInv, NextParts DEF CallInv
<1> QED BY <1>1, <1>2, PTL DEF Spec

\* For any number of devices and retries: credentials are handed out only for a conference that the caller was
\* moved to and has not left but by hanging up, and a POST that was answered "retryable" has left neither a
\* claim, nor its conference, nor a redirect behind (handle_owner_call_action, get_owner_call_action_status).
THEOREM AnswersTrue == Spec => []AnswersAreTrue
<1>1. CallInv => CredentialsAreProved
  BY DEF CallInv, CallParts, OwnersAreWith, With, CredentialsAreProved, IInv, TypeOK, PickupTypeOK
<1>2. CallInv => RetryableIsClean
  <2> SUFFICES ASSUME CallInv, NEW a \in Accepts, accept[a] = "preparation_failed"
               PROVE  rec.claim_nonce # a /\ rec.conference_name # a /\ a \notin redirected
    BY DEF RetryableIsClean
  <2>1. rec.claim_nonce # a
    BY DEF CallInv, CallParts, NonceIsOfItsPost
  <2>2. a \notin redirected
    BY <2>1 DEF CallInv, IInv, RedirectOwns, Owns
  <2>3. rec.conference_name # a
    BY <2>1, RequestsAssumption DEF CallInv, CallParts, ClaimFits, IInv, ClaimShape
  <2> QED BY <2>1, <2>2, <2>3
<1>3. CallInv => AnswersAreTrue
  BY <1>1, <1>2 DEF AnswersAreTrue
<1> QED BY <1>3, CallInvariance, PTL

\* The record says "taking_message" only where the stream that holds the call's token has announced exactly
\* the claim on the record, whatever raced with it (acknowledge_owner_action).
THEOREM TakingMessageAnnounced == Spec => []TakingMessageWasAnnounced
<1>1. CallInv => TakingMessageWasAnnounced
  BY DEF CallInv, CallParts, AnnouncementsFit, TakingMessageWasAnnounced
<1> QED BY <1>1, CallInvariance, PTL

\* A caller whom Kevin has is on the stream whose token the record holds, however often the hand-off was
\* retried or taken back (_async_redirect_to_kevin, release_stranded_fallback_redirect).
THEOREM ServedStreamOwns == Spec => []ServedStreamOwnsToken
<1>1. CallInv => ServedStreamOwnsToken
  BY DEF CallInv, CallParts, TokensAreOfAttempts, ServedStreamOwnsToken
<1> QED BY <1>1, CallInvariance, PTL

\* Nobody moves a caller away from the owner who took the call (_redirect, _async_redirect_to_kevin).
THEOREM PickupKept == Spec => PickupIsKept
<1>1. CallInv /\ [Next]_vars => [\A a \in Accepts : caller = InConf(a) => caller' \in {InConf(a), Gone}]_vars
  <2> SUFFICES ASSUME CallInv, [Next]_vars, NEW a \in Accepts, caller = InConf(a)
               PROVE  caller' \in {InConf(a), Gone}
    OBVIOUS
  <2>1. With(a)
    BY DEF CallInv, CallParts, OwnersAreWith, With
  <2> QED BY <2>1, WithStays DEF CallInv, CallParts, With
<1> QED BY <1>1, CallInvariance, PTL DEF Spec, PickupIsKept

-----------------------------------------------------------------------------
(* The engine implements the arbitration it promises.                      *)

\* The decision, by the fields of the claim (reduce_active_call_action).
DecisionFits ==
    /\ rec.owner_action = None => Decision = "open"
    /\ rec.owner_action = "accept" /\ ~rec.redirect_started => Decision = "preparing"
    /\ rec.owner_action = "accept" /\ rec.redirect_started => Decision = "pickup"
    /\ rec.owner_action \notin {None, "accept"} => Decision = "message"

\* The place, by the caller's leg (_redirect).
PlaceFits ==
    /\ caller = Gone => Place = "gone"
    /\ caller = InConf(FirstConf) => Place = "ringing"
    /\ \A t \in Tokens : caller = OnStream(t) => Place = "kevin"
    /\ \A a \in Accepts : caller = InConf(a) => Place = "owner"

\* Decision reads the claim as DecisionFits says.
LEMMA DecisionOf == DecisionFits
<1>1. None # "accept"
  BY RequestsAssumption
<1>2. rec.owner_action = None => Decision = "open"
  BY <1>1, Zenon DEF Decision
<1>3. rec.owner_action = "accept" /\ ~rec.redirect_started => Decision = "preparing"
  BY <1>1, Zenon DEF Decision
<1>4. rec.owner_action = "accept" /\ rec.redirect_started => Decision = "pickup"
  BY <1>1, Zenon DEF Decision
<1>5. rec.owner_action \notin {None, "accept"} => Decision = "message"
  BY <1>1, Zenon DEF Decision
<1> QED BY <1>2, <1>3, <1>4, <1>5 DEF DecisionFits

\* Place reads the leg as PlaceFits says.
LEMMA PlaceOf == PlaceFits
<1>1. caller = Gone => Place = "gone"
  <2>1. caller = Gone => caller # InConf(FirstConf) /\ \A t \in Tokens : caller # OnStream(t)
    BY PlacesApart
  <2> QED BY <2>1, Zenon DEF Place
<1>2. caller = InConf(FirstConf) => Place = "ringing"
  <2>1. caller = InConf(FirstConf) => caller # Gone /\ \A t \in Tokens : caller # OnStream(t)
    BY PlacesApart
  <2> QED BY <2>1, Zenon DEF Place
<1>3. ASSUME NEW t \in Tokens, caller = OnStream(t) PROVE Place = "kevin"
  <2>1. caller # Gone /\ caller # InConf(FirstConf) /\ \E u \in Tokens : caller = OnStream(u)
    BY <1>3, PlacesApart
  <2> QED BY <2>1, Zenon DEF Place
<1>4. ASSUME NEW a \in Accepts, caller = InConf(a) PROVE Place = "owner"
  <2>1. caller # Gone /\ caller # InConf(FirstConf) /\ ~\E t \in Tokens : caller = OnStream(t)
    BY <1>4, PlacesApart, RequestsAssumption
  <2> QED BY <2>1, Zenon DEF Place
<1> QED BY <1>1, <1>2, <1>3, <1>4 DEF PlaceFits

\* Before and after a step.
LEMMA Readings == DecisionFits /\ PlaceFits /\ DecisionFits' /\ PlaceFits'
<1>1. DecisionFits /\ PlaceFits
  BY DecisionOf, PlaceOf
<1> QED BY <1>1, PTL

\* The caller hears of a message only from the stream he is on (_consume_message_intent).
HeardSteps ==
    \/ UNCHANGED heard
    \/ \E t \in Tokens :
          /\ consume[t] = "deliver" /\ caller = OnStream(t) /\ UNCHANGED <<rec, caller>>
          /\ heard' = heard \cup {intent[t]}

\* Nothing else is told to the caller.
LEMMA HeardMoves == ASSUME [Next]_vars PROVE HeardSteps
<1>1. ASSUME NEW t \in Tokens, ConsumeDeliver(t) PROVE HeardSteps
  BY <1>1 DEF ConsumeDeliver, HeardSteps, sharedVars
<1>2. ASSUME NEW t \in Tokens, ConsumeStep(t), ~ConsumeDeliver(t) PROVE UNCHANGED heard
  BY <1>2 DEF ConsumeStep, ConsumeCommand, ConsumeAdopt, ConsumeClaim, ConsumeIntent, ConsumeReads,
              ConsumeOwed, ConsumeConfirm, ConsumeGuard, ConsumeAck, ConsumeAcknowledge, ConsumeCleanup
<1>3. ASSUME MessageNext, \A t \in Tokens : ~ConsumeStep(t) PROVE UNCHANGED heard
  BY <1>3 DEF MessageNext, DeclineClaim, PublishStep, PublishReserve, PublishRecheck, PublishCommand,
              PublishRecord, TimerStart, TimerStep, TimerDeadline, TimerRecheck, TimerArbitrate,
              TimerPublished, TimerSettle, TimerEnds, LegacyDecline
<1>4. ASSUME UNCHANGED messageVars PROVE UNCHANGED heard
  BY <1>4 DEF messageVars
<1> QED BY <1>1, <1>2, <1>3, <1>4 DEF Next, vars, HeardSteps

\* What a step that leaves the caller alone does to the decision.
LEMMA DecisionMoves ==
    ASSUME IInv, [Next]_vars
    PROVE  \/ SameDecision(rec, rec')
           \/ /\ UNCHANGED caller
              /\ \/ Decision' = Decision
                 \/ Decision = "open" /\ Decision' \in {"preparing", "message"}
                 \/ Decision = "preparing" /\ Decision' \in {"open", "pickup"}
<1> DEFINE Moves == /\ UNCHANGED caller
                    /\ \/ Decision' = Decision
                       \/ Decision = "open" /\ Decision' \in {"preparing", "message"}
                       \/ Decision = "preparing" /\ Decision' \in {"open", "pickup"}
<1>0. rec \in Record /\ ClaimShape(rec) /\ None \notin {"accept", "decline", "timeout"}
  BY NoneIsApart DEF IInv, TypeOK, SharedTypeOK
<1>1. DecisionFits /\ DecisionFits'
  BY Readings
<1>2. ASSUME NEW a \in Accepts, AcceptClaim(a), Claimable(rec), rec' = ClaimedAccept(rec, OpOf[a], a) PROVE Moves
  <2>1. rec.owner_action = None /\ ~rec.redirect_started
    BY <1>0, <1>2 DEF Claimable, ClaimShape
  <2>2. rec'.owner_action = "accept" /\ ~rec'.redirect_started
    BY <1>0, <1>2, <2>1 DEF ClaimedAccept, Record
  <2>3. UNCHANGED caller
    BY <1>2 DEF AcceptClaim
  <2> QED BY <1>1, <2>1, <2>2, <2>3 DEF DecisionFits
<1>3. ASSUME NEW a \in Accepts, AcceptMark(a), same_claim(rec, a),
             rec' = [rec EXCEPT !.accepted = TRUE, !.redirect_started = TRUE]
      PROVE  Moves
  <2>1. rec.owner_action = "accept" /\ rec'.owner_action = "accept" /\ rec'.redirect_started
    BY <1>0, <1>3 DEF same_claim, Record
  <2>2. UNCHANGED caller
    BY <1>3 DEF AcceptMark
  <2>3. Decision \in {"preparing", "pickup"} /\ Decision' = "pickup"
    BY <1>1, <2>1 DEF DecisionFits
  <2> QED BY <2>2, <2>3
<1>4. ASSUME NEW a \in Accepts, AcceptRelease(a), same_claim(rec, a), ~rec.redirect_started, rec' = Given(rec, a)
      PROVE  Moves
  <2>1. rec.owner_action = "accept" /\ rec'.owner_action = None
    BY <1>0, <1>4 DEF same_claim, Given, Record
  <2>2. UNCHANGED caller
    BY <1>4 DEF AcceptRelease
  <2> QED BY <1>1, <1>4, <2>1, <2>2 DEF DecisionFits
<1>5. ASSUME Claimable(rec), UNCHANGED caller, NEW action \in {"decline", "timeout"}, NEW op, NEW nonce,
             rec' = ClaimedMessage(rec, action, op, nonce)
      PROVE  Moves
  <2>1. rec.owner_action = None /\ rec'.owner_action = action
    BY <1>0, <1>5 DEF Claimable, ClaimedMessage, Record
  <2> QED BY <1>0, <1>1, <1>5, <2>1 DEF DecisionFits
<1>6. ASSUME UNCHANGED caller, NEW status, rec' = [rec EXCEPT !.owner_action_status = status] PROVE Moves
  <2>1. rec'.owner_action = rec.owner_action /\ rec'.redirect_started = rec.redirect_started
    BY <1>0, <1>6 DEF Record
  <2>2. Decision' = Decision
    BY <2>1, Zenon DEF Decision
  <2> QED BY <1>6, <2>2
<1>7. \A a \in Accepts, status \in {"accepted", "uncertain"} : Finishes(a, status) => UNCHANGED caller
  BY DEF Finishes, AcceptFinish, AcceptFinishUncertain, PollFinish
<1>8. \A t \in Tokens : ConsumeAcknowledge(t) => UNCHANGED caller
  BY DEF ConsumeAcknowledge
<1> HIDE DEF Moves
<1>9. SameDecision(rec, rec') \/ Moves
  BY <1>2, <1>3, <1>4, <1>5, <1>6, <1>7, <1>8, ClaimMoves DEF ClaimSteps
<1> QED BY <1>9 DEF Moves

\* A step of the engine is a step of the arbitration, or none.
LEMMA ArbitrationStep == CallInv /\ [Next]_vars => [Arbitration!Next]_(Arbitration!vars)
<1> SUFFICES ASSUME CallInv, [Next]_vars PROVE [Arbitration!Next]_(Arbitration!vars)
  OBVIOUS
<1> DEFINE told == heard # {}
<1>0. IInv /\ OwnersAreWith /\ RingKeepsTheCaller /\ TokensAreOfAttempts
  BY DEF CallInv, CallParts
<1>1. DecisionFits /\ PlaceFits /\ DecisionFits' /\ PlaceFits'
  BY Readings
<1>2. SameDecision(rec, rec') => Decision' = Decision
  <2>1. SameDecision(rec, rec') => rec'.owner_action = rec.owner_action /\ rec'.redirect_started = rec.redirect_started
    BY DEF SameDecision, SameClaimFields
  <2> QED BY <2>1, Zenon DEF Decision
<1>3. caller' = caller => Place' = Place
  BY Zenon DEF Place
<1>4. CASE told' # told
  <2>1. PICK t \in Tokens : /\ consume[t] = "deliver" /\ caller = OnStream(t) /\ UNCHANGED <<rec, caller>>
                            /\ heard' = heard \cup {intent[t]}
    BY <1>4, HeardMoves DEF HeardSteps
  <2>2. MessageClaimed /\ heard' # {}
    BY <1>0, <2>1 DEF IInv, MessageOwns, Acting
  <2>3. Decision = "message" /\ Decision' = Decision
    BY <1>1, <1>2, <2>1, <2>2, NoneIsApart DEF MessageClaimed, DecisionFits, SameDecision, SameClaimFields
  <2>4. Place = "kevin" /\ Place' = Place
    BY <1>1, <1>3, <2>1 DEF PlaceFits
  <2> QED BY <2>2, <2>3, <2>4 DEF Arbitration!Next, Arbitration!Tell
<1>5. CASE told' = told /\ caller' # caller
  <2>1. Decision' = Decision
    BY <1>0, <1>2, <1>5, DecisionMoves
  <2>2. CASE caller' = Gone
    BY <1>1, <1>5, <2>1, <2>2 DEF PlaceFits, Arbitration!Next, Arbitration!Leave
  <2>3. ASSUME NEW a \in Accepts, caller # Gone, AcceptRedirect(a), caller' = InConf(a)
        PROVE  Arbitration!MoveToOwner
    <3>1. Owns(a)
      BY <1>0, <2>3 DEF AcceptRedirect, IInv, RedirectOwns
    <3>2. ASSUME NEW b \in Accepts, caller = InConf(b) PROVE FALSE
      <4>1. Owns(b)
        BY <1>0, <3>2 DEF OwnersAreWith, IInv, RedirectOwns
      <4> QED BY <1>5, <2>3, <3>1, <3>2, <4>1 DEF Owns
    <3>3. caller = InConf(FirstConf) \/ \E t \in Tokens : caller = OnStream(t)
      BY <1>0, <2>3, <3>2 DEF IInv, TypeOK, SharedTypeOK, Places, Confs
    <3>4. Place \in {"ringing", "kevin"} /\ Place' = "owner"
      BY <1>1, <2>3, <3>3 DEF PlaceFits
    <3>5. Decision = "pickup"
      BY <1>1, <3>1 DEF Owns, DecisionFits
    <3> QED BY <1>5, <2>1, <3>4, <3>5 DEF Arbitration!MoveToOwner
  <2>4. ASSUME caller # Gone, RedirectCall, caller' = OnStream(attempt) PROVE Arbitration!MoveToKevin
    <3>1. rec.owner_action # "accept" /\ rec.ws_token = attempt
      BY <1>0, <2>4 DEF RedirectCall, RingKeepsTheCaller
    <3>2. ASSUME NEW b \in Accepts, caller = InConf(b) PROVE FALSE
      BY <1>0, <3>1, <3>2 DEF OwnersAreWith, IInv, RedirectOwns, Owns
    <3>3. ASSUME NEW t \in Tokens, caller = OnStream(t) PROVE FALSE
      BY <1>0, <1>5, <2>4, <3>1, <3>3 DEF TokensAreOfAttempts
    <3>4. caller = InConf(FirstConf)
      BY <1>0, <2>4, <3>2, <3>3 DEF IInv, TypeOK, SharedTypeOK, Places, Confs
    <3>5. attempt \in Tokens
      BY <1>0, BoundsAssumption DEF IInv, TypeOK, FallbackTypeOK, Tokens
    <3>6. Place = "ringing" /\ Place' = "kevin"
      BY <1>1, <2>4, <3>4, <3>5 DEF PlaceFits
    <3>7. Decision \in {"open", "message"}
      BY <1>1, <3>1 DEF DecisionFits
    <3> QED BY <1>5, <2>1, <3>6, <3>7 DEF Arbitration!MoveToKevin
  <2> QED BY <1>5, <2>2, <2>3, <2>4, CallerMoves DEF CallerSteps, Arbitration!Next
<1>6. CASE told' = told /\ caller' = caller
  <2>1. Place' = Place
    BY <1>3, <1>6
  <2>2. \/ Decision' = Decision
        \/ Decision = "open" /\ Decision' \in {"preparing", "message"}
        \/ Decision = "preparing" /\ Decision' \in {"open", "pickup"}
    BY <1>0, <1>2, DecisionMoves
  <2> QED BY <1>6, <2>1, <2>2
          DEF Arbitration!Next, Arbitration!Prepare, Arbitration!GiveBack, Arbitration!PickUp,
              Arbitration!TakeMessage, Arbitration!vars
<1> QED BY <1>4, <1>5, <1>6

\* For any number of devices, retries, polls and attempts, the engine does what CallArbitration promises: one
\* decision, prepared and given back but final once it is out of its preparation; the caller moved to the owner
\* only by a pickup and to Kevin only without one, and told of a message only by a message
\* (reduce_active_call_action, _mark_redirect_started, _consume_message_intent).
THEOREM ArbitrationIsImplemented == Spec => ArbitrationSpec
<1>1. Init => Arbitration!Init
  <2> SUFFICES ASSUME Init PROVE Arbitration!Init
    OBVIOUS
  <2>1. DecisionFits /\ PlaceFits
    BY Readings
  <2>2. Decision = "open"
    BY <2>1 DEF Init, SharedInit, InitialRecord, DecisionFits
  <2>3. Place \in {"ringing", "kevin"}
    BY <2>1, BoundsAssumption DEF Init, SharedInit, PlaceFits, Tokens
  <2>4. (heard # {}) = FALSE
    BY DEF Init, MessageInit
  <2> QED BY <2>2, <2>3, <2>4 DEF Arbitration!Init
<1> QED BY <1>1, CallInvariance, ArbitrationStep, PTL DEF Spec, ArbitrationSpec, Arbitration!Spec
=============================================================================
