------------------------------ MODULE OwnerPickup ------------------------------
(***************************************************************************)
(* The accept half of src/app/services/owner_call_actions.py: the POST     *)
(* that takes a call for the owner (handle_owner_call_action), and the GET *)
(* that reports on it and settles what the POST left open                  *)
(* (get_owner_call_action_status). Each await of the code is a step.       *)
(***************************************************************************)
EXTENDS ActiveCall

CONSTANT Polls      \* status GETs that can run at one time

VARIABLES
    accept,      \* accept POST -> where it is, or how it was answered
    poll,        \* status GET -> where it is
    pollSeen,    \* status GET -> the claim it read
    bindings,    \* registered conferences (Firestore conference_bindings)
    redirected,  \* history: POSTs that asked Twilio to move the caller
    granted      \* history: conferences whose credentials were handed out

pickupVars == <<accept, poll, pollSeen, bindings, redirected, granted>>

Answered == {"error", "unavailable", "conflict", "pending", "preparation_failed", "credentials"}
AcceptSteps == {"idle", "prepare", "check", "mark", "release", "redirect",
                "finish_uncertain", "finish_accepted"}

PickupTypeOK ==
    /\ accept \in [Accepts -> AcceptSteps \cup Answered]
    /\ poll \in [Polls -> {"idle", "lookup", "finish", "reread"}]
    /\ pollSeen \in [Polls -> {None} \cup
                       [claim_nonce : Accepts, owner_action_status : {"accepting", "uncertain"}]]
    /\ bindings \subseteq Confs
    /\ redirected \subseteq Accepts
    /\ granted \subseteq Confs

PickupInit ==
    /\ accept = [a \in Accepts |-> "idle"]
    /\ poll = [q \in Polls |-> "idle"]
    /\ pollSeen = [q \in Polls |-> None]
    /\ bindings = {FirstConf}
    /\ redirected = {}
    /\ granted = {}

Goto(a, step) == accept' = [accept EXCEPT ![a] = step]

-----------------------------------------------------------------------------
(* handle_owner_call_action, accept.                                       *)

\* What the POST does with the record its claim transaction returned.
AfterClaim(r, a) ==
    IF ~live_record(r) THEN "unavailable"
    ELSE IF r.owner_operation_id # OpOf[a] \/ r.owner_action # "accept" THEN "conflict"
    ELSE IF r.claim_nonce = a THEN "prepare"
    ELSE IF r.owner_action_status = "accepted" THEN "credentials"
    ELSE "pending"

AcceptClaim(a) ==
    /\ accept[a] = "idle"
    /\ \E outcome \in Outcomes :
         LET claimed == reduce_active_call_action(rec, "accept", OpOf[a], a)
             next    == IF outcome = "ok" THEN AfterClaim(claimed, a) ELSE "error"
         IN  /\ Commit(outcome, claimed)
             /\ Goto(a, next)
             /\ granted' = IF next = "credentials" THEN granted \cup {claimed.conference_name}
                           ELSE granted
    /\ UNCHANGED <<caller, streams, poll, pollSeen, bindings, redirected>>

\* register_conference, get_conference_binding and the token check: no other
\* handler can name this conference yet, so the three are one step.
AcceptPrepare(a) ==
    /\ accept[a] = "prepare"
    /\ \E outcome \in Outcomes :
         /\ Charge(outcome)
         /\ bindings' = IF outcome = "failed" THEN bindings ELSE bindings \cup {a}
         /\ Goto(a, IF outcome = "ok" THEN "check" ELSE "release")
    /\ UNCHANGED <<rec, caller, streams, poll, pollSeen, redirected, granted>>

\* Seeded fault: the provider is called without marking that the redirect starts.
AcceptCheckUnmarked(a) ==
    /\ accept[a] = "check"
    /\ Goto(a, IF same_claim(rec, a) THEN "redirect" ELSE "unavailable")
    /\ UNCHANGED <<sharedVars, poll, pollSeen, bindings, redirected, granted>>

\* The claim, read again before anything is done at the provider.
AcceptCheck(a) ==
    /\ accept[a] = "check"
    /\ \E outcome \in Outcomes \ {"lost"} :
         /\ Charge(outcome)
         /\ Goto(a, IF outcome # "ok" THEN "release"
                    ELSE IF same_claim(rec, a) /\ rec.owner_action_status = "accepting" THEN "mark"
                    ELSE "unavailable")
    /\ UNCHANGED <<rec, caller, streams, poll, pollSeen, bindings, redirected, granted>>

mark_redirect_started(r, a) ==
    IF same_claim(r, a) /\ r.owner_action_status = "accepting"
    THEN [r EXCEPT !.accepted = TRUE, !.redirect_started = TRUE]
    ELSE r

AcceptMark(a) ==
    /\ accept[a] = "mark"
    /\ \E outcome \in Outcomes :
         LET marked == mark_redirect_started(rec, a) IN
         /\ Commit(outcome, marked)
         /\ Goto(a, IF outcome # "ok" THEN "release"
                    ELSE IF same_claim(marked, a) /\ marked.owner_action_status = "accepting"
                            /\ marked.redirect_started THEN "redirect"
                    ELSE "unavailable")
    /\ UNCHANGED <<caller, streams, poll, pollSeen, bindings, redirected, granted>>

\* Seeded fault: the claim is given back without asking whether the redirect started.
release_any_preparation(r, a) ==
    IF same_claim(r, a) /\ r.owner_action_status = "accepting"
    THEN [r EXCEPT !.conference_name = r.previous_conference_name,
                   !.preparation_release_nonce = a, !.accepted = FALSE, !.redirect_started = FALSE,
                   !.owner_action = None, !.owner_action_status = None,
                   !.owner_operation_id = None, !.claim_nonce = None]
    ELSE r

\* Seeded fault: the previous conference is dropped before it is restored.
release_to_nowhere(r, a) ==
    IF same_claim(r, a) /\ r.owner_action_status = "accepting" /\ ~r.accepted
    THEN [r EXCEPT !.conference_name = None, !.previous_conference_name = None,
                   !.preparation_release_nonce = a,
                   !.owner_action = None, !.owner_action_status = None,
                   !.owner_operation_id = None, !.claim_nonce = None]
    ELSE r

\* Gives the claim back while the provider redirect has definitely not started.
release_preparation(r, a) ==
    IF /\ same_claim(r, a)
       /\ r.owner_action_status = "accepting"
       /\ ~r.accepted
       /\ ~r.redirect_started
    THEN [r EXCEPT !.conference_name = r.previous_conference_name,
                   !.previous_conference_name = None,
                   !.preparation_release_nonce = a,
                   !.owner_action = None, !.owner_action_status = None,
                   !.owner_operation_id = None, !.claim_nonce = None]
    ELSE r

\* Seeded fault: a release that came back is taken for a release that happened.
ReleaseAssumed(r, a) == live_record(r)

ReleaseConfirmed(r, a) ==
    /\ live_record(r)
    /\ r.owner_action = None
    /\ ~r.accepted
    /\ ~r.redirect_started
    /\ r.preparation_release_nonce = a

AcceptRelease(a) ==
    /\ accept[a] = "release"
    /\ \E outcome \in Outcomes :
         LET released == release_preparation(rec, a) IN
         /\ Commit(outcome, released)
         /\ Goto(a, IF outcome = "ok" /\ ReleaseConfirmed(released, a)
                    THEN "preparation_failed" ELSE "pending")
    /\ UNCHANGED <<caller, streams, poll, pollSeen, bindings, redirected, granted>>

AcceptRedirect(a) ==
    /\ accept[a] = "redirect"
    /\ \E outcome \in RedirectOutcomes :
         /\ Redirect(outcome, InConf(a))
         /\ Goto(a, IF outcome = "ok" THEN "finish_accepted" ELSE "finish_uncertain")
    /\ redirected' = redirected \cup {a}
    /\ UNCHANGED <<rec, streams, poll, pollSeen, bindings, granted>>

\* finish: the claim and its status are still the ones the caller of it read.
finish(r, a, expected, target) ==
    IF same_claim(r, a) /\ r.owner_action_status = expected
    THEN [r EXCEPT !.owner_action_status = target]
    ELSE r

AcceptFinishUncertain(a) ==
    /\ accept[a] = "finish_uncertain"
    /\ \E outcome \in Outcomes : Commit(outcome, finish(rec, a, "accepting", "uncertain"))
    /\ Goto(a, "pending")
    /\ UNCHANGED <<caller, streams, poll, pollSeen, bindings, redirected, granted>>

AcceptFinish(a) ==
    /\ accept[a] = "finish_accepted"
    /\ \E outcome \in Outcomes :
         LET final == finish(rec, a, "accepting", "accepted")
             done  == /\ outcome = "ok"
                      /\ same_claim(final, a)
                      /\ final.owner_action_status = "accepted"
         IN  /\ Commit(outcome, final)
             /\ Goto(a, IF done THEN "credentials" ELSE "pending")
             /\ granted' = IF done THEN granted \cup {a} ELSE granted
    /\ UNCHANGED <<caller, streams, poll, pollSeen, bindings, redirected>>

AcceptStep(a) ==
    \/ AcceptPrepare(a) \/ AcceptCheck(a) \/ AcceptMark(a) \/ AcceptRelease(a)
    \/ AcceptRedirect(a) \/ AcceptFinishUncertain(a) \/ AcceptFinish(a)

-----------------------------------------------------------------------------
(* get_owner_call_action_status, asked about the operation that owns the   *)
(* claim: any other operation id reads the record and changes nothing.     *)

PollAnswer(q, op) ==
    /\ poll' = [poll EXCEPT ![q] = "idle"]
    /\ pollSeen' = [pollSeen EXCEPT ![q] = None]
    /\ granted' = IF /\ live_record(rec)
                     /\ rec.owner_operation_id = op
                     /\ rec.owner_action_status = "accepted"
                  THEN granted \cup {rec.conference_name} ELSE granted

PollRead(q) ==
    /\ poll[q] = "idle"
    /\ live_record(rec)
    /\ rec.owner_action = "accept"
    /\ IF rec.owner_action_status \in {"accepting", "uncertain"}
       THEN /\ poll' = [poll EXCEPT ![q] = "lookup"]
            /\ pollSeen' = [pollSeen EXCEPT ![q] =
                              [claim_nonce |-> rec.claim_nonce,
                               owner_action_status |-> rec.owner_action_status]]
            /\ UNCHANGED granted
       ELSE PollAnswer(q, rec.owner_operation_id)
    /\ UNCHANGED <<sharedVars, accept, bindings, redirected>>

\* Seeded fault: the registration stands in for the list of participants.
conference_registered(conf) == conf \in bindings

\* The conference is registered for this call and the caller is in it.
conference_contains_call(conf) == conf \in bindings /\ caller = InConf(conf)

PollLookup(q) ==
    /\ poll[q] = "lookup"
    /\ \E outcome \in Outcomes \ {"lost"} :
         /\ Charge(outcome)
         /\ poll' = [poll EXCEPT ![q] =
                       IF outcome = "ok" /\ conference_contains_call(pollSeen[q].claim_nonce)
                       THEN "finish" ELSE "reread"]
    /\ UNCHANGED <<rec, caller, streams, accept, pollSeen, bindings, redirected, granted>>

PollFinish(q) ==
    /\ poll[q] = "finish"
    /\ \E outcome \in Outcomes :
         Commit(outcome, finish(rec, pollSeen[q].claim_nonce,
                                 pollSeen[q].owner_action_status, "accepted"))
    /\ poll' = [poll EXCEPT ![q] = "reread"]
    /\ UNCHANGED <<caller, streams, accept, pollSeen, bindings, redirected, granted>>

PollReread(q) ==
    /\ poll[q] = "reread"
    /\ PollAnswer(q, OpOf[pollSeen[q].claim_nonce])
    /\ UNCHANGED <<sharedVars, accept, bindings, redirected>>

PollStep(q) == PollLookup(q) \/ PollFinish(q) \/ PollReread(q)

PickupNext ==
    \/ \E a \in Accepts : AcceptClaim(a) \/ AcceptStep(a)
    \/ \E q \in Polls : PollRead(q) \/ PollStep(q)
=============================================================================
