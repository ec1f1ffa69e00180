------------------------------ MODULE ActiveCall ------------------------------
(***************************************************************************)
(* The durable record of one live call (RTDB /active_calls/{sid}), where   *)
(* the caller's leg really is at Twilio, and the pure callbacks that every *)
(* compare-and-swap transaction on the record is made of.                  *)
(*                                                                         *)
(* src/app/services/owner_call_actions.py holds the callbacks; the modules *)
(* OwnerPickup, MessageRequest and KevinFallback hold the handlers that    *)
(* run them, and OwnerCall composes the three.                             *)
(***************************************************************************)
EXTENDS Naturals, FiniteSets

CONSTANTS
    Accepts,      \* POSTs with action accept; each draws one fresh claim nonce,
                  \* and one fresh conference name: both are named by the POST
    Declines,     \* POSTs with action decline, likewise
    Ops,          \* client operation ids
    OpOf,         \* the operation id each POST carries
    FirstConf,    \* the conference the incoming-call webhook allocated
    None,         \* an absent field
    Route,        \* "screening": Kevin answered; "ring": the owner's phone rings
    Aging,        \* whether the call may go ten minutes without a write
    MaxAttempts,  \* bound on fallback redirects to Kevin
    MaxFaults     \* bound on failed or lost storage and provider calls

\* Claim nonces that no POST owns: the timeout arbiter, an adopted legacy command.
TimerNonce  == "timer_nonce"
LegacyNonce == "legacy_nonce"
TimeoutOp   == "timeout_op"
LegacyOp    == "legacy_decline"

Nonces   == Accepts \cup Declines \cup {TimerNonce, LegacyNonce}
AllOps   == Ops \cup {TimeoutOp, LegacyOp}
Attempts == 1 .. MaxAttempts
Tokens   == 0 .. MaxAttempts      \* 0: the token of the first screening stream
Confs    == Accepts \cup {FirstConf}

ASSUME RequestsAssumption ==
    /\ OpOf \in [Accepts \cup Declines -> AllOps]
    /\ Accepts \cap Declines = {}
    /\ {TimerNonce, LegacyNonce} \cap (Accepts \cup Declines) = {}
    /\ FirstConf \notin Accepts
    /\ None \notin Nonces \cup AllOps \cup Confs
    /\ None \notin Nat
    /\ None \notin {"accept", "decline", "timeout"}
    /\ None \notin {"accepting", "accepted", "uncertain", "message_requested", "taking_message"}
    /\ None \notin {"pending", "succeeded"}

ASSUME BoundsAssumption ==
    /\ MaxAttempts \in Nat
    /\ MaxFaults \in Nat
    /\ Route \in {"screening", "ring"}
    /\ Aging \in BOOLEAN

VARIABLES
    rec,       \* the record
    caller,    \* where Twilio holds the caller's leg
    streams,   \* media-stream sockets: token -> "off" | "confirming" | "up" | "closed"
    faults     \* storage and provider calls that have failed or lost their answer

sharedVars == <<rec, caller, streams, faults>>

InConf(c)   == <<"conf", c>>
OnStream(t) == <<"stream", t>>
Gone        == <<"gone", None>>

Record ==
    [ state                     : {"decision", "later", "gone"},
      age                       : {"fresh", "stale", "renewed"},
      owner_action              : {None, "accept", "decline", "timeout"},
      owner_operation_id        : {None} \cup AllOps,
      claim_nonce               : {None} \cup Nonces,
      owner_action_status       : {None, "accepting", "accepted", "uncertain",
                                   "message_requested", "taking_message"},
      conference_name           : Confs,
      previous_conference_name  : {None} \cup Confs,
      accepted                  : BOOLEAN,
      redirect_started          : BOOLEAN,
      preparation_release_nonce : {None} \cup Accepts,
      kevin_redirect_nonce      : {None} \cup Attempts,
      kevin_redirect_status     : {None, "pending", "succeeded"},
      ws_token                  : {None} \cup Tokens,
      projection_nonce          : {None} \cup Declines \cup {TimerNonce},
      projection_status         : {None, "attempting", "published", "blocked", "uncertain"} ]

Places == {InConf(c) : c \in Confs} \cup {OnStream(t) : t \in Tokens} \cup {Gone}

SharedTypeOK ==
    /\ rec \in Record
    /\ caller \in Places
    /\ streams \in [Tokens -> {"off", "confirming", "up", "closed"}]
    /\ faults \in 0 .. MaxFaults

\* save_active_call for a screened call, _prepare_direct_call for a ringing one.
InitialRecord ==
    [ state                     |-> "decision",
      age                       |-> "fresh",
      owner_action              |-> None,
      owner_operation_id        |-> None,
      claim_nonce               |-> None,
      owner_action_status       |-> None,
      conference_name           |-> FirstConf,
      previous_conference_name  |-> None,
      accepted                  |-> FALSE,
      redirect_started          |-> FALSE,
      preparation_release_nonce |-> None,
      kevin_redirect_nonce      |-> None,
      kevin_redirect_status     |-> None,
      ws_token                  |-> IF Route = "screening" THEN 0 ELSE None,
      projection_nonce          |-> None,
      projection_status         |-> None ]

SharedInit ==
    /\ rec = InitialRecord
    /\ caller = IF Route = "screening" THEN OnStream(0) ELSE InConf(FirstConf)
    /\ streams = [t \in Tokens |-> "off"]
    /\ faults = 0

-----------------------------------------------------------------------------
(* The callbacks. A record that was deleted keeps its fields here but is   *)
(* never live, which is all that a reader of a missing record learns.      *)

live_record(r) == r.state # "gone" /\ r.age # "stale"

\* Seeded fault: the reducer forgets that the call may be claimed already.
ClaimableTwice(r) == live_record(r) /\ r.state = "decision" /\ r.kevin_redirect_status # "pending"

\* Seeded fault: the reducer forgets that a fallback redirect may be in flight.
ClaimableInFlight(r) ==
    live_record(r) /\ r.owner_action = None /\ r.state = "decision" /\ ~r.accepted

\* reduce_active_call_action claims, and changes nothing when this is false.
Claimable(r) ==
    /\ live_record(r)
    /\ r.owner_action = None
    /\ r.state = "decision"
    /\ ~r.accepted
    /\ r.kevin_redirect_status # "pending"

ClaimedAccept(r, op, nonce) ==
    [r EXCEPT !.owner_action = "accept", !.owner_operation_id = op, !.claim_nonce = nonce,
              !.owner_action_status = "accepting", !.accepted = FALSE,
              !.conference_name = nonce, !.previous_conference_name = r.conference_name]

ClaimedMessage(r, action, op, nonce) ==
    [r EXCEPT !.owner_action = action, !.owner_operation_id = op, !.claim_nonce = nonce,
              !.owner_action_status = "message_requested"]

reduce_active_call_action(r, action, op, nonce) ==
    IF ~Claimable(r) THEN r
    ELSE IF action = "accept" THEN ClaimedAccept(r, op, nonce)
    ELSE ClaimedMessage(r, action, op, nonce)

\* The claim of accept POST a, which alone carries a's nonce and conference.
same_claim(r, a) ==
    /\ live_record(r)
    /\ r.owner_action = "accept"
    /\ r.owner_operation_id = OpOf[a]
    /\ r.claim_nonce = a
    /\ r.conference_name = a

MessageAllowed(r) ==
    /\ live_record(r)
    /\ ~r.accepted
    /\ r.state = "decision"
    /\ r.kevin_redirect_status # "pending"

\* The record's message intent, or None; the claim writes message_intent with
\* the action and operation id it writes beside it, so it is not a field of its own.
message_intent_from_record(r, statuses) ==
    IF /\ MessageAllowed(r)
       /\ r.owner_action_status \in statuses
       /\ r.owner_action \in {"decline", "timeout"}
    THEN [action |-> r.owner_action, operation_id |-> r.owner_operation_id,
          claim_nonce |-> r.claim_nonce]
    ELSE None

Requested == {"message_requested"}
AnyMessage == {"message_requested", "taking_message"}

-----------------------------------------------------------------------------
(* One storage or provider call: it answers, it fails, or its answer is    *)
(* lost after it took effect. The last two spend the fault budget.         *)

Outcomes == {"ok"} \cup (IF faults < MaxFaults THEN {"failed", "lost"} ELSE {})

Charge(outcome) == faults' = IF outcome = "ok" THEN faults ELSE faults + 1

\* A transaction whose callback maps the record to new.
Commit(outcome, new) ==
    /\ Charge(outcome)
    /\ rec' = IF outcome = "failed" THEN rec ELSE new

\* client.calls(sid).update: refused, at no cost, once the caller has hung up.
RedirectOutcomes == IF caller = Gone THEN {"failed"} ELSE Outcomes

Redirect(outcome, place) ==
    /\ faults' = IF outcome = "ok" \/ caller = Gone THEN faults ELSE faults + 1
    /\ caller' = IF outcome = "failed" THEN caller ELSE place

-----------------------------------------------------------------------------
(* What happens to the call around the handlers.                           *)

\* The caller hangs up; Twilio's terminal status callback comes later.
HangUp ==
    /\ caller # Gone
    /\ caller' = Gone
    /\ UNCHANGED <<rec, streams, faults>>

\* delete_active_call, after the terminal status callback.
EndRecord ==
    /\ caller = Gone
    /\ rec.state # "gone"
    /\ rec' = [rec EXCEPT !.state = "gone"]
    /\ UNCHANGED <<caller, streams, faults>>

\* Ten minutes pass with no write that refreshes state_updated_at.
GoStale ==
    /\ Aging
    /\ rec.age = "fresh"
    /\ rec' = [rec EXCEPT !.age = "stale"]
    /\ UNCHANGED <<caller, streams, faults>>

Renewed(r) == IF r.age = "stale" THEN "renewed" ELSE r.age

\* update_active_call: a transcript write refreshes the stamp without a transaction.
\* On a deleted record it leaves a fragment without a contractor: still not live.
update_active_call ==
    /\ rec.age = "stale"
    /\ rec.state # "gone"
    /\ rec' = [rec EXCEPT !.age = "renewed"]
    /\ UNCHANGED <<caller, streams, faults>>

\* transition_state takes the call out of the states that owner actions decide
\* (text reply, voicemail: only from screening), and refreshes the stamp.
transition_state ==
    /\ Route = "screening"
    /\ rec.state = "decision"
    /\ rec' = [rec EXCEPT !.state = "later", !.age = Renewed(rec)]
    /\ UNCHANGED <<caller, streams, faults>>

CallNext == HangUp \/ EndRecord \/ GoStale \/ update_active_call \/ transition_state
=============================================================================
