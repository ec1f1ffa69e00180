-------------------------------- MODULE Account --------------------------------
(***************************************************************************)
(* What one account owns outside Kevin: its number at Twilio                *)
(* (NumberRelease), its Google Calendar grant (CalendarGrant) and its       *)
(* Jobber connection (JobberGrant). The three share no state; a history     *)
(* is about one of them, and the other two stay as they began.              *)
(***************************************************************************)
EXTENDS NumberRelease

CONSTANTS
    Handlers, HandlerKind, Asks, ConsentPages, PageOf, GrantCasts, MaxGrantFaults,   \* see CalendarGrant
    JobberContractors, JobberAccounts, BoundTo, Unreadable, TokenUses, OAuthFlows, Removals, DisconnectWorkers,
    JobberCasts, PageSize, MaxReceipts, MaxJobberAttempts, MaxJobberFaults           \* see JobberGrant

VARIABLES
    part,
    grant, revocation, states, handler, presented, moved, grantFaults,
    counter, barrier, work, binding, use, flow, removal, worker, outbox, pairs, renewals, revoked,
    consent, captured, jobberFaults

grantVars == <<grant, revocation, states, handler, presented, moved, grantFaults>>
jobberVars == <<counter, barrier, work, binding, use, flow, removal, worker, outbox, pairs, renewals, revoked,
                consent, captured, jobberFaults>>

Grant == INSTANCE CalendarGrant WITH
    Procs <- Handlers, Kind <- HandlerKind, Target <- Asks, Pages <- ConsentPages, Page <- PageOf,
    Casts <- GrantCasts, MaxFaults <- MaxGrantFaults, proc <- handler, faults <- grantFaults

Jobber == INSTANCE JobberGrant WITH
    NumContractors <- JobberContractors, Accounts <- JobberAccounts, Bound <- BoundTo, Malformed <- Unreadable,
    Uses <- TokenUses, Flows <- OAuthFlows, Workers <- DisconnectWorkers, Casts <- JobberCasts,
    MaxAttempts <- MaxJobberAttempts, MaxFaults <- MaxJobberFaults, faults <- jobberFaults

ASSUME AccountAssumption == Grant!GrantAssumption /\ Jobber!JobberAssumption

AccountInit ==
    /\ part \in {"number", "calendar", "jobber"}
    /\ Init
    /\ part # "number" => profile.number = None
    /\ part = "number" <=> \E p \in Procs : proc[p].at = "idle"
    /\ Grant!Init
    /\ part # "calendar" => ~grant.connected
    /\ part = "calendar" <=> \E p \in DOMAIN handler : handler[p].at = "idle"
    /\ Jobber!Init
    /\ part = "jobber" <=> \E who \in {use, flow, removal, worker} : \E x \in DOMAIN who : who[x].at = "idle"

AccountNext ==
    \/ part = "number" /\ Next /\ UNCHANGED <<part, grantVars, jobberVars>>
    \/ part = "calendar" /\ Grant!Next /\ UNCHANGED <<part, vars, jobberVars>>
    \/ part = "jobber" /\ Jobber!Next /\ UNCHANGED <<part, vars, grantVars>>

AccountSpec == AccountInit /\ [][AccountNext]_<<part, vars, grantVars, jobberVars>>

\* A number is handed back by one path at most and is flagged until the profile forgets it, and
\* no evidence that it is used is ever lost (release_twilio_number, update_contractor,
\* record_inbound_call_evidence).
NumberIsReleasedOnce == TypeOK /\ OnePathDeletes /\ GoneNumberIsFlagged /\ EvidenceIsKept

\* A request to Google fences the grant: a token pair whose refresh was sent is not used again, an
\* unlearnt rescheduling stays bound to its operation, and what a disconnect reported is on record
\* (refresh_access_token, reschedule_appointment, record_revocation_outcome_cas).
GrantIsFenced ==
    Grant!TypeOK /\ Grant!RefreshedPairIsFenced /\ Grant!UnlearntPatchIsHeld /\ Grant!ReceiptIsOnRecord

\* What gives something away is justified when it happens: a number that the worker hands
\* back is quiet, quarantine ends by a consent, which is for this very grant, and a disconnect
\* waits for the requests that are on their way (deactivate_contractor, connect_provider_cas,
\* consume_oauth_state, disconnect_provider_envelope_cas).
ChangesAreJustified ==
    /\ QuietNumbersOnly
    /\ Grant!QuarantineEndsByConsent /\ Grant!ConsentIsForThisGrant /\ Grant!DisconnectWaitsForRequests

\* An APP_DISCONNECT of Jobber fences the account for good: only a later consent lets its
\* credentials be used, a pair is renewed once, lead capture is not carried over, and completed
\* work has reached every contractor of the account (jobber_admissions.py, jobber_disconnects.py).
DisconnectFencesAccount ==
    /\ Jobber!TypeOK
    /\ Jobber!ConsentFollowsReceipt /\ Jobber!RenewedOnce /\ Jobber!CompletedIsSuspended
    /\ Jobber!CaptureIsForThisAccount /\ Jobber!RevocationIsHonest
=============================================================================
