------------------------------ MODULE VisualTriage ------------------------------
(***************************************************************************)
(* One visual-diagnosis case (src/app/services/visual_diagnosis_state.py):  *)
(* a state machine of 28 event kinds over seven status fields, one pending  *)
(* customer action, the media assets and two receipt lanes. An event that   *)
(* apply() rejects is rolled back and changes nothing, so it is no step     *)
(* here; an event built against an older revision is one of those, and so   *)
(* is a second delivery, which apply() answers from its ledger.             *)
(* Identifiers, digests and policy references are abstracted: an event that *)
(* names the wrong one is rejected.                                         *)
(***************************************************************************)
EXTENDS Naturals, Sequences

CONSTANTS
    None,
    MaxTime,       \* the times events carry: 0 .. MaxTime
    OrdinaryCap,   \* ORDINARY_RECEIPT_CAP
    ControlCap,    \* CONTROL_RECEIPT_CAP
    Questions,     \* the question budget, 2 in the code
    Retries,       \* retries of the analysis, 3 in the code
    Deletions      \* retries of the deletion, 3 in the code

Times == 0 .. MaxTime

Action == [kind : {"question", "plate", "recapture"},
           status : {"issued", "uploading", "submitted"},
           issued : Times, expires : Times \cup {None}]

\* The ordinary lane holds what a case can do at most: 14 events for itself, seven for each of two
\* media actions, four for each question, three for each retry of the analysis.
ASSUME TriageAssumption ==
    /\ MaxTime \in Nat /\ OrdinaryCap \in Nat /\ ControlCap \in Nat
    /\ Questions \in Nat /\ Retries \in Nat /\ Deletions \in Nat
    /\ None \notin Times \cup Action
    /\ OrdinaryCap >= 28 + 4 * Questions + 3 * Retries /\ ControlCap >= Deletions + 3

VARIABLES
    status,    \* the StateVector: one status per concern
    pending,   \* the customer action that is open, or None
    resolved,  \* the customer actions that were resolved, oldest first
    assets,    \* the media assets, in order of upload
    counts,    \* questions, plates, recaptures, retries of analysis and deletion
    times,     \* created, completed, deletion requested, deleted
    receipts   \* how many events each lane has accepted

triage == <<status, pending, resolved, assets, counts, times, receipts>>

Status == [case : {"none", "created", "active", "closed", "cancelled", "expired"},
           consent : {"not_requested", "awaiting", "granted", "declined", "withdrawn"},
           media : {"none", "awaiting", "upload_pending", "quarantined", "validated", "rejected", "unavailable"},
           analysis : {"not_started", "ready", "processing", "awaiting_customer", "complete", "abstained",
                       "failed_retriable", "failed_terminal"},
           packet : {"not_ready", "ready", "pending", "delivered", "failed"},
           delivery : {"not_evaluated", "policy", "pending", "delivered", "failed"},
           deletion : {"none", "pending", "verified"}]

Roles == {"symptom_video", "plate", "recapture"}

TriageInit ==
    /\ status = [case |-> "none", consent |-> "not_requested", media |-> "none", analysis |-> "not_started",
                 packet |-> "not_ready", delivery |-> "not_evaluated", deletion |-> "none"]
    /\ pending = None /\ resolved = <<>> /\ assets = <<>>
    /\ counts = [question |-> 0, plate |-> 0, recapture |-> 0, analysis |-> 0, deletion |-> 0]
    /\ times = [created |-> None, completed |-> None, asked |-> None, deleted |-> None]
    /\ receipts = [ordinary |-> 0, control |-> 0]

------------------------------------------------------------------------------
\* apply: the lane has room, and a case under deletion takes deletion events only.
Ordinary ==
    /\ status.deletion = "none" /\ receipts.ordinary < OrdinaryCap
    /\ receipts' = [receipts EXCEPT !.ordinary = @ + 1]

Control(deletions) ==
    /\ status.deletion \in deletions /\ receipts.control < ControlCap
    /\ receipts' = [receipts EXCEPT !.control = @ + 1]

Active == status.case = "active"

Validated(role, as) == \E i \in DOMAIN as : as[i] = [role |-> role, validation |-> "validated"]
Evidence(as) == Validated("symptom_video", as) \/ Validated("recapture", as)

NoOutput == status.packet = "not_ready" /\ status.delivery = "not_evaluated"

\* Seeded fault: an analysis that may be tried again counts as finished.
AnalysedOrRetriable == status.analysis \in {"complete", "abstained", "failed_retriable"}
Analysed == status.analysis \in {"complete", "abstained"}

Open(t) == pending.expires # None => t < pending.expires

\* Seeded fault: only an open action is compared with the time of the event.
AfterPending(t) == t >= times.created /\ (pending # None => t >= pending.issued)

\* _reject_if_predates_recorded_activity, and the creation of the case.
AfterActivity(t) ==
    /\ t >= times.created
    /\ pending # None => t >= pending.issued
    /\ \A i \in DOMAIN resolved : t >= resolved[i].at

\* Seeded fault: the status of the media is settled, the asset is not.
NotAbandoned(as) == as

\* _finalized_media_after_termination: nobody will ever answer for an upload.
InFlight(media) == media \in {"upload_pending", "quarantined"}
Abandoned(as) ==
    [i \in DOMAIN as |-> IF as[i].validation = "pending" THEN [as[i] EXCEPT !.validation = "unavailable"] ELSE as[i]]
Finalized == IF ~InFlight(status.media) THEN status.media
             ELSE IF Evidence(assets) THEN "validated" ELSE "unavailable"

------------------------------------------------------------------------------
CaseCreated ==
    /\ status.case = "none" /\ Ordinary
    /\ \E t \in Times : times' = [times EXCEPT !.created = t]
    /\ status' = [status EXCEPT !.case = "created"]
    /\ UNCHANGED <<pending, resolved, assets, counts>>

ConsentRequested ==
    /\ status.case = "created" /\ status.consent = "not_requested" /\ pending = None /\ Ordinary
    /\ status' = [status EXCEPT !.consent = "awaiting"]
    /\ UNCHANGED <<pending, resolved, assets, counts, times>>

ConsentGranted ==
    /\ status.case = "created" /\ status.consent = "awaiting" /\ Ordinary
    /\ status' = [status EXCEPT !.case = "active", !.consent = "granted", !.media = "awaiting"]
    /\ UNCHANGED <<pending, resolved, assets, counts, times>>

ConsentDeclined ==
    /\ status.case = "created" /\ status.consent = "awaiting" /\ Control({"none"})
    /\ \E t \in Times : t >= times.created /\ times' = [times EXCEPT !.completed = t]
    /\ status' = [status EXCEPT !.case = "cancelled", !.consent = "declined"]
    /\ pending' = None
    /\ UNCHANGED <<resolved, assets, counts>>

\* What the end of a case does to the work under way.
Ends(next, t) ==
    /\ AfterActivity(t)
    /\ status' = [next EXCEPT !.media = Finalized]
    /\ assets' = IF InFlight(status.media) THEN Abandoned(assets) ELSE assets
    /\ pending' = None
    /\ UNCHANGED <<resolved, counts>>

ConsentWithdrawn ==
    /\ Active /\ status.consent = "granted" /\ Control({"none"})
    /\ \E t \in Times :
          /\ Ends([status EXCEPT !.case = "cancelled", !.consent = "withdrawn"], t)
          /\ times' = [times EXCEPT !.completed = t]

CaseEnds(outcome) ==
    /\ status.case \in {"created", "active"} /\ Control({"none"})
    /\ \E t \in Times :
          /\ Ends([status EXCEPT !.case = outcome], t)
          /\ times' = [times EXCEPT !.completed = t]

CaseClosed ==
    /\ Active /\ pending = None /\ ~InFlight(status.media)
    /\ status.analysis \notin {"processing", "failed_retriable", "awaiting_customer"}
    /\ status.packet # "pending" /\ status.delivery # "pending"
    /\ Control({"none"})
    /\ \E t \in Times : AfterActivity(t) /\ times' = [times EXCEPT !.completed = t]
    /\ status' = [status EXCEPT !.case = "closed"]
    /\ UNCHANGED <<pending, resolved, assets, counts>>

------------------------------------------------------------------------------
\* Seeded fault: the new action may predate what was resolved.
IssuedAnyTime(kind, t) ==
    /\ t >= times.created
    /\ \E e \in {None} \cup {x \in Times : x > t} :
          pending' = [kind |-> kind, status |-> "issued", issued |-> t, expires |-> e]
    /\ status' = [status EXCEPT !.analysis = "awaiting_customer"]

\* _action_from_payload: not before the case or anything resolved in it.
Issued(kind, t) ==
    /\ t >= times.created /\ \A i \in DOMAIN resolved : t >= resolved[i].at
    /\ \E e \in {None} \cup {x \in Times : x > t} :
          pending' = [kind |-> kind, status |-> "issued", issued |-> t, expires |-> e]
    /\ status' = [status EXCEPT !.analysis = "awaiting_customer"]

PlateAllowed == counts.plate < 1 /\ status.media = "validated" /\ Analysed /\ Validated("symptom_video", assets)

\* Seeded fault: a recapture that was rejected is asked for again.
RecaptureAgain == status.media = "rejected"
RecaptureAllowed == counts.recapture < 1 /\ status.media = "rejected"

MediaActionIssued(kind) ==
    /\ Active /\ pending = None /\ NoOutput /\ Ordinary
    /\ \/ kind = "plate" /\ PlateAllowed
       \/ kind = "recapture" /\ RecaptureAllowed
    /\ counts' = [counts EXCEPT ![kind] = @ + 1]
    /\ \E t \in Times : Issued(kind, t)
    /\ UNCHANGED <<resolved, assets, times>>

\* A question that was refused or ran out closes the prompt for good.
Refused(a) == a.kind = "question" /\ a.status \in {"declined", "expired", "cancelled"}

DiagnosticQuestionIssued ==
    /\ Active /\ pending = None /\ Analysed /\ NoOutput /\ Ordinary
    /\ ~\E i \in DOMAIN resolved : Refused(resolved[i])
    /\ counts.question < Questions
    /\ counts' = [counts EXCEPT !.question = @ + 1]
    /\ \E t \in Times : Issued("question", t)
    /\ UNCHANGED <<resolved, assets, times>>

\* del self._resolved_customer_actions[:-4]
Resolve(outcome, t) ==
    LET s == Append(resolved, [kind |-> pending.kind, status |-> outcome, issued |-> pending.issued, at |-> t])
    IN resolved' = SubSeq(s, IF Len(s) > 4 THEN Len(s) - 3 ELSE 1, Len(s))

\* NOT_SURE is taken as ANSWERED, CANNOT_SAFELY_COMPLETE as DECLINED.
CustomerActionResolved(outcome) ==
    /\ Active /\ pending # None /\ pending.kind = "question" /\ Ordinary
    /\ \E t \in Times :
          /\ t >= pending.issued
          /\ CASE outcome = "expired"   -> pending.status = "issued" /\ pending.expires # None /\ t >= pending.expires
               [] outcome = "cancelled" -> pending.status = "issued"
               [] OTHER                 -> Open(t)
          /\ Resolve(outcome, t)
    /\ pending' = None
    /\ status' = [status EXCEPT !.analysis =
                     IF outcome = "answered" /\ Evidence(assets) THEN "ready" ELSE "abstained"]
    /\ UNCHANGED <<assets, counts, times>>

------------------------------------------------------------------------------
\* The first upload answers the consent, every later one an open media action.
UploadRole == IF pending = None THEN "symptom_video" ELSE pending.kind

UploadStarted ==
    /\ Active /\ Ordinary
    /\ IF pending = None THEN status.media = "awaiting"
       ELSE /\ pending.kind # "question" /\ pending.status = "issued"
            /\ \E t \in Times : t >= pending.issued /\ Open(t)
    /\ assets' = Append(assets, [role |-> UploadRole, validation |-> "pending"])
    /\ pending' = IF pending = None THEN None ELSE [pending EXCEPT !.status = "uploading"]
    /\ status' = [status EXCEPT !.media = "upload_pending"]
    /\ UNCHANGED <<resolved, counts, times>>

UploadFinalized(i) ==
    /\ Active /\ status.media = "upload_pending" /\ Ordinary
    /\ pending # None => /\ pending.status = "uploading" /\ assets[i].role = pending.kind
                         /\ \E t \in Times : t >= pending.issued /\ Open(t)
    /\ pending' = IF pending = None THEN None ELSE [pending EXCEPT !.status = "submitted"]
    /\ status' = [status EXCEPT !.media = "quarantined"]
    /\ UNCHANGED <<resolved, assets, counts, times>>

\* Seeded fault: the verdict on the last picture is taken for the case.
MediaIsVerdict(asset, verdict, as) == verdict

\* A later picture that fails does not undo the evidence there is.
MediaAfter(asset, verdict, as) == IF asset.role # "symptom_video" /\ Evidence(as) THEN "validated" ELSE verdict

MediaValidated(i, verdict) ==
    /\ Active /\ status.media = "quarantined" /\ assets[i].validation = "pending" /\ Ordinary
    /\ pending # None => \E t \in Times : Open(t)
    /\ assets' = [assets EXCEPT ![i].validation = verdict]
    /\ status' = [status EXCEPT
                     !.media = MediaAfter(assets[i], verdict, assets'),
                     !.analysis = IF pending # None THEN "awaiting_customer"
                                  ELSE IF verdict = "validated" THEN "ready" ELSE "abstained"]
    /\ UNCHANGED <<pending, resolved, counts, times>>

\* The asset an answer to a submitted or uploading action must name, and what
\* becomes of it: a validator that never answered is given up with the action.
Answers(i, outcome) ==
    /\ assets[i].role = pending.kind
    /\ \/ /\ outcome \in {"expired", "cancelled"}
          /\ pending.status = "uploading" \/ assets[i].validation = "pending"
          /\ assets' = [assets EXCEPT ![i].validation = "unavailable"]
       \/ /\ pending.status = "submitted" /\ assets[i].validation # "pending"
          /\ outcome = "fulfilled" => assets[i].validation = "validated"
          /\ UNCHANGED assets

\* UNAVAILABLE and CANNOT_SAFELY_COMPLETE are taken as DECLINED.
MediaActionResolved(outcome) ==
    /\ Active /\ pending # None /\ pending.kind # "question" /\ Ordinary
    /\ \E t \in Times :
          /\ t >= pending.issued
          /\ CASE outcome = "expired"   -> pending.expires # None /\ t >= pending.expires
               [] outcome = "cancelled" -> TRUE
               [] OTHER                 -> Open(t)
          /\ Resolve(outcome, t)
    /\ IF pending.status = "issued" THEN outcome # "fulfilled" /\ UNCHANGED assets
       ELSE \E i \in DOMAIN assets : Answers(i, outcome)
    /\ pending' = None
    /\ status' = [status EXCEPT
                     !.media = IF outcome \in {"expired", "cancelled"} /\ InFlight(@)
                               THEN IF Evidence(assets') THEN "validated" ELSE "rejected"
                               ELSE @,
                     !.analysis = IF outcome = "fulfilled" \/ Evidence(assets') THEN "ready" ELSE "abstained"]
    /\ UNCHANGED <<counts, times>>

------------------------------------------------------------------------------
AnalysisStarted ==
    /\ Active /\ pending = None /\ Ordinary
    /\ status.analysis = "ready" /\ status.media = "validated" /\ Evidence(assets)
    /\ status' = [status EXCEPT !.analysis = "processing"]
    /\ UNCHANGED <<pending, resolved, assets, counts, times>>

AnalysisCompleted(outcome) ==
    /\ Active /\ status.analysis = "processing" /\ Ordinary
    /\ status' = [status EXCEPT !.analysis = outcome]
    /\ UNCHANGED <<pending, resolved, assets, counts, times>>

AnalysisFailed(outcome) ==
    /\ Active /\ status.analysis = "processing" /\ Ordinary
    /\ outcome = "failed_retriable" => counts.analysis < Retries
    /\ status' = [status EXCEPT !.analysis = outcome]
    /\ UNCHANGED <<pending, resolved, assets, counts, times>>

AnalysisRetryRecorded ==
    /\ Active /\ status.analysis = "failed_retriable" /\ counts.analysis < Retries /\ Ordinary
    /\ counts' = [counts EXCEPT !.analysis = @ + 1]
    /\ status' = [status EXCEPT !.analysis = "ready"]
    /\ UNCHANGED <<pending, resolved, assets, times>>

------------------------------------------------------------------------------
\* The contractor's packet and the customer's delivery.
PacketReady ==
    /\ Active /\ pending = None /\ status.packet = "not_ready" /\ Analysed /\ Ordinary
    /\ status' = [status EXCEPT !.packet = "ready"]
    /\ UNCHANGED <<pending, resolved, assets, counts, times>>

PacketDeliveryStarted ==
    /\ Active /\ pending = None /\ status.packet = "ready" /\ Ordinary
    /\ status' = [status EXCEPT !.packet = "pending"]
    /\ UNCHANGED <<pending, resolved, assets, counts, times>>

PacketDeliveryReceipt(outcome) ==
    /\ Active /\ status.packet = "pending" /\ Ordinary
    /\ status' = [status EXCEPT !.packet = outcome]
    /\ UNCHANGED <<pending, resolved, assets, counts, times>>

DeliveryPolicyReceipt ==
    /\ Active /\ pending = None /\ status.delivery = "not_evaluated" /\ Analysed /\ Ordinary
    /\ status' = [status EXCEPT !.delivery = "policy"]
    /\ UNCHANGED <<pending, resolved, assets, counts, times>>

CustomerDeliveryStarted ==
    /\ Active /\ pending = None /\ status.delivery = "policy" /\ Ordinary
    /\ status' = [status EXCEPT !.delivery = "pending"]
    /\ UNCHANGED <<pending, resolved, assets, counts, times>>

CustomerDeliveryReceipt(outcome) ==
    /\ Active /\ status.delivery = "pending" /\ Ordinary
    /\ status' = [status EXCEPT !.delivery = outcome]
    /\ UNCHANGED <<pending, resolved, assets, counts, times>>

------------------------------------------------------------------------------
DeletionRequested ==
    /\ status.case # "none" /\ Control({"none"})
    /\ \E t \in Times :
          /\ Ends([status EXCEPT !.deletion = "pending"], t)
          /\ times' = [times EXCEPT !.asked = t]

\* Seeded fault: an attempt beyond the budget is recorded.
DeletionRetryOnceMore == counts.deletion <= Deletions

DeletionRetryAllowed == counts.deletion < Deletions

DeletionRetryRecorded ==
    /\ Control({"pending"}) /\ DeletionRetryAllowed
    /\ counts' = [counts EXCEPT !.deletion = @ + 1]
    /\ UNCHANGED <<status, pending, resolved, assets, times>>

DeletionVerified ==
    /\ Control({"pending"})
    /\ \E t \in Times : AfterActivity(t) /\ t >= times.asked /\ times' = [times EXCEPT !.deleted = t]
    /\ status' = [status EXCEPT !.deletion = "verified"]
    /\ UNCHANGED <<pending, resolved, assets, counts>>

------------------------------------------------------------------------------
\* The projection: deletion and the end of the case hide every offer, and each
\* role sees only the offers that are its own to take.
ProjectionRoles == {"internal", "customer", "contractor", "audit"}

\* Seeded fault: the end of the case does not hide the offers.
OfferWhateverEnded ==
    IF status.deletion # "none" THEN None
    ELSE IF pending # None THEN "resolve"
    ELSE IF status.media = "awaiting" THEN "upload"
    ELSE IF status.analysis = "ready" THEN "analyse"
    ELSE IF status.packet = "ready" THEN "deliver" ELSE None

Offer ==
    IF status.deletion # "none" \/ status.case \in {"closed", "cancelled", "expired"} THEN None
    ELSE IF pending # None THEN "resolve"
    ELSE IF status.media = "awaiting" THEN "upload"
    ELSE IF status.analysis = "ready" THEN "analyse"
    ELSE IF status.packet = "ready" THEN "deliver" ELSE None

Hidden(role) == CASE role = "internal"   -> {}
                  [] role = "customer"   -> {"analyse", "deliver"}
                  [] role = "contractor" -> {"resolve", "upload", "analyse"}
                  [] role = "audit"      -> {"resolve", "upload", "analyse", "deliver"}

NextAction(role) == IF Offer \in Hidden(role) THEN None ELSE Offer

TriageNext ==
    \/ CaseCreated \/ ConsentRequested \/ ConsentGranted \/ ConsentDeclined \/ ConsentWithdrawn
    \/ \E kind \in {"plate", "recapture"} : MediaActionIssued(kind)
    \/ DiagnosticQuestionIssued
    \/ \E o \in {"answered", "declined", "expired", "cancelled"} : CustomerActionResolved(o)
    \/ UploadStarted
    \/ \E i \in DOMAIN assets : UploadFinalized(i)
    \/ \E i \in DOMAIN assets, v \in {"validated", "rejected", "unavailable"} : MediaValidated(i, v)
    \/ \E o \in {"fulfilled", "declined", "expired", "cancelled"} : MediaActionResolved(o)
    \/ AnalysisStarted \/ AnalysisRetryRecorded
    \/ \E o \in {"complete", "abstained"} : AnalysisCompleted(o)
    \/ \E o \in {"failed_retriable", "failed_terminal"} : AnalysisFailed(o)
    \/ PacketReady \/ PacketDeliveryStarted
    \/ \E o \in {"delivered", "failed"} : PacketDeliveryReceipt(o)
    \/ DeliveryPolicyReceipt \/ CustomerDeliveryStarted
    \/ \E o \in {"delivered", "failed"} : CustomerDeliveryReceipt(o)
    \/ CaseClosed \/ CaseEnds("cancelled") \/ CaseEnds("expired")
    \/ DeletionRequested \/ DeletionRetryRecorded \/ DeletionVerified

TriageSpec == TriageInit /\ [][TriageNext]_triage

------------------------------------------------------------------------------
TriageTypeOK ==
    /\ status \in Status
    /\ pending \in Action \cup {None}
    /\ \A i \in DOMAIN resolved : resolved[i].at \in Times
    /\ \A i \in DOMAIN assets : assets[i].role \in Roles
    /\ Len(resolved) <= 4 /\ Len(assets) <= 4
    /\ counts.question \in 0..Questions /\ counts.plate \in 0..1 /\ counts.recapture \in 0..1
    /\ counts.analysis \in 0..Retries /\ counts.deletion \in 0..Deletions
    /\ receipts.ordinary \in 0..OrdinaryCap /\ receipts.control \in 0..ControlCap

(***************************************************************************)
(* No analysis runs, or may run, without a video or recapture that passed   *)
(* validation, and the status of the media says so: however the uploads, a  *)
(* refused recapture, an abandoned plate and the retries interleave.        *)
(***************************************************************************)
AnalysisHasEvidence ==
    /\ status.analysis \in {"ready", "processing", "failed_retriable"} => status.media = "validated"
    /\ status.media = "validated" => Evidence(assets)
    /\ status.media \in {"rejected", "unavailable"} => ~Evidence(assets)

(***************************************************************************)
(* Once a case is over or under deletion nothing of it waits for an answer  *)
(* that can no longer be given: no open action, no upload, no asset that    *)
(* awaits its verdict (_finalized_media_after_termination).                 *)
(***************************************************************************)
Over == status.case \in {"closed", "cancelled", "expired"} \/ status.deletion # "none"
EndedCaseHoldsNothing ==
    Over => /\ pending = None /\ ~InFlight(status.media)
            /\ \A i \in DOMAIN assets : assets[i].validation # "pending"

(***************************************************************************)
(* The case's own chronology holds: actions follow one another, and the end *)
(* of a case and its deletion come after all that was recorded in it.       *)
(***************************************************************************)
Chronology ==
    /\ \A i, j \in DOMAIN resolved : i < j => resolved[i].at <= resolved[j].issued
    /\ \A i \in DOMAIN resolved : \A end \in {times.completed, times.asked, times.deleted} \ {None} :
          resolved[i].issued <= resolved[i].at /\ resolved[i].at <= end

(***************************************************************************)
(* The control lane never crowds out a deletion: whatever ended the case    *)
(* and however often the deletion was retried, its verification finds room. *)
(***************************************************************************)
DeletionFindsRoom == status.deletion = "pending" => receipts.control < ControlCap

(***************************************************************************)
(* What the case offers to a role as its next action (_projection) is an    *)
(* event that it accepts: a client that follows the projection is never     *)
(* refused.                                                                 *)
(***************************************************************************)
OfferIsAccepted ==
    \A role \in ProjectionRoles :
        LET next == NextAction(role) IN
        next # None => Active /\ receipts.ordinary < OrdinaryCap /\ status.deletion = "none" /\
            CASE next = "resolve"  -> pending # None
              [] next = "upload"   -> pending = None /\ status.media = "awaiting"
              [] next = "analyse"  -> pending = None /\ status.analysis = "ready"
                                      /\ status.media = "validated" /\ Evidence(assets)
              [] next = "deliver"  -> pending = None /\ status.packet = "ready"

(***************************************************************************)
(* Output that was prepared from an analysis is not overtaken by another:   *)
(* no question, upload or analysis follows it.                              *)
(***************************************************************************)
OutputIsFinal == [][~NoOutput => UNCHANGED <<status.analysis, resolved, assets>>]_triage
================================================================================
