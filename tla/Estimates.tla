------------------------------- MODULE Estimates -------------------------------
(***************************************************************************)
(* One estimate link of a customer (src/app/api/estimates.py): media is     *)
(* uploaded to it, analyzed, and the answer is texted to the customer and   *)
(* the contractor. An attempt that is not answered within its lease is      *)
(* taken over by the recovery sweep (src/app/services/estimate_worker.py).  *)
(* The sweep runs embedded in the API, or strictly in the external worker,  *)
(* whose texts must be confirmed or held for an operator.                   *)
(*                                                                          *)
(* An upload is its media id. A step runs to the next await; a transaction  *)
(* may fail, or commit and lose its answer. The gate in front of an upload  *)
(* and the storage of its media are choices: what they refuse changes       *)
(* nothing. Attempts count the claims of the document, so their number      *)
(* also tells one lease from the next.                                      *)
(***************************************************************************)
EXTENDS Naturals, FiniteSets

CONSTANTS
    Uploads,            \* POSTs of media
    Photos,             \* the uploads that are answered inline
    Sweepers,           \* processes that run run_pending_estimates_once
    Strict,             \* those of the external worker
    None,
    MAX_ANALYSIS_ATTEMPTS,
    MaxFaults           \* bound on failed or lost transactions and crashes

EstimateAssumption ==
    /\ Photos \subseteq Uploads /\ Strict \subseteq Sweepers
    /\ None \notin Uploads \cup {"pending_external", "sent", "needs_attention"}
    /\ MAX_ANALYSIS_ATTEMPTS \in Nat /\ MaxFaults \in Nat

Videos == Uploads \ Photos

VARIABLES
    estimate,   \* the document estimates/{token_hash}
    upload,     \* each POST and the background task it leaves: where it is, whether its media is archived
    sweep,      \* each sweep: where it is and what it claimed
    texted,     \* how often the customer was told of each attempt
    recovered,  \* the attempts a sweep took over
    faults

vars == <<estimate, upload, sweep, texted, recovered, faults>>

States == {"pending_external", "sent", "needs_attention"}
Idle == [at |-> "idle", media |-> None, path |-> FALSE, attempts |-> 0]

\* create_estimate_token
EstimateInit ==
    /\ estimate = [status |-> "pending", media |-> None, path |-> FALSE, lease |-> "over", attempts |-> 0,
                   notified |-> FALSE, state |-> None, result |-> None, open |-> TRUE]
    /\ upload = [u \in Uploads |-> [at |-> "idle", path |-> FALSE]]
    /\ sweep = [w \in Sweepers |-> Idle]
    /\ texted = [u \in Uploads |-> 0]
    /\ recovered = {} /\ faults = 0

------------------------------------------------------------------------------
(* The transactions on the document.                                        *)

\* _notification_available
Available(e) == ~e.notified /\ e.state = None

\* _claim_notification_updates: a strict sweep announces that it is about to text.
Announced(e, strict) ==
    IF ~Available(e) THEN e
    ELSE IF strict THEN [e EXCEPT !.state = "pending_external"] ELSE [e EXCEPT !.notified = TRUE]

\* The condition of claim_notification_and_complete and claim_notification_and_fail.
IsCurrent(e, media) == e.status = "processing" /\ e.media = media

Completed(e, media, strict) == [Announced(e, strict) EXCEPT !.status = "complete", !.result = media]
Failed(e, strict) == [Announced(e, strict) EXCEPT !.status = "failed"]

\* The strict states that keep a document from being claimed by the next upload.
Held(e) == e.state \in {"pending_external", "needs_attention"}

Claimable(e) == e.open /\ e.status # "processing" /\ ~Held(e)

\* _claim_upload: the next attempt replaces the media and forgets the earlier answer.
Claimed(e, media, path) ==
    [e EXCEPT !.status = "processing", !.attempts = @ + 1, !.lease = "live", !.media = media, !.path = path,
              !.notified = FALSE, !.state = None, !.result = None]

\* claim_reanalysis_or_fail looks at a lease that was over when the sweep began.
Expired(e, attempts) == e.status = "processing" /\ e.lease = "over" /\ e.attempts = attempts

\* A transaction that would write `then` ends: it is answered, it fails, or its answer is lost.
Transact(answer, then) ==
    /\ answer = "ok" \/ faults < MaxFaults
    /\ faults' = IF answer = "ok" THEN faults ELSE faults + 1
    /\ estimate' = IF answer = "failed" THEN estimate ELSE then

Answers == {"ok", "failed", "lost"}

------------------------------------------------------------------------------
(* An upload.                                                               *)

UploadGoes(u, at) == upload' = [upload EXCEPT ![u].at = at]

\* upload_and_analyze up to the claim: what it reads may be stale when it claims. Without its
\* archive a video is refused, a photo goes on.
Arrives(u) ==
    /\ upload[u].at = "idle"
    /\ \/ UploadGoes(u, "done")
       \/ /\ estimate.open /\ estimate.status # "processing" /\ ~Held(estimate)
          /\ \E archived \in (IF u \in Photos THEN BOOLEAN ELSE {TRUE}) :
                upload' = [upload EXCEPT ![u] = [at |-> "claim", path |-> archived]]
    /\ UNCHANGED <<estimate, sweep, texted, recovered, faults>>

ClaimsUpload(u) ==
    /\ upload[u].at = "claim"
    /\ \E answer \in Answers :
          /\ Transact(answer, IF Claimable(estimate) THEN Claimed(estimate, u, upload[u].path) ELSE estimate)
          /\ UploadGoes(u, IF answer = "ok" /\ Claimable(estimate) THEN "analyze" ELSE "done")
    /\ UNCHANGED <<sweep, texted, recovered>>

\* _run_async_estimate_analysis: the analysis of a video answers or raises.
Analyzes(u) ==
    /\ upload[u].at = "analyze" /\ u \in Videos
    /\ \E next \in {"complete", "fail"} : UploadGoes(u, next)
    /\ UNCHANGED <<estimate, sweep, texted, recovered, faults>>

\* What becomes of the attempt is recorded, and whether the customer is to be told. An error
\* on the way to "complete" is recorded as a failure.
Records(u) ==
    /\ upload[u].at \in {"complete", "fail"}
    /\ LET accepted == IsCurrent(estimate, u)
           then == IF upload[u].at = "fail" THEN Failed(estimate, FALSE) ELSE Completed(estimate, u, FALSE)
       IN \E answer \in Answers :
          /\ Transact(answer, IF accepted THEN then ELSE estimate)
          /\ UploadGoes(u, IF answer = "ok" THEN (IF accepted /\ Available(estimate) THEN "send" ELSE "done")
                           ELSE IF upload[u].at = "complete" THEN "fail" ELSE "done")
    /\ UNCHANGED <<sweep, texted, recovered>>

\* A photo is answered inline: when the analysis is back the document is written, with no look at
\* it and in no transaction.
AnswersPhoto(u) ==
    /\ upload[u].at = "analyze" /\ u \in Photos
    /\ \E answer \in Answers :
          /\ Transact(answer, [estimate EXCEPT !.status = "complete", !.result = u, !.notified = TRUE])
          /\ UploadGoes(u, IF answer = "ok" THEN "send" ELSE "done")
    /\ UNCHANGED <<sweep, texted, recovered>>

\* send_estimate_notifications, which logs what it could not send.
Sends(u) ==
    /\ upload[u].at = "send"
    /\ texted' = [texted EXCEPT ![u] = @ + 1]
    /\ UploadGoes(u, "done")
    /\ UNCHANGED <<estimate, sweep, recovered, faults>>

\* The process of an upload ends, or the analysis of a photo raises.
Breaks(u) ==
    /\ upload[u].at \notin {"idle", "done"} /\ faults < MaxFaults
    /\ UploadGoes(u, "done") /\ faults' = faults + 1
    /\ UNCHANGED <<estimate, sweep, texted, recovered>>

UploadStep(u) ==
    Arrives(u) \/ ClaimsUpload(u) \/ Analyzes(u) \/ Records(u) \/ AnswersPhoto(u) \/ Sends(u) \/ Breaks(u)

------------------------------------------------------------------------------
(* A sweep.                                                                 *)

SweepGoes(w, at) == sweep' = [sweep EXCEPT ![w].at = at]
SweepEnds(w) == sweep' = [sweep EXCEPT ![w] = Idle]

\* run_pending_estimates_once finds the document among those that are processing.
Finds(w) ==
    /\ sweep[w].at = "idle" /\ Expired(estimate, estimate.attempts)
    /\ sweep' = [sweep EXCEPT ![w] = [Idle EXCEPT !.at = "claim", !.attempts = estimate.attempts]]
    /\ UNCHANGED <<estimate, upload, texted, recovered, faults>>

\* claim_reanalysis_or_fail: the attempt is taken over, or it was the last one.
Reclaims(w) ==
    /\ sweep[w].at = "claim"
    /\ LET expired == Expired(estimate, sweep[w].attempts)
           last == estimate.attempts >= MAX_ANALYSIS_ATTEMPTS
           renewed == [estimate EXCEPT !.attempts = @ + 1, !.lease = "live"]
           next == IF ~last THEN (IF estimate.path THEN "analyze" ELSE "fail")
                   ELSE IF Available(estimate) THEN "notify" ELSE "idle"
       IN \E answer \in Answers :
          /\ Transact(answer, IF ~expired THEN estimate ELSE IF last THEN Failed(estimate, w \in Strict) ELSE renewed)
          /\ recovered' = IF expired /\ answer # "failed" THEN recovered \cup {estimate.media} ELSE recovered
          /\ IF expired /\ answer = "ok" /\ next # "idle"
             THEN sweep' = [sweep EXCEPT ![w] = [at |-> next, media |-> estimate.media, path |-> estimate.path,
                                                 attempts |-> estimate'.attempts]]
             ELSE SweepEnds(w)
    /\ UNCHANGED <<upload, texted>>

\* The media is read and analyzed. An error leaves the attempt to the next sweep, but for the last.
Reanalyzes(w) ==
    /\ sweep[w].at = "analyze"
    /\ \/ SweepGoes(w, "complete")
       \/ IF sweep[w].attempts >= MAX_ANALYSIS_ATTEMPTS THEN SweepGoes(w, "fail") ELSE SweepEnds(w)
    /\ UNCHANGED <<estimate, upload, texted, recovered, faults>>

Settles(w) ==
    /\ sweep[w].at \in {"complete", "fail"}
    /\ LET accepted == IsCurrent(estimate, sweep[w].media)
           then == IF sweep[w].at = "fail" THEN Failed(estimate, w \in Strict)
                   ELSE Completed(estimate, sweep[w].media, w \in Strict)
       IN \E answer \in Answers :
          /\ Transact(answer, IF accepted THEN then ELSE estimate)
          /\ IF answer = "ok" /\ accepted /\ Available(estimate) THEN SweepGoes(w, "notify")
             ELSE IF answer # "ok" /\ sweep[w].at = "complete" /\ sweep[w].attempts >= MAX_ANALYSIS_ATTEMPTS
             THEN SweepGoes(w, "fail") ELSE SweepEnds(w)
    /\ UNCHANGED <<upload, texted, recovered>>

\* _send_claimed_estimate_notifications. A strict sweep reads the contractor again and must be
\* told that every text was accepted; a text that was not may have gone out all the same.
Notifies(w) ==
    /\ sweep[w].at = "notify"
    /\ \/ /\ w \notin Strict
          /\ texted' = [texted EXCEPT ![sweep[w].media] = @ + 1]
          /\ SweepEnds(w)
       \/ /\ w \in Strict
          /\ texted' = [texted EXCEPT ![sweep[w].media] = @ + 1]
          /\ \E next \in {"confirm", "hold"} : SweepGoes(w, next)
       \/ /\ w \in Strict
          /\ SweepGoes(w, "hold") /\ UNCHANGED texted
    /\ UNCHANGED <<estimate, upload, recovered, faults>>

\* confirm_external_notification
Confirms(w) ==
    /\ sweep[w].at = "confirm"
    /\ LET stands == /\ estimate.status \in {"complete", "failed"}
                     /\ estimate.state = "pending_external" /\ ~estimate.notified
       IN \E answer \in Answers :
          /\ Transact(answer, IF stands THEN [estimate EXCEPT !.state = "sent", !.notified = TRUE] ELSE estimate)
          /\ IF stands /\ answer = "ok" THEN SweepEnds(w) ELSE SweepGoes(w, "hold")
    /\ UNCHANGED <<upload, texted, recovered>>

\* hold_external_notification; the pass then stops for an operator, recorded or not.
Holds(w) ==
    /\ sweep[w].at = "hold"
    /\ \E answer \in Answers :
          Transact(answer, IF estimate.state = "pending_external" THEN [estimate EXCEPT !.state = "needs_attention"]
                           ELSE estimate)
    /\ SweepEnds(w)
    /\ UNCHANGED <<upload, texted, recovered>>

\* The process of a sweep ends, or it cannot read the contractor.
Stops(w) ==
    /\ sweep[w].at # "idle" /\ faults < MaxFaults
    /\ SweepEnds(w) /\ faults' = faults + 1
    /\ UNCHANGED <<estimate, upload, texted, recovered>>

SweepStep(w) ==
    Finds(w) \/ Reclaims(w) \/ Reanalyzes(w) \/ Settles(w) \/ Notifies(w) \/ Confirms(w) \/ Holds(w) \/ Stops(w)

------------------------------------------------------------------------------
(* Time.                                                                    *)

\* DEFAULT_LEASE_SECONDS, TOKEN_EXPIRY_SECONDS
LeaseExpires ==
    /\ estimate.status = "processing" /\ estimate.lease = "live"
    /\ estimate' = [estimate EXCEPT !.lease = "over"]
    /\ UNCHANGED <<upload, sweep, texted, recovered, faults>>

TokenExpires ==
    /\ estimate.open
    /\ estimate' = [estimate EXCEPT !.open = FALSE]
    /\ UNCHANGED <<upload, sweep, texted, recovered, faults>>

EstimateNext ==
    \/ \E u \in Uploads : UploadStep(u)
    \/ \E w \in Sweepers : SweepStep(w)
    \/ LeaseExpires \/ TokenExpires

------------------------------------------------------------------------------
(* Properties.                                                              *)

EstimateTypeOK ==
    /\ estimate \in [status : {"pending", "processing", "complete", "failed"}, media : Uploads \cup {None},
                     path : BOOLEAN, lease : {"live", "over"}, attempts : Nat, notified : BOOLEAN,
                     state : States \cup {None}, result : Uploads \cup {None}, open : BOOLEAN]
    /\ upload \in [Uploads -> [at : {"idle", "claim", "analyze", "complete", "fail", "send", "done"}, path : BOOLEAN]]
    /\ sweep \in [Sweepers -> [at : {"idle", "claim", "analyze", "complete", "fail", "notify", "confirm", "hold"},
                               media : Uploads \cup {None}, path : BOOLEAN, attempts : Nat]]
    /\ texted \in [Uploads -> Nat] /\ recovered \subseteq Uploads /\ faults \in Nat

\* The customer is told of an attempt once, whoever finishes it (notified_at, notification_state). Only
\* a photo whose handler outlived its lease is told of twice, by the sweep and by that handler.
ToldOnce ==
    \A u \in Uploads : texted[u] <= IF u \in Photos \cap recovered THEN 2 ELSE 1

\* The answer on record is that of the media on record, unless a photo's handler outlived its lease: it
\* writes over a later attempt, and so may the next one, which then looks finished before its own does.
AnswerIsOfMedia ==
    \/ estimate.result \in {None, estimate.media}
    \/ estimate.result \in Photos /\ Photos \cap recovered # {}

\* A strict text that is recorded as sent was sent (confirm_external_notification).
SentWasTexted == estimate.state = "sent" => texted[estimate.media] > 0

\* No upload and no sweep replaces an attempt whose text is uncertain, or calls it settled but by
\* the confirmation (_claim_upload: "must not overwrite the current attempt's reconciliation record").
UncertainTextIsKept ==
    [][Held(estimate) => /\ estimate'.media = estimate.media /\ estimate'.status # "processing"
                         /\ estimate.state = "needs_attention" => estimate'.state = "needs_attention"
                         /\ estimate'.state # None]_vars
=============================================================================
