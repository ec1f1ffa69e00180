--------------------------------- MODULE MCDesk ---------------------------------
(***************************************************************************)
(* What the product does around a call, on small instances: a visual        *)
(* diagnosis case (VisualTriage), the enrolment of a number that texts      *)
(* (SenderEnrollment), the texts to an owner (OwnerSms), an estimate link   *)
(* of a customer (Estimates), the public demo with its breaker              *)
(* (PublicDemo), a call of the voice bakeoff (BakeoffCall) and the language *)
(* choice in one (LanguageChoice), and the leases and closures of the       *)
(* bakeoff's session driver (ClosureDriver). A history is about one of      *)
(* them, and the others stay as they began.                                 *)
(***************************************************************************)
EXTENDS VisualTriage, BakeoffCall, ClosureDriver, PublicDemo

CONSTANTS
    Enrolls, NoCreate, MaxDrifts,                                    \* see SenderEnrollment
    Words, Texts, Consents, MaxChanges,                              \* see OwnerSms
    Uploads, Photos, Sweepers, Strict, MAX_ANALYSIS_ATTEMPTS, MaxFaults,  \* see Estimates
    Turns, Segments, ResponseMs, MaxSpeechMs, FinalizationMs, TtlMs, HistoryLimit, LastMs, MaxInputs  \* see LanguageChoice

VARIABLES
    part,
    country, world, enroll, told, stopped, landing, created, drifts,
    nation, owner, words, applied, superseded, carrier, texts, consents, changes,
    estimate, upload, sweep, texted, recovered, faults,
    clock, log, choice, prompt, pair, spent, transaction, closed, committed, receipt

Sender == INSTANCE SenderEnrollment
Sms == INSTANCE OwnerSms
Link == INSTANCE Estimates
\* Nothing asks whether an input is a partial transcript: it is passed over as an activity of another turn is.
Choice == INSTANCE LanguageChoice WITH Kinds <- {"started", "ended", "final"}

ASSUME DeskAssumption == Sender!EnrollAssumption /\ Sms!SmsAssumption /\ Link!EstimateAssumption

enrollment == <<country, world, enroll, told, stopped, landing, created, drifts>>
sms == <<nation, owner, words, applied, superseded, carrier, texts, consents, changes>>
link == <<estimate, upload, sweep, texted, recovered, faults>>
language == <<clock, log, choice, prompt, pair, spent, transaction, closed, committed, receipt>>
desk == <<part, triage, enrollment, sms, bakeoff, cdvars, link, demo, language>>

DeskInit ==
    /\ part \in {"case", "sender", "texts", "bakeoff", "closure", "estimate", "demo call", "breaker", "language"}
    /\ TriageInit
    /\ Sender!EnrollInit
    /\ part # "sender" => country = "US" /\ world.member = "absent" /\ ~world.other
    /\ Sms!OwnerInit
    /\ part # "texts" => nation = "US"
    /\ BakeoffInit
    /\ InitDriver
    /\ Link!EstimateInit
    /\ DemoInit
    /\ Choice!ChoiceInit

DeskNext ==
    \/ part = "case" /\ TriageNext /\ UNCHANGED <<part, enrollment, sms, link, demo, bakeoff, language, cdvars>>
    \/ part = "sender" /\ Sender!EnrollNext /\ UNCHANGED <<part, triage, sms, link, demo, bakeoff, language, cdvars>>
    \/ part = "texts" /\ Sms!SmsNext /\ UNCHANGED <<part, triage, enrollment, link, demo, bakeoff, language, cdvars>>
    \/ part = "estimate" /\ Link!EstimateNext /\ UNCHANGED <<part, triage, enrollment, sms, demo, bakeoff, language, cdvars>>
    \/ part = "demo call" /\ CallNext /\ UNCHANGED <<part, triage, enrollment, sms, link, bakeoff, language, cdvars>>
    \/ part = "breaker" /\ BreakerNext /\ UNCHANGED <<part, triage, enrollment, sms, link, bakeoff, language, cdvars>>
    \/ part = "bakeoff" /\ BakeoffNext /\ UNCHANGED <<part, triage, enrollment, sms, link, demo, language, cdvars>>
    \/ part = "language" /\ Choice!ChoiceNext /\ UNCHANGED <<part, triage, enrollment, sms, link, demo, bakeoff, cdvars>>
    \/ part = "closure" /\ NextDriver /\ UNCHANGED <<part, triage, enrollment, sms, link, demo, bakeoff, language>>

DeskSpec == DeskInit /\ [][DeskNext]_desk

\* A case has one instant, or two of them and one of a question, a retry of the analysis and a retry
\* of the deletion. A second turn of a bakeoff call leaves room for three acts.
Short ==
    /\ times'.created = 0 => counts'.question + counts'.analysis + counts'.deletion <= 1
    /\ session'.heard = MaxTurns => Cardinality(Allocated(voice')) < MaxActs

\* What the run explores of DeskSpec.
ShortSpec == DeskInit /\ [][DeskNext /\ Short]_desk

\* However its events interleave, what the product keeps of a case and of texting is true: an analysis
\* has its evidence, an ended case waits for nothing, its times are in order, what it offers it
\* accepts, and its deletion finds room (visual_diagnosis_state.py); an enrolment that says it changed
\* nothing did not, every word and refusal counts once, and a consent is the owner's last word
\* (sms_sender_enrollment.py, db/owner_sms.py); a customer is told once of each attempt at an estimate
\* and of the right media (api/estimates.py); a caller of the demo who is served holds a live lease
\* and was counted, and a usage callback that is answered has suspended the account
\* (services/public_demo.py).
DeskIsOnRecord ==
    /\ part = "case" =>
           /\ TriageTypeOK
           /\ AnalysisHasEvidence /\ EndedCaseHoldsNothing /\ Chronology /\ DeletionFindsRoom /\ OfferIsAccepted
    /\ part = "sender" => Sender!EnrollTypeOK /\ Sender!MutatedIsHonest
    /\ part = "texts" => Sms!SmsTypeOK /\ Sms!EachEventCountsOnce /\ Sms!ConsentIsLastWord
    /\ part = "estimate" => Link!EstimateTypeOK /\ Link!ToldOnce /\ Link!AnswerIsOfMedia /\ Link!SentWasTexted
    /\ part = "demo call" => DemoTypeOK /\ ServedWithinLimit /\ ServedOnceAndCounted
    /\ part = "breaker" => DemoTypeOK /\ SealedIsSuspended

\* Whatever turns, playback, timers and breaks of the session overtake each other, only an act that is
\* waited for may speak, a silent caller is timed from what was heard and is asked before the call is
\* closed, and what is on record as heard was played; a closure frame speaks alone, is returned with
\* its evidence or not at all, and leaves no authority behind (voice_bakeoff_turn_composition.py,
\* voice_bakeoff_silence.py, voice_call_lifecycle.py, voice_bakeoff_closure.py); a choice of language
\* admits the answer that came in time, passes over none, and falls silent
\* (voice_bakeoff_language_choice.py).
SpeechIsAnswerable ==
    /\ part = "bakeoff" =>
           /\ BakeoffTypeOK
           /\ EveryPermitHasAnOwner /\ ClosingIsEarned /\ ClockStartsWhenHeard /\ HeardIsProved
    /\ part = "closure" =>
           /\ ClosureTypeOK
           /\ ClosureSpeaksAlone /\ EvidenceIsWhole /\ NothingOutlivesTheLease
    /\ part = "language" =>
           /\ Choice!ChoiceTypeOK
           /\ Choice!AnswerWasInTime /\ Choice!TimelyAnswerIsKept /\ Choice!ChoiceIsSealed

\* What was decided stands: the output of an analysis is not overtaken by another, a Canadian owner is
\* texted only if nothing has changed by the time the delivery decides to send, a late refusal does not
\* undo a START, a text about an estimate that may not have gone out is kept for an operator, no late
\* callback suspends the account that was restored, authority to speak that was taken back is not regained, and a choice of language
\* ends once (VisualDiagnosisCase.apply, send_owner_sms, record_refusal, _claim_upload,
\* trip_public_demo_breaker, hard_terminalize, issue_terminal_receipt).
DecisionsStand ==
    /\ OutputIsFinal /\ Sms!CanadianTextIsWanted /\ Sms!LateRefusalIsSuperseded /\ AuthorityIsNotRegained
    /\ Link!UncertainTextIsKept /\ RestoredStaysRestored /\ Choice!ChoiceEndsOnce
=============================================================================
