-------------------------------- MODULE OwnerSms --------------------------------
(***************************************************************************)
(* Whether one owner may be texted (src/app/db/owner_sms.py), and the texts *)
(* that are sent (src/app/services/owner_sms.py): STOP and START that the   *)
(* owner texts, refusals (error 21610) that Twilio answers at once or       *)
(* reports later, the switch in the app, the express consent of a Canadian  *)
(* owner and the delivery that reads all of it. Every transition of the     *)
(* preference counts one revision; a refusal carries the revision its       *)
(* message was sent under, a consent the one it was given under.            *)
(***************************************************************************)
EXTENDS Naturals, FiniteSets

CONSTANTS
    Words,      \* messages the owner texts, each with its MessageSid
    Texts,      \* runs of send_owner_sms
    Consents,   \* consent requests from the app
    None,
    MaxChanges  \* bound on flips of the switch and reassignments

\* MessageSids and deliveries are different keys.
SmsAssumption == Words \cap Texts = {} /\ None \notin Nat /\ MaxChanges \in Nat

Bindings == {"b1", "b2"}  \* the owner's phone and the number that texts it

VARIABLES
    nation,    \* "US" or "CA": which rules apply
    owner,     \* the preference, binding and consent on the contractor
    words,     \* each word: unsent, under way, or handled
    applied,   \* events recorded as a transition, one document per key
    superseded,\* refusals recorded as belonging to an older revision
    carrier,   \* the bindings that Twilio itself blocks
    texts,     \* each delivery: where it is and what it read
    consents,  \* each consent request: where it is and what it accepted
    changes

sms == <<nation, owner, words, applied, superseded, carrier, texts, consents, changes>>

NoConsent == [rev |-> None, binding |-> None, by |-> None, state |-> "none"]

OwnerInit ==
    /\ nation \in {"US", "CA"}
    /\ owner = [enabled |-> nation = "US", out |-> FALSE, rev |-> 0, binding |-> "b1", held |-> FALSE,
                consent |-> NoConsent]
    /\ words = [w \in Words |-> [kind |-> "none", at |-> "unsent", binding |-> None]]
    /\ applied = {} /\ superseded = {} /\ carrier = {} /\ changes = 0
    /\ texts = [t \in Texts |-> [at |-> "idle", rev |-> 0, binding |-> None, consent |-> NoConsent]]
    /\ consents = [c \in Consents |-> [at |-> "idle", rev |-> 0, binding |-> None, consent |-> NoConsent]]

------------------------------------------------------------------------------
\* canadian_assignment_valid and valid_canada_consent.
AssignmentValid == ~owner.out /\ ~owner.held
ConsentValid == owner.consent # NoConsent /\ owner.consent.rev = owner.rev /\ owner.consent.binding = owner.binding
DeliveryReady == ConsentValid /\ owner.consent.state = "verified"

\* Seeded fault: a transition that changes nothing does not count.
CountsChanges(opt_out) == [owner EXCEPT !.out = opt_out, !.rev = IF owner.out = opt_out THEN @ ELSE @ + 1]

\* Every new transition counts, even one that changes nothing.
Transition(opt_out) == [owner EXCEPT !.out = opt_out, !.rev = @ + 1]

\* Seeded fault: the documents of earlier events are not looked at.
FirstTimeAlways(key) == TRUE

\* Seeded fault: only the events that were recorded as superseded are looked up.
FirstTimeOfRefusal(key) == key \notin superseded

FirstTime(key) == key \notin applied \cup superseded

\* Seeded fault: a refusal opts out whatever has been said since.
NeverStale(expected) == FALSE

Stale(expected) == expected # None /\ expected # owner.rev

\* apply_owner_sms_consent_transition. A refusal expects the revision it was
\* sent under: a newer word of the owner supersedes it.
Records(key, opt_out, expected, binding) ==
    IF binding # owner.binding \/ ~FirstTime(key) THEN UNCHANGED <<owner, applied, superseded>>
    ELSE IF Stale(expected)
         THEN superseded' = superseded \cup {key} /\ UNCHANGED <<owner, applied>>
    ELSE /\ owner' = Transition(opt_out)
         /\ applied' = applied \cup {key}
         /\ UNCHANGED superseded

------------------------------------------------------------------------------
\* The owner texts STOP or START: Twilio blocks or unblocks the pair at once
\* and posts the message to the webhook.
TextsWord(w, kind) ==
    /\ words[w].at = "unsent"
    /\ words' = [words EXCEPT ![w] = [kind |-> kind, at |-> "posted", binding |-> owner.binding]]
    /\ carrier' = IF kind = "stop" THEN carrier \cup {owner.binding} ELSE carrier \ {owner.binding}
    /\ UNCHANGED <<nation, owner, applied, superseded, texts, consents, changes>>

\* The webhook: a word may be posted again when its answer was lost, and two
\* words may be handled in either order.
HandleWord(w) ==
    /\ words[w].at = "posted"
    /\ Records(w, words[w].kind = "stop", None, words[w].binding)
    /\ \E again \in BOOLEAN : words' = [words EXCEPT ![w].at = IF again THEN "posted" ELSE "handled"]
    /\ UNCHANGED <<nation, carrier, texts, consents, changes>>

------------------------------------------------------------------------------
TextGoes(t, at) == texts' = [texts EXCEPT ![t].at = at]

Others == <<nation, words, carrier, consents, changes>>

\* send_owner_sms reads the contractor: a text that is not wanted is not sent.
ReadOwner(t) ==
    /\ texts[t].at = "idle"
    /\ texts' = [texts EXCEPT ![t] =
                   [at |-> IF ~owner.enabled \/ owner.out \/ (nation = "CA" /\ ~(AssignmentValid /\ DeliveryReady))
                           THEN "suppressed" ELSE IF nation = "CA" THEN "readback" ELSE "send",
                    rev |-> owner.rev, binding |-> owner.binding, consent |-> owner.consent]]
    /\ UNCHANGED <<owner, applied, superseded>> /\ UNCHANGED Others

\* Seeded fault: what was read before the enrollment was read back is trusted.
TrustFirstRead(t) == TRUE

\* The contractor as it is after the readback is the one that was read before.
StillReady(t) ==
    /\ AssignmentValid /\ owner.enabled /\ DeliveryReady
    /\ owner.binding = texts[t].binding /\ owner.consent = texts[t].consent

\* Canada: the sender's enrollment is read back, and then the owner again.
ReadAgain(t) ==
    /\ texts[t].at = "readback"
    /\ \E enrolled \in BOOLEAN :
          IF enrolled /\ StillReady(t)
          THEN texts' = [texts EXCEPT ![t].at = "send", ![t].rev = owner.rev]
          ELSE TextGoes(t, "suppressed")
    /\ UNCHANGED <<owner, applied, superseded>> /\ UNCHANGED Others

\* Twilio takes the message, or refuses one for a pair it blocks.
Create(t) ==
    /\ texts[t].at = "send"
    /\ \/ TextGoes(t, "accepted")
       \/ texts[t].binding \in carrier /\ TextGoes(t, "refused")
       \/ TextGoes(t, "failed")
    /\ UNCHANGED <<owner, applied, superseded>> /\ UNCHANGED Others

\* A refusal is recorded by the sender, or by the status callback of a message
\* that was accepted first; the callback may come late, twice or never.
RecordRefusal(t) ==
    /\ texts[t].at = "refused"
    /\ Records(t, TRUE, texts[t].rev, texts[t].binding)
    /\ TextGoes(t, "recorded")
    /\ UNCHANGED Others

UndeliveredLater(t) ==
    /\ texts[t].at = "accepted" /\ texts[t].binding \in carrier
    /\ TextGoes(t, "undelivered")
    /\ UNCHANGED <<owner, applied, superseded>> /\ UNCHANGED Others

StatusCallback(t) ==
    /\ texts[t].at = "undelivered"
    /\ Records(t, TRUE, texts[t].rev, texts[t].binding)
    /\ UNCHANGED texts /\ UNCHANGED Others

------------------------------------------------------------------------------
ConsentGoes(c, at) == consents' = [consents EXCEPT ![c].at = at]
ConsentFrame == <<nation, words, applied, superseded, carrier, texts, changes>>

\* The app shows the owner's numbers and revision with the disclosure.
ShowDisclosure(c) ==
    /\ nation = "CA" /\ consents[c].at = "idle"
    /\ consents' = [consents EXCEPT ![c] = [@ EXCEPT !.at = "shown", !.rev = owner.rev, !.binding = owner.binding]]
    /\ UNCHANGED owner /\ UNCHANGED ConsentFrame

\* Seeded fault: the revision the disclosure was shown under is not compared.
ShownNumbersHold(c) == consents[c].binding = owner.binding

ShownStillHolds(c) == consents[c].binding = owner.binding /\ consents[c].rev = owner.rev

\* collect_canada_owner_sms_consent: a retry keeps the consent that is there.
CollectConsent(c) ==
    /\ consents[c].at = "shown"
    /\ IF ShownStillHolds(c) /\ AssignmentValid
       THEN /\ owner' = [owner EXCEPT
                  !.enabled = TRUE,
                  !.consent = IF ConsentValid THEN [@ EXCEPT !.state = "pending"]
                              ELSE [rev |-> owner.rev, binding |-> owner.binding, by |-> c, state |-> "pending"]]
            /\ consents' = [consents EXCEPT ![c].at = "enrolling", ![c].consent = owner'.consent]
       ELSE ConsentGoes(c, "conflict") /\ UNCHANGED owner
    /\ UNCHANGED ConsentFrame

\* The enrollment of the sender is ensured while anything else may happen.
EnrollSender(c) ==
    /\ consents[c].at = "enrolling"
    /\ ConsentGoes(c, "verify") \/ ConsentGoes(c, "pending")
    /\ UNCHANGED owner /\ UNCHANGED ConsentFrame

\* verify_canada_owner_sms_delivery: exactly the consent that was accepted.
VerifyDelivery(c) ==
    /\ consents[c].at = "verify"
    /\ IF owner.consent = consents[c].consent /\ AssignmentValid /\ owner.enabled /\ ConsentValid
       THEN owner' = [owner EXCEPT !.consent.state = "verified"] /\ ConsentGoes(c, "answer")
       ELSE ConsentGoes(c, "conflict") /\ UNCHANGED owner
    /\ UNCHANGED ConsentFrame

\* api_owner_sms_consent acknowledges what holds now, not what it wrote.
AnswerConsent(c) ==
    /\ consents[c].at = "answer"
    /\ ConsentGoes(c, IF /\ owner.binding = consents[c].binding /\ owner.rev = consents[c].rev
                         /\ AssignmentValid /\ owner.enabled /\ DeliveryReady
                         /\ owner.consent.by = consents[c].consent.by
                      THEN "ok" ELSE "conflict")
    /\ UNCHANGED owner /\ UNCHANGED ConsentFrame

------------------------------------------------------------------------------
Change ==
    /\ changes < MaxChanges /\ changes' = changes + 1
    /\ UNCHANGED <<nation, words, applied, superseded, carrier, texts, consents>>

\* The switch in the app, a new number or phone, a hold on the account.
FlipSwitch == Change /\ owner' = [owner EXCEPT !.enabled = ~@]
Reassign == Change /\ \E b \in Bindings \ {owner.binding} : owner' = [owner EXCEPT !.binding = b]
HoldAccount == Change /\ owner' = [owner EXCEPT !.held = TRUE]

SmsNext ==
    \/ \E w \in Words : TextsWord(w, "stop") \/ TextsWord(w, "start") \/ HandleWord(w)
    \/ \E t \in Texts : \/ ReadOwner(t) \/ ReadAgain(t) \/ Create(t) \/ RecordRefusal(t)
                        \/ UndeliveredLater(t) \/ StatusCallback(t)
    \/ \E c \in Consents : \/ ShowDisclosure(c) \/ CollectConsent(c) \/ EnrollSender(c)
                           \/ VerifyDelivery(c) \/ AnswerConsent(c)
    \/ FlipSwitch \/ Reassign \/ HoldAccount

------------------------------------------------------------------------------
SmsTypeOK ==
    /\ owner.enabled \in BOOLEAN /\ owner.out \in BOOLEAN /\ owner.held \in BOOLEAN
    /\ owner.rev \in Nat /\ owner.binding \in Bindings
    /\ owner.consent.state \in {"none", "pending", "verified"}
    /\ owner.consent.by \in Consents \cup {None}
    /\ applied \cap superseded = {}

(***************************************************************************)
(* The revision counts each word and each refusal once, however often its   *)
(* webhook is posted: "prevents duplicate transition replay".               *)
(***************************************************************************)
EachEventCountsOnce == owner.rev = Cardinality(applied)

(***************************************************************************)
(* A consent that is valid was given since the owner's last word: there is  *)
(* none while the owner is opted out, and none survives a STOP that a later *)
(* START took back.                                                         *)
(***************************************************************************)
ConsentIsLastWord ==
    ConsentValid => /\ ~owner.out
                    /\ \A c \in Consents : consents[c].at = "verify" /\ consents[c].consent = owner.consent
                                           => consents[c].rev = owner.rev

(***************************************************************************)
(* "STOP, app-off, reassignment and consent changes during readback fail    *)
(* closed": when a delivery to a Canadian owner decides to send, no word    *)
(* was recorded and nothing it relies on has changed since it began.        *)
(***************************************************************************)
CanadianTextIsWanted ==
    [][\A t \in Texts : nation = "CA" /\ texts[t].at # "send" /\ texts'[t].at = "send" =>
          /\ owner.rev = texts[t].rev /\ owner.binding = texts[t].binding
          /\ owner.enabled /\ ~owner.out /\ ~owner.held]_sms

(***************************************************************************)
(* A refusal that arrives late, or again, does not undo a START: it opts    *)
(* the owner out only while no word was recorded since the message that     *)
(* was refused was decided on.                                              *)
(***************************************************************************)
LateRefusalIsSuperseded ==
    [][\A t \in Texts : t \in applied' \ applied => texts[t].rev = owner.rev]_sms
================================================================================
