------------------------------ MODULE DeskProofs ------------------------------
(***************************************************************************)
(* What the desk's run checks of the texts to an owner, of the enrolment of *)
(* a number, of an estimate link, of the public demo and of a visual        *)
(* diagnosis case, proved for every number of words, deliveries, requests,  *)
(* runs, uploads, sweeps, calls and streams, and for every bound.           *)
(***************************************************************************)
EXTENDS MCDesk, FiniteSetTheorems, SequenceTheorems, WellFoundedInduction, TLAPS

-----------------------------------------------------------------------------
LEMMA SameCardinality == \A S : Sms!Cardinality(S) = Cardinality(S)
    BY DEF Sms!Cardinality, Cardinality

-----------------------------------------------------------------------------
(* The texts to an owner.                                                   *)

GivenConsents == [rev : Nat \cup {None}, binding : Sms!Bindings \cup {None}, by : Consents \cup {None},
                  state : {"none", "pending", "verified"}]

SmsTypes ==
    /\ nation \in {"US", "CA"}
    /\ owner \in [enabled : BOOLEAN, out : BOOLEAN, rev : Nat, binding : Sms!Bindings, held : BOOLEAN,
                  consent : GivenConsents]
    /\ words \in [Words -> [kind : {"none", "stop", "start"}, at : {"unsent", "posted", "handled"},
                            binding : Sms!Bindings \cup {None}]]
    /\ applied \subseteq Words \cup Texts /\ IsFiniteSet(applied) /\ applied \cap superseded = {}
    /\ texts \in [Texts -> [at : {"idle", "suppressed", "readback", "send", "accepted", "refused", "failed",
                                  "recorded", "undelivered"},
                            rev : Nat, binding : Sms!Bindings \cup {None}, consent : GivenConsents]]
    /\ consents \in [Consents -> [at : {"idle", "shown", "conflict", "enrolling", "pending", "verify", "answer", "ok"},
                                  rev : Nat, binding : Sms!Bindings \cup {None}, consent : GivenConsents]]

\* A consent is no newer than the owner's last word, and the word it was given under was not a STOP.
ConsentIsOfItsRevision ==
    owner.consent # Sms!NoConsent =>
        /\ owner.consent.rev \in Nat /\ owner.consent.rev <= owner.rev
        /\ owner.consent.rev = owner.rev => ~owner.out

\* What a request accepted, and what a delivery read, is the consent of the revision it saw.
AcceptedAsShown ==
    /\ \A c \in Consents : consents[c].at \in {"enrolling", "verify"} => consents[c].consent.rev = consents[c].rev
    /\ \A t \in Texts : texts[t].at = "readback" => texts[t].consent.rev = texts[t].rev

SmsInv == SmsTypes /\ Sms!EachEventCountsOnce /\ ConsentIsOfItsRevision /\ AcceptedAsShown

\* A word or a refusal that is recorded keeps the consent in its place and counts itself.
LEMMA RecordsCount ==
    ASSUME SmsInv, NEW key \in Words \cup Texts, NEW opt_out \in BOOLEAN, NEW expected \in Nat \cup {None},
           NEW binding, Sms!Records(key, opt_out, expected, binding)
    PROVE  /\ owner' \in [enabled : BOOLEAN, out : BOOLEAN, rev : Nat, binding : Sms!Bindings, held : BOOLEAN,
                          consent : GivenConsents]
           /\ applied' \subseteq Words \cup Texts /\ IsFiniteSet(applied') /\ applied' \cap superseded' = {}
           /\ Sms!EachEventCountsOnce' /\ ConsentIsOfItsRevision'
           /\ applied' # applied => applied' = applied \cup {key} /\ ~Sms!Stale(expected)
<1>1. CASE UNCHANGED <<owner, applied>> /\ superseded' \in {superseded, superseded \cup {key}} /\ key \notin applied
    BY <1>1 DEF SmsInv, SmsTypes, Sms!EachEventCountsOnce, ConsentIsOfItsRevision
<1>2. CASE UNCHANGED <<owner, applied, superseded>>
    BY <1>2 DEF SmsInv, SmsTypes, Sms!EachEventCountsOnce, ConsentIsOfItsRevision
<1>3. CASE /\ owner' = Sms!Transition(opt_out) /\ applied' = applied \cup {key} /\ superseded' = superseded
           /\ key \notin applied \cup superseded /\ ~Sms!Stale(expected)
    <2>1. IsFiniteSet(applied') /\ Cardinality(applied') = Cardinality(applied) + 1
        BY <1>3, FS_AddElement DEF SmsInv, SmsTypes
    <2>2. owner' = [owner EXCEPT !.out = opt_out, !.rev = @ + 1]
        BY <1>3 DEF Sms!Transition
    <2> DEFINE r == [owner EXCEPT !.out = opt_out]
    <2>a. r \in [enabled : BOOLEAN, out : BOOLEAN, rev : Nat, binding : Sms!Bindings, held : BOOLEAN,
                 consent : GivenConsents] /\ r.rev = owner.rev /\ r.consent = owner.consent
        BY DEF SmsInv, SmsTypes
    <2>b. owner' = [r EXCEPT !.rev = r.rev + 1]
        BY <2>2, <2>a
    <2>3. /\ owner' \in [enabled : BOOLEAN, out : BOOLEAN, rev : Nat, binding : Sms!Bindings, held : BOOLEAN,
                         consent : GivenConsents]
          /\ owner'.rev = owner.rev + 1 /\ owner'.consent = owner.consent
        <3> HIDE DEF r
        <3>. QED  BY <2>a, <2>b
    <2>4. owner.rev \in Nat
        BY DEF SmsInv, SmsTypes
    <2>5. ConsentIsOfItsRevision'
        BY <2>3, <2>4 DEF SmsInv, ConsentIsOfItsRevision
    <2>6. Sms!EachEventCountsOnce'
        BY <2>1, <2>3, SameCardinality DEF SmsInv, Sms!EachEventCountsOnce
    <2>7. applied' \subseteq Words \cup Texts /\ applied' \cap superseded' = {}
        BY <1>3 DEF SmsInv, SmsTypes
    <2>. QED  BY <1>3, <2>1, <2>3, <2>5, <2>6, <2>7
<1>. QED  BY <1>1, <1>2, <1>3 DEF Sms!Records, Sms!FirstTime

SmsVars == <<nation, owner, words, applied, superseded, carrier, texts, consents, changes>>

LEMMA SmsStarts == Sms!OwnerInit => SmsInv
<1> SUFFICES ASSUME Sms!OwnerInit PROVE SmsInv
    OBVIOUS
<1>1. Sms!NoConsent \in GivenConsents /\ 0 \in Nat
    BY DEF Sms!NoConsent, GivenConsents
<1>2. IsFiniteSet({}) /\ Cardinality({}) = 0
    BY FS_EmptySet
<1>3. owner \in [enabled : BOOLEAN, out : BOOLEAN, rev : Nat, binding : Sms!Bindings, held : BOOLEAN,
                consent : GivenConsents]
    BY <1>1 DEF Sms!OwnerInit, Sms!Bindings
<1>4. SmsTypes
    BY <1>1, <1>2, <1>3 DEF SmsTypes, Sms!OwnerInit
<1>5. Sms!EachEventCountsOnce
    BY <1>2, SameCardinality DEF Sms!OwnerInit, Sms!EachEventCountsOnce
<1>6. ConsentIsOfItsRevision /\ AcceptedAsShown
    BY DEF Sms!OwnerInit, ConsentIsOfItsRevision, AcceptedAsShown
<1>. QED  BY <1>4, <1>5, <1>6 DEF SmsInv

LEMMA SmsStays == SmsInv /\ UNCHANGED SmsVars => SmsInv'
<1> SUFFICES ASSUME SmsInv, UNCHANGED SmsVars PROVE SmsInv'
    OBVIOUS
<1>1. SmsTypes' /\ Sms!EachEventCountsOnce'
    BY SameCardinality DEF SmsInv, SmsVars, SmsTypes, Sms!EachEventCountsOnce
<1>2. ConsentIsOfItsRevision' /\ AcceptedAsShown'
    BY DEF SmsInv, SmsVars, ConsentIsOfItsRevision, AcceptedAsShown
<1>. QED  BY <1>1, <1>2 DEF SmsInv

LEMMA WordSteps ==
    ASSUME SmsInv, NEW w \in Words, Sms!TextsWord(w, "stop") \/ Sms!TextsWord(w, "start") \/ Sms!HandleWord(w)
    PROVE  SmsInv'
<1>1. ASSUME NEW kind \in {"stop", "start"}, Sms!TextsWord(w, kind) PROVE SmsInv'
    <2>1. words' \in [Words -> [kind : {"none", "stop", "start"}, at : {"unsent", "posted", "handled"},
                               binding : Sms!Bindings \cup {None}]]
        BY <1>1 DEF SmsInv, SmsTypes, Sms!TextsWord
    <2>2. UNCHANGED <<nation, owner, applied, superseded, texts, consents>>
        BY <1>1 DEF Sms!TextsWord
    <2>3. SmsTypes' /\ Sms!EachEventCountsOnce'
        BY <2>1, <2>2, SameCardinality DEF SmsInv, SmsTypes, Sms!EachEventCountsOnce
    <2>4. ConsentIsOfItsRevision' /\ AcceptedAsShown'
        BY <2>2 DEF SmsInv, ConsentIsOfItsRevision, AcceptedAsShown
    <2>. QED  BY <2>3, <2>4 DEF SmsInv
<1>2. ASSUME Sms!HandleWord(w) PROVE SmsInv'
    <2>1. Sms!Records(w, words[w].kind = "stop", None, words[w].binding)
        BY <1>2 DEF Sms!HandleWord
    <2>2. /\ owner' \in [enabled : BOOLEAN, out : BOOLEAN, rev : Nat, binding : Sms!Bindings, held : BOOLEAN,
                         consent : GivenConsents]
          /\ applied' \subseteq Words \cup Texts /\ IsFiniteSet(applied') /\ applied' \cap superseded' = {}
          /\ Sms!EachEventCountsOnce' /\ ConsentIsOfItsRevision'
        BY <2>1, RecordsCount
    <2>3. PICK again \in BOOLEAN : words' = [words EXCEPT ![w].at = IF again THEN "posted" ELSE "handled"]
        BY <1>2 DEF Sms!HandleWord
    <2>4. words' \in [Words -> [kind : {"none", "stop", "start"}, at : {"unsent", "posted", "handled"},
                               binding : Sms!Bindings \cup {None}]]
        BY <2>3 DEF SmsInv, SmsTypes
    <2>5. UNCHANGED <<nation, texts, consents>>
        BY <1>2 DEF Sms!HandleWord
    <2>6. SmsTypes'
        BY <2>2, <2>4, <2>5 DEF SmsInv, SmsTypes
    <2>7. AcceptedAsShown'
        BY <2>5 DEF SmsInv, AcceptedAsShown
    <2>. QED  BY <2>2, <2>6, <2>7 DEF SmsInv
<1>. QED  BY <1>1, <1>2

\* A delivery writes its own record, and the preference only by a refusal it records.
LEMMA TextSteps ==
    ASSUME SmsInv, NEW t \in Texts,
           \/ Sms!ReadOwner(t) \/ Sms!ReadAgain(t) \/ Sms!Create(t) \/ Sms!RecordRefusal(t)
           \/ Sms!UndeliveredLater(t) \/ Sms!StatusCallback(t)
    PROVE  SmsInv'
<1> DEFINE TextRecords == [at : {"idle", "suppressed", "readback", "send", "accepted", "refused", "failed",
                                 "recorded", "undelivered"},
                           rev : Nat, binding : Sms!Bindings \cup {None}, consent : GivenConsents]
           Kept == /\ owner' \in [enabled : BOOLEAN, out : BOOLEAN, rev : Nat, binding : Sms!Bindings, held : BOOLEAN,
                                  consent : GivenConsents]
                   /\ applied' \subseteq Words \cup Texts /\ IsFiniteSet(applied') /\ applied' \cap superseded' = {}
                   /\ Sms!EachEventCountsOnce' /\ ConsentIsOfItsRevision'
           Rest == UNCHANGED <<nation, words, consents>>
<1>u. ASSUME NEW r \in TextRecords, texts' = [texts EXCEPT ![t] = r], r.at = "readback" => r.consent.rev = r.rev,
             Kept, Rest
      PROVE  SmsInv'
    <2>1. SmsTypes'
        BY <1>u DEF SmsInv, SmsTypes
    <2>2. AcceptedAsShown'
        BY <1>u DEF SmsInv, SmsTypes, AcceptedAsShown
    <2>. QED  BY <1>u, <2>1, <2>2 DEF SmsInv
<1>k. UNCHANGED <<owner, applied, superseded>> => Kept
    BY SameCardinality DEF SmsInv, SmsTypes, Sms!EachEventCountsOnce, ConsentIsOfItsRevision
<1>t. texts[t] \in TextRecords /\ texts \in [Texts -> TextRecords]
    BY DEF SmsInv, SmsTypes
<1>g. ASSUME NEW at \in {"suppressed", "send", "accepted", "refused", "failed", "recorded", "undelivered"},
             Sms!TextGoes(t, at), Kept, Rest
      PROVE  SmsInv'
    <2> DEFINE r == [texts[t] EXCEPT !.at = at]
    <2>1. r \in TextRecords /\ r.at # "readback" /\ texts' = [texts EXCEPT ![t] = r]
        BY <1>t, <1>g DEF Sms!TextGoes
    <2>. QED  BY <2>1, <1>u, <1>g
<1>1. CASE Sms!ReadOwner(t)
    <2>1. Kept /\ Rest
        BY <1>1, <1>k DEF Sms!ReadOwner, Sms!Others
    <2> DEFINE at == IF ~owner.enabled \/ owner.out \/ (nation = "CA" /\ ~(Sms!AssignmentValid /\ Sms!DeliveryReady))
                     THEN "suppressed" ELSE IF nation = "CA" THEN "readback" ELSE "send"
               r == [at |-> at, rev |-> owner.rev, binding |-> owner.binding, consent |-> owner.consent]
    <2>2. r \in TextRecords
        BY DEF SmsInv, SmsTypes
    <2>3. r.at = "readback" => r.consent.rev = r.rev
        BY DEF Sms!DeliveryReady, Sms!ConsentValid
    <2>4. texts' = [texts EXCEPT ![t] = r]
        BY <1>1 DEF Sms!ReadOwner
    <2>. QED  BY <2>1, <2>2, <2>3, <2>4, <1>u
<1>2. CASE Sms!ReadAgain(t)
    <2>1. Kept /\ Rest
        BY <1>2, <1>k DEF Sms!ReadAgain, Sms!Others
    <2>2. CASE texts' = [texts EXCEPT ![t].at = "send", ![t].rev = owner.rev]
        <3> DEFINE r == [[texts[t] EXCEPT !.at = "send"] EXCEPT !.rev = owner.rev]
        <3>1. r \in TextRecords /\ r.at # "readback" /\ texts' = [texts EXCEPT ![t] = r]
            BY <1>t, <2>2 DEF SmsInv, SmsTypes
        <3>. QED  BY <3>1, <2>1, <1>u
    <2>3. CASE Sms!TextGoes(t, "suppressed")
        BY <2>1, <2>3, <1>g
    <2>. QED  BY <1>2, <2>2, <2>3 DEF Sms!ReadAgain
<1>3. CASE Sms!Create(t) \/ Sms!UndeliveredLater(t)
    <2>1. Kept /\ Rest
        BY <1>3, <1>k DEF Sms!Create, Sms!UndeliveredLater, Sms!Others
    <2>2. \E at \in {"accepted", "refused", "failed", "undelivered"} : Sms!TextGoes(t, at)
        BY <1>3 DEF Sms!Create, Sms!UndeliveredLater
    <2>. QED  BY <2>1, <2>2, <1>g
<1>4. CASE Sms!RecordRefusal(t) \/ Sms!StatusCallback(t)
    <2>1. Sms!Records(t, TRUE, texts[t].rev, texts[t].binding) /\ Rest
        BY <1>4 DEF Sms!RecordRefusal, Sms!StatusCallback, Sms!Others
    <2>2. Kept
        BY <2>1, <1>t, RecordsCount
    <2>3. CASE Sms!TextGoes(t, "recorded")
        BY <2>1, <2>2, <2>3, <1>g
    <2>4. CASE UNCHANGED texts
        <3>1. SmsTypes' /\ AcceptedAsShown'
            BY <2>1, <2>2, <2>4 DEF SmsInv, SmsTypes, AcceptedAsShown
        <3>. QED  BY <2>2, <3>1 DEF SmsInv
    <2>. QED  BY <1>4, <2>3, <2>4 DEF Sms!RecordRefusal, Sms!StatusCallback
<1>. QED  BY <1>1, <1>2, <1>3, <1>4

\* A request for consent writes its own record, and the preference under the revision that was shown.
LEMMA ConsentSteps ==
    ASSUME SmsInv, NEW c \in Consents,
           \/ Sms!ShowDisclosure(c) \/ Sms!CollectConsent(c) \/ Sms!EnrollSender(c)
           \/ Sms!VerifyDelivery(c) \/ Sms!AnswerConsent(c)
    PROVE  SmsInv'
<1> DEFINE Owners == [enabled : BOOLEAN, out : BOOLEAN, rev : Nat, binding : Sms!Bindings, held : BOOLEAN,
                      consent : GivenConsents]
           Requests == [at : {"idle", "shown", "conflict", "enrolling", "pending", "verify", "answer", "ok"},
                        rev : Nat, binding : Sms!Bindings \cup {None}, consent : GivenConsents]
<1>t. consents \in [Consents -> Requests] /\ consents[c] \in Requests /\ owner \in Owners /\ owner.consent \in GivenConsents
    BY DEF SmsInv, SmsTypes
<1>u. ASSUME NEW r \in Requests, consents' = [consents EXCEPT ![c] = r],
             r.at \in {"enrolling", "verify"} => r.consent.rev = r.rev,
             NEW k \in GivenConsents, k # Sms!NoConsent => k.rev \in Nat /\ k.rev <= owner.rev /\ (k.rev = owner.rev => ~owner.out),
             NEW on \in BOOLEAN, owner' = [[owner EXCEPT !.enabled = on] EXCEPT !.consent = k], UNCHANGED Sms!ConsentFrame
      PROVE  SmsInv'
    <2>0. [owner EXCEPT !.enabled = on] \in Owners
        BY <1>t
    <2>1. owner' \in Owners /\ owner'.rev = owner.rev /\ owner'.out = owner.out /\ owner'.consent = k
        BY <1>t, <1>u, <2>0
    <2>2. SmsTypes'
        BY <1>t, <1>u, <2>1 DEF SmsInv, SmsTypes, Sms!ConsentFrame
    <2>3. Sms!EachEventCountsOnce' /\ ConsentIsOfItsRevision'
        BY <1>u, <2>1, SameCardinality DEF SmsInv, Sms!EachEventCountsOnce, ConsentIsOfItsRevision, Sms!ConsentFrame
    <2>4. AcceptedAsShown'
        BY <1>u, <1>t DEF SmsInv, AcceptedAsShown, Sms!ConsentFrame
    <2>. QED  BY <2>2, <2>3, <2>4 DEF SmsInv
<1>s. UNCHANGED owner => /\ owner' = [[owner EXCEPT !.enabled = owner.enabled] EXCEPT !.consent = owner.consent]
                         /\ owner.enabled \in BOOLEAN
    BY <1>t
<1>k. owner.consent # Sms!NoConsent =>
          owner.consent.rev \in Nat /\ owner.consent.rev <= owner.rev /\ (owner.consent.rev = owner.rev => ~owner.out)
    BY DEF SmsInv, ConsentIsOfItsRevision
<1>g. ASSUME NEW at \in {"conflict", "pending", "verify", "answer", "ok"}, Sms!ConsentGoes(c, at), UNCHANGED Sms!ConsentFrame,
             at = "verify" => consents[c].consent.rev = consents[c].rev,
             NEW k \in GivenConsents, k # Sms!NoConsent => k.rev \in Nat /\ k.rev <= owner.rev /\ (k.rev = owner.rev => ~owner.out),
             owner' = [[owner EXCEPT !.enabled = owner.enabled] EXCEPT !.consent = k]
      PROVE  SmsInv'
    <2> DEFINE r == [consents[c] EXCEPT !.at = at]
    <2>1. r \in Requests /\ consents' = [consents EXCEPT ![c] = r] /\ owner.enabled \in BOOLEAN
        BY <1>t, <1>g DEF Sms!ConsentGoes
    <2>2. r.at \in {"enrolling", "verify"} => r.consent.rev = r.rev
        BY <1>t, <1>g
    <2> HIDE DEF r
    <2>. QED  BY <2>1, <2>2, <1>u, <1>g
<1>1. CASE Sms!ShowDisclosure(c)
    <2> DEFINE r1 == [consents[c] EXCEPT !.at = "shown"]
               r2 == [r1 EXCEPT !.rev = owner.rev]
               r == [r2 EXCEPT !.binding = owner.binding]
    <2>1. consents' = [consents EXCEPT ![c] = r] /\ r \in Requests /\ r.at = "shown"
        <3>1. r1 \in Requests /\ r1.at = "shown"
            BY <1>t
        <3>2. r2 \in Requests /\ r2.at = "shown"
            BY <1>t, <3>1
        <3>3. r \in Requests /\ r.at = "shown"
            BY <1>t, <3>2
        <3>4. consents' = [consents EXCEPT ![c] = r]
            BY <1>1, <1>t DEF Sms!ShowDisclosure
        <3>. QED  BY <3>3, <3>4
    <2>2. UNCHANGED Sms!ConsentFrame /\ UNCHANGED owner
        BY <1>1 DEF Sms!ShowDisclosure
    <2> HIDE DEF r
    <2>. QED  BY <2>1, <2>2, <1>u, <1>s, <1>k, <1>t
<1>2. CASE Sms!CollectConsent(c)
    <2>1. UNCHANGED Sms!ConsentFrame
        BY <1>2 DEF Sms!CollectConsent
    <2>2. CASE Sms!ShownStillHolds(c) /\ Sms!AssignmentValid
        <3> DEFINE k == IF Sms!ConsentValid THEN [owner.consent EXCEPT !.state = "pending"]
                        ELSE [rev |-> owner.rev, binding |-> owner.binding, by |-> c, state |-> "pending"]
                   r1 == [consents[c] EXCEPT !.at = "enrolling"]
                   r == [r1 EXCEPT !.consent = k]
        <3>1. k \in GivenConsents /\ k.rev = owner.rev
            <4>1. CASE Sms!ConsentValid
                BY <4>1, <1>t DEF Sms!ConsentValid, GivenConsents
            <4>2. CASE ~Sms!ConsentValid
                BY <4>2, <1>t DEF GivenConsents
            <4>. QED  BY <4>1, <4>2
        <3>2. owner' = [[owner EXCEPT !.enabled = TRUE] EXCEPT !.consent = k] /\ owner'.consent = k
            BY <1>2, <2>2, <1>t DEF Sms!CollectConsent
        <3>3. consents' = [consents EXCEPT ![c] = r]
            BY <1>2, <2>2, <3>2, <1>t DEF Sms!CollectConsent
        <3>4. r1 \in Requests /\ r1.rev = owner.rev
            BY <1>t, <2>2 DEF Sms!ShownStillHolds
        <3>5. r \in Requests /\ r.consent = k /\ r.rev = owner.rev
            BY <3>1, <3>4
        <3>6. ~owner.out /\ owner.rev \in Nat
            BY <2>2, <1>t DEF Sms!AssignmentValid
        <3> HIDE DEF k, r
        <3>7. k.rev \in Nat /\ k.rev <= owner.rev /\ ~owner.out /\ r.consent.rev = r.rev
            BY <3>1, <3>5, <3>6
        <3>. QED  BY <3>1, <3>2, <3>3, <3>5, <3>7, <2>1, <1>u
    <2>3. CASE Sms!ConsentGoes(c, "conflict") /\ UNCHANGED owner
        BY <2>1, <2>3, <1>g, <1>s, <1>k, <1>t
    <2>. QED  BY <1>2, <2>2, <2>3 DEF Sms!CollectConsent
<1>3. CASE Sms!EnrollSender(c)
    <2>1. UNCHANGED Sms!ConsentFrame /\ UNCHANGED owner /\ consents[c].consent.rev = consents[c].rev
        BY <1>3 DEF Sms!EnrollSender, SmsInv, AcceptedAsShown
    <2>2. \E at \in {"verify", "pending"} : Sms!ConsentGoes(c, at)
        BY <1>3 DEF Sms!EnrollSender
    <2>. QED  BY <2>1, <2>2, <1>g, <1>s, <1>k, <1>t
<1>4. CASE Sms!VerifyDelivery(c)
    <2>1. UNCHANGED Sms!ConsentFrame
        BY <1>4 DEF Sms!VerifyDelivery
    <2>2. CASE owner' = [owner EXCEPT !.consent.state = "verified"] /\ Sms!ConsentGoes(c, "answer") /\ Sms!ConsentValid
        <3> DEFINE k == [owner.consent EXCEPT !.state = "verified"]
        <3>1. k \in GivenConsents /\ k.rev = owner.consent.rev
            BY <1>t DEF GivenConsents
        <3>2. owner' = [[owner EXCEPT !.enabled = owner.enabled] EXCEPT !.consent = k]
            BY <2>2, <1>t
        <3>3. k.rev \in Nat /\ k.rev <= owner.rev /\ (k.rev = owner.rev => ~owner.out)
            BY <3>1, <1>k, <2>2 DEF Sms!ConsentValid
        <3> HIDE DEF k
        <3>. QED  BY <2>1, <2>2, <3>1, <3>2, <3>3, <1>g
    <2>3. CASE Sms!ConsentGoes(c, "conflict") /\ UNCHANGED owner
        BY <2>1, <2>3, <1>g, <1>s, <1>k, <1>t
    <2>. QED  BY <1>4, <2>2, <2>3 DEF Sms!VerifyDelivery
<1>5. CASE Sms!AnswerConsent(c)
    <2>1. UNCHANGED Sms!ConsentFrame /\ UNCHANGED owner
        BY <1>5 DEF Sms!AnswerConsent
    <2>2. \E at \in {"ok", "conflict"} : Sms!ConsentGoes(c, at)
        BY <1>5 DEF Sms!AnswerConsent
    <2>. QED  BY <2>1, <2>2, <1>g, <1>s, <1>k, <1>t
<1>. QED  BY <1>1, <1>2, <1>3, <1>4, <1>5

\* The switch, the numbers and a hold leave the revision and the consent as they are.
LEMMA ChangeSteps ==
    ASSUME SmsInv, Sms!FlipSwitch \/ Sms!Reassign \/ Sms!HoldAccount PROVE SmsInv'
<1> DEFINE Owners == [enabled : BOOLEAN, out : BOOLEAN, rev : Nat, binding : Sms!Bindings, held : BOOLEAN,
                      consent : GivenConsents]
<1>1. owner \in Owners
    BY DEF SmsInv, SmsTypes
<1>2. UNCHANGED <<nation, words, applied, superseded, texts, consents>>
    BY DEF Sms!FlipSwitch, Sms!Reassign, Sms!HoldAccount, Sms!Change
<1>3. owner' \in Owners /\ owner'.rev = owner.rev /\ owner'.out = owner.out /\ owner'.consent = owner.consent
    BY <1>1 DEF Sms!FlipSwitch, Sms!Reassign, Sms!HoldAccount
<1>4. SmsTypes'
    BY <1>2, <1>3 DEF SmsInv, SmsTypes
<1>5. Sms!EachEventCountsOnce' /\ ConsentIsOfItsRevision' /\ AcceptedAsShown'
    BY <1>2, <1>3, SameCardinality DEF SmsInv, Sms!EachEventCountsOnce, ConsentIsOfItsRevision, AcceptedAsShown
<1>. QED  BY <1>4, <1>5 DEF SmsInv

LEMMA SmsStep == SmsInv /\ Sms!SmsNext => SmsInv'
    BY WordSteps, TextSteps, ConsentSteps, ChangeSteps DEF Sms!SmsNext

LEMMA SmsHolds == SmsInv => Sms!SmsTypeOK /\ Sms!EachEventCountsOnce /\ Sms!ConsentIsLastWord
<1> SUFFICES ASSUME SmsInv PROVE Sms!SmsTypeOK /\ Sms!ConsentIsLastWord
    BY DEF SmsInv
<1>1. Sms!SmsTypeOK
    BY DEF SmsInv, SmsTypes, Sms!SmsTypeOK, GivenConsents
<1>2. Sms!ConsentIsLastWord
    BY DEF SmsInv, ConsentIsOfItsRevision, AcceptedAsShown, Sms!ConsentIsLastWord, Sms!ConsentValid
<1>. QED  BY <1>1, <1>2

\* Whoever decides to send to a Canadian has read the owner again under the revision it began with.
LEMMA WantedStep ==
    ASSUME SmsInv, Sms!SmsNext, NEW t \in Texts, nation = "CA", texts[t].at # "send", texts'[t].at = "send"
    PROVE  /\ owner.rev = texts[t].rev /\ owner.binding = texts[t].binding
           /\ owner.enabled /\ ~owner.out /\ ~owner.held
<1>t. texts \in [Texts -> [at : {"idle", "suppressed", "readback", "send", "accepted", "refused", "failed",
                                "recorded", "undelivered"},
                          rev : Nat, binding : Sms!Bindings \cup {None}, consent : GivenConsents]]
    BY DEF SmsInv, SmsTypes
<1>1. texts' # texts
    OBVIOUS
<1>2. \A u \in Texts : Sms!ReadOwner(u) => texts'[t].at # "send"
    BY <1>t DEF Sms!ReadOwner
<1>3. \A u \in Texts, at \in {"suppressed", "accepted", "refused", "failed", "recorded", "undelivered"} :
          Sms!TextGoes(u, at) => texts'[t].at # "send"
    BY <1>t DEF Sms!TextGoes
<1>4. \A u \in Texts : Sms!ReadAgain(u) => u = t /\ texts[t].at = "readback" /\ Sms!StillReady(t)
    <2> SUFFICES ASSUME NEW u \in Texts, Sms!ReadAgain(u)
                 PROVE  u = t /\ texts[t].at = "readback" /\ Sms!StillReady(t)
        OBVIOUS
    <2>1. texts' = [texts EXCEPT ![u].at = "send", ![u].rev = owner.rev] /\ Sms!StillReady(u)
        BY <1>3 DEF Sms!ReadAgain
    <2>2. \A x \in Texts \ {u} : texts'[x] = texts[x]
        BY <2>1, <1>t
    <2>. QED  BY <2>1, <2>2 DEF Sms!ReadAgain
<1>5. Sms!ReadAgain(t)
    BY <1>1, <1>2, <1>3, <1>4 DEF Sms!SmsNext, Sms!TextsWord, Sms!HandleWord, Sms!Create, Sms!RecordRefusal,
       Sms!UndeliveredLater, Sms!StatusCallback, Sms!ShowDisclosure, Sms!CollectConsent, Sms!EnrollSender,
       Sms!VerifyDelivery, Sms!AnswerConsent, Sms!ConsentFrame, Sms!FlipSwitch, Sms!Reassign, Sms!HoldAccount, Sms!Change
<1>6. texts[t].at = "readback" /\ Sms!StillReady(t) /\ texts[t].consent.rev = texts[t].rev
    BY <1>4, <1>5 DEF SmsInv, AcceptedAsShown
<1>. QED  BY <1>6 DEF Sms!StillReady, Sms!AssignmentValid, Sms!DeliveryReady, Sms!ConsentValid

\* A refusal that is counted was of the last revision.
LEMMA SupersededStep ==
    ASSUME SmsInv, Sms!SmsNext, NEW t \in Texts, t \in applied' \ applied
    PROVE  texts[t].rev = owner.rev
<1>1. \A w \in Words : ~Sms!HandleWord(w)
    <2> SUFFICES ASSUME NEW w \in Words, Sms!HandleWord(w) PROVE FALSE
        OBVIOUS
    <2>1. applied' = applied \cup {w}
        BY RecordsCount DEF Sms!HandleWord
    <2>. QED  BY <2>1, DeskAssumption DEF Sms!SmsAssumption
<1>2. \E u \in Texts : Sms!RecordRefusal(u) \/ Sms!StatusCallback(u)
    BY <1>1 DEF Sms!SmsNext, Sms!TextsWord, Sms!ReadOwner, Sms!ReadAgain, Sms!Create, Sms!UndeliveredLater,
       Sms!ShowDisclosure, Sms!CollectConsent, Sms!EnrollSender,
       Sms!VerifyDelivery, Sms!AnswerConsent, Sms!ConsentFrame, Sms!FlipSwitch, Sms!Reassign, Sms!HoldAccount, Sms!Change
<1>3. PICK u \in Texts : Sms!Records(u, TRUE, texts[u].rev, texts[u].binding)
    BY <1>2 DEF Sms!RecordRefusal, Sms!StatusCallback
<1>4. texts[u].rev \in Nat
    BY DEF SmsInv, SmsTypes
<1>5. applied' = applied \cup {u} /\ ~Sms!Stale(texts[u].rev)
    BY <1>3, <1>4, RecordsCount
<1>. QED  BY <1>4, <1>5, DeskAssumption DEF Sms!Stale, Sms!SmsAssumption

-----------------------------------------------------------------------------
(* The enrolment of a number.                                               *)

Stages == Sender!Reading \cup {"ready", "attempt", "creating", "done"}
Told == {"no", "yes", "unknown"}

\* What a run of the US service knows is what it did: it has noted nothing before it creates, and while
\* it has noted nothing it has created nothing; it answers when it ends, and ends when it answers.
KnowsWhatItDid(e) ==
    /\ enroll[e].stage \notin {"raced", "attempt"}
    /\ enroll[e].stage \in {"before", "again", "ready", "creating"} => enroll[e].mutated = "no"
    /\ enroll[e].stage # "done" /\ enroll[e].mutated = "no" => e \notin created \cup landing
    /\ enroll[e].mutated = "yes" => e \in created
    /\ told[e] # Sender!Nothing =>
           /\ enroll[e].stage = "done"
           /\ told[e].mutated = "no" => e \notin created \cup landing
           /\ told[e].mutated = "yes" => e \in created

RunFits(e) ==
    /\ DOMAIN enroll[e] = {"stage", "next", "present", "mutated", "frozen"}
    /\ enroll[e].stage \in Stages /\ enroll[e].mutated \in Told /\ told[e].mutated \in Told
    /\ enroll[e].stage \in Sender!Reading => enroll[e].next \in 1 .. Len(Sender!Reads(enroll[e].stage))
    /\ country = "US" => KnowsWhatItDid(e)

EnrollInv ==
    /\ country \in {"US", "CA"} /\ DOMAIN enroll = Enrolls /\ DOMAIN told = Enrolls
    /\ created \subseteq Enrolls
    /\ \A e \in Enrolls : RunFits(e)

EnrollVars == <<country, world, enroll, told, stopped, landing, created, drifts>>

\* The reads of a stage are at least one, and a membership is looked for only where it is handled.
LEMMA ReadsFit ==
    ASSUME country \in {"US", "CA"}, NEW stage \in Sender!Reading
    PROVE  /\ Len(Sender!Reads(stage)) \in Nat \ {0}
           /\ \A i \in 1 .. Len(Sender!Reads(stage)) : Sender!Reads(stage)[i] = "member" =>
                  /\ stage # "raced" /\ (stage = "again" => country = "CA")
                  /\ stage = "before" /\ country = "CA" => i < Len(Sender!Reads(stage))
<1>1. CASE stage = "before"
    BY <1>1 DEF Sender!Reads
<1>2. CASE stage = "again"
    BY <1>2 DEF Sender!Reads
<1>3. CASE stage = "raced"
    BY <1>3 DEF Sender!Reads
<1>4. CASE stage = "after"
    BY <1>4 DEF Sender!Reads
<1>. QED  BY <1>1, <1>2, <1>3, <1>4 DEF Sender!Reading

\* A step of one run leaves the others as they were.
LEMMA OneRunMoves ==
    ASSUME EnrollInv, NEW e \in Enrolls, country' = country, DOMAIN enroll' = Enrolls, DOMAIN told' = Enrolls,
           created' \in {created, created \cup {e}}, landing' \in {landing, landing \cup {e}, landing \ {e}},
           \A d \in Enrolls \ {e} : enroll'[d] = enroll[d] /\ told'[d] = told[d],
           RunFits(e)'
    PROVE  EnrollInv'
<1>1. ASSUME NEW d \in Enrolls \ {e} PROVE RunFits(d)'
    <2>1. RunFits(d)
        BY DEF EnrollInv
    <2>2. KnowsWhatItDid(d) => KnowsWhatItDid(d)'
        BY <1>1 DEF KnowsWhatItDid
    <2>. QED  BY <1>1, <2>1, <2>2 DEF RunFits, Sender!Reads
<1>. QED  BY <1>1 DEF EnrollInv

LEMMA EnrollStarts == Sender!EnrollInit => EnrollInv
<1> SUFFICES ASSUME Sender!EnrollInit PROVE EnrollInv
    OBVIOUS
<1>1. country \in {"US", "CA"} /\ "before" \in Sender!Reading
    BY DEF Sender!EnrollInit, Sender!Reading
<1>2. 1 \in 1 .. Len(Sender!Reads("before"))
    BY <1>1, ReadsFit
<1>3. ASSUME NEW e \in Enrolls PROVE RunFits(e)
    BY <1>1, <1>2 DEF Sender!EnrollInit, Sender!Nothing, RunFits, KnowsWhatItDid, Stages, Told
<1>. QED  BY <1>1, <1>3 DEF EnrollInv, Sender!EnrollInit

LEMMA EnrollStays == EnrollInv /\ UNCHANGED EnrollVars => EnrollInv'
    BY ZenonT(60) DEF EnrollInv, EnrollVars, RunFits, KnowsWhatItDid, Sender!Reads

\* A run goes on to a later read, or to the reads of the next stage.
LEMMA RunGoesOn ==
    ASSUME EnrollInv, NEW e \in Enrolls, UNCHANGED <<country, told, landing, created>>, enroll[e].stage \in Sender!Reading,
           DOMAIN enroll' = Enrolls, \A d \in Enrolls \ {e} : enroll'[d] = enroll[d],
           DOMAIN enroll'[e] = DOMAIN enroll[e], enroll'[e].mutated = enroll[e].mutated,
           enroll'[e].stage \in Stages,
           enroll'[e].stage \in Sender!Reading => enroll'[e].next \in 1 .. Len(Sender!Reads(enroll'[e].stage)),
           country = "US" => enroll'[e].stage \in {enroll[e].stage, IF enroll[e].stage = "before" THEN "again" ELSE "ready"},
           country = "US" /\ enroll[e].stage = "after" => enroll'[e].stage = "after"
    PROVE  EnrollInv'
<1>1. RunFits(e)
    BY DEF EnrollInv
<1>2. country = "US" => KnowsWhatItDid(e)'
    BY <1>1 DEF RunFits, KnowsWhatItDid, Sender!Reading
<1>3. RunFits(e)'
    BY <1>1, <1>2 DEF RunFits, Sender!Reads
<1>. QED  BY <1>3, OneRunMoves DEF EnrollInv

\* A run ends, and says what it knows.
LEMMA RunEnds ==
    ASSUME EnrollInv, NEW e \in Enrolls, UNCHANGED <<country, created, landing>>, NEW outcome, NEW mutated \in Told,
           Sender!Finish(e, outcome, mutated), enroll[e].stage # "done",
           country = "US" => mutated = enroll[e].mutated \/ (mutated = "no" /\ enroll[e].stage \in {"before", "creating"})
    PROVE  EnrollInv'
<1>1. RunFits(e) /\ DOMAIN enroll = Enrolls /\ DOMAIN told = Enrolls
    BY DEF EnrollInv
<1>2. /\ DOMAIN enroll' = Enrolls /\ enroll'[e] = [enroll[e] EXCEPT !.stage = "done"]
      /\ \A d \in Enrolls \ {e} : enroll'[d] = enroll[d]
    BY <1>1 DEF Sender!Finish, Sender!Ended
<1>3. /\ DOMAIN enroll'[e] = DOMAIN enroll[e] /\ enroll'[e].stage = "done" /\ enroll'[e].mutated = enroll[e].mutated
    BY <1>1, <1>2 DEF RunFits
<1>4. /\ DOMAIN told' = Enrolls /\ \A d \in Enrolls \ {e} : told'[d] = told[d]
      /\ told'[e] = told[e] \/ told'[e] = [status |-> outcome, mutated |-> mutated]
      /\ told'[e] = told[e] => told[e] # Sender!Nothing \/ told'[e] = Sender!Nothing
    BY <1>1 DEF Sender!Finish, Sender!Tell
<1>5. country = "US" => KnowsWhatItDid(e)'
    BY <1>1, <1>3, <1>4 DEF RunFits, KnowsWhatItDid
<1>6. RunFits(e)'
    BY <1>1, <1>3, <1>4, <1>5 DEF RunFits, Stages, Sender!Reading
<1>. QED  BY <1>2, <1>4, <1>6, OneRunMoves

LEMMA KnownFits == \A e \in Enrolls : EnrollInv => Sender!Known(e) \in Told /\ (country = "US" => Sender!Known(e) = enroll[e].mutated)
    BY DEF Sender!Known, EnrollInv, RunFits, Told

LEMMA RunRefuses ==
    ASSUME EnrollInv, NEW e \in Enrolls, UNCHANGED <<country, created, landing>>, Sender!Refuse(e), enroll[e].stage # "done"
    PROVE  EnrollInv'
    BY RunEnds, KnownFits DEF Sender!Refuse

\* The steps that only read.
LEMMA NextRead ==
    ASSUME EnrollInv, NEW e \in Enrolls, NEW item, UNCHANGED <<country, landing, created>>,
           enroll[e].stage \in Sender!Reading, enroll[e].next < Len(Sender!Reads(enroll[e].stage)), Sender!ReadOn(e, item)
    PROVE  EnrollInv'
<1>1. RunFits(e) /\ DOMAIN enroll = Enrolls /\ country \in {"US", "CA"}
    BY DEF EnrollInv
<1>2. Len(Sender!Reads(enroll[e].stage)) \in Nat
    BY <1>1, ReadsFit
<1>3. /\ DOMAIN enroll' = Enrolls /\ \A d \in Enrolls \ {e} : enroll'[d] = enroll[d]
      /\ DOMAIN enroll'[e] = DOMAIN enroll[e] /\ enroll'[e].mutated = enroll[e].mutated
      /\ enroll'[e].stage = enroll[e].stage /\ enroll'[e].next = enroll[e].next + 1 /\ UNCHANGED told
    BY <1>1 DEF Sender!ReadOn, RunFits
<1>4. enroll'[e].next \in 1 .. Len(Sender!Reads(enroll'[e].stage))
    BY <1>1, <1>2, <1>3 DEF RunFits
<1>. QED  BY <1>1, <1>3, <1>4, RunGoesOn DEF RunFits

LEMMA NextStage ==
    ASSUME EnrollInv, NEW e \in Enrolls, UNCHANGED <<country, landing, created>>,
           enroll[e].stage \in Sender!Reading, NEW stage \in Stages \ {"done"}, Sender!Goes(e, stage),
           country = "US" => /\ enroll[e].stage \in {"before", "again"}
                             /\ stage = IF enroll[e].stage = "before" THEN "again" ELSE "ready"
    PROVE  EnrollInv'
<1>1. RunFits(e) /\ DOMAIN enroll = Enrolls /\ country \in {"US", "CA"}
    BY DEF EnrollInv
<1>2. /\ DOMAIN enroll' = Enrolls /\ \A d \in Enrolls \ {e} : enroll'[d] = enroll[d]
      /\ DOMAIN enroll'[e] = DOMAIN enroll[e] /\ enroll'[e].mutated = enroll[e].mutated
      /\ enroll'[e].stage = stage /\ enroll'[e].next = 1 /\ UNCHANGED told
    BY <1>1 DEF Sender!Goes, RunFits
<1>3. stage \in Sender!Reading => 1 \in 1 .. Len(Sender!Reads(stage))
    BY <1>1, ReadsFit
<1>. QED  BY <1>1, <1>2, <1>3, RunGoesOn

LEMMA StageCompletes ==
    ASSUME EnrollInv, NEW e \in Enrolls, UNCHANGED <<country, landing, created>>,
           enroll[e].stage \in Sender!Reading, Sender!Completes(e)
    PROVE  EnrollInv'
<1>1. RunFits(e)
    BY DEF EnrollInv
<1>2. CASE enroll[e].stage \in {"before", "again"}
    BY <1>2, NextStage DEF Sender!Completes, Stages, Sender!Reading
<1>3. CASE enroll[e].stage = "raced"
    <2>1. Sender!Finish(e, "already", "no")
        BY <1>3 DEF Sender!Completes
    <2>2. country # "US" /\ "no" \in Told
        BY <1>1, <1>3 DEF RunFits, KnowsWhatItDid, Told
    <2>. QED  BY <1>3, <2>1, <2>2, RunEnds
<1>4. CASE enroll[e].stage = "after"
    <2>1. Sender!Finish(e, "enrolled", enroll[e].mutated)
        BY <1>4 DEF Sender!Completes
    <2>2. enroll[e].mutated \in Told
        BY <1>1 DEF RunFits
    <2>. QED  BY <1>4, <2>1, <2>2, RunEnds
<1>. QED  BY <1>2, <1>3, <1>4 DEF Sender!Reading

LEMMA ReadSteps ==
    ASSUME EnrollInv, NEW e \in Enrolls, Sender!ReadPrecondition(e) \/ Sender!ReadMember(e)
    PROVE  EnrollInv'
<1> DEFINE p == enroll[e]
           item == Sender!Reads(p.stage)[p.next]
<1>1. /\ p.stage \in Sender!Reading /\ p.stage # "done" /\ UNCHANGED <<country, landing, created>>
      /\ RunFits(e) /\ country \in {"US", "CA"}
    BY DEF Sender!ReadPrecondition, Sender!ReadMember, Sender!Reading, EnrollInv
<1>2. p.next \in 1 .. Len(Sender!Reads(p.stage)) /\ Len(Sender!Reads(p.stage)) \in Nat
    BY <1>1, ReadsFit DEF RunFits
<1>3. ~Sender!LastRead(e) => p.next < Len(Sender!Reads(p.stage))
    BY <1>2 DEF Sender!LastRead
<1>4. CASE Sender!ReadPrecondition(e)
    <2>1. CASE Sender!Refuse(e)
        BY <1>1, <2>1, RunRefuses
    <2>2. CASE Sender!Completes(e)
        BY <1>1, <2>2, StageCompletes
    <2>3. CASE ~Sender!LastRead(e) /\ Sender!ReadOn(e, item)
        BY <1>1, <1>3, <2>3, NextRead
    <2>. QED  BY <1>4, <2>1, <2>2, <2>3 DEF Sender!ReadPrecondition
<1>5. CASE Sender!ReadMember(e)
    <2>1. item = "member"
        BY <1>5 DEF Sender!ReadMember
    <2>2. /\ p.stage # "raced" /\ (p.stage = "again" => country = "CA")
          /\ p.stage = "before" /\ country = "CA" => p.next < Len(Sender!Reads(p.stage))
        BY <1>1, <1>2, <2>1, ReadsFit
    <2>3. CASE Sender!Refuse(e)
        BY <1>1, <2>3, RunRefuses
    <2>4. CASE p.stage = "before" /\ country = "US" /\ ~Sender!Refuse(e)
        <3>1. Sender!Finish(e, "already", "no") \/ Sender!Completes(e)
            BY <1>5, <2>4 DEF Sender!ReadMember
        <3>. QED  BY <1>1, <2>4, <3>1, RunEnds, StageCompletes DEF Told
    <2>5. CASE p.stage = "before" /\ country = "CA" /\ ~Sender!Refuse(e)
        <3>1. enroll' = [enroll EXCEPT ![e].next = @ + 1, ![e].present = (world.member = "ours")] /\ UNCHANGED told
            BY <1>5, <2>5 DEF Sender!ReadMember
        <3>2. /\ DOMAIN enroll' = Enrolls /\ \A d \in Enrolls \ {e} : enroll'[d] = enroll[d]
              /\ DOMAIN enroll'[e] = DOMAIN enroll[e] /\ enroll'[e].mutated = enroll[e].mutated
              /\ enroll'[e].stage = enroll[e].stage /\ enroll'[e].next = enroll[e].next + 1
            BY <1>1, <3>1 DEF RunFits, EnrollInv
        <3>3. enroll'[e].next \in 1 .. Len(Sender!Reads(enroll'[e].stage))
            BY <1>2, <2>2, <2>5, <3>2
        <3>. QED  BY <1>1, <2>5, <3>1, <3>2, <3>3, RunGoesOn DEF RunFits
    <2>6. CASE p.stage = "again" /\ ~Sender!Refuse(e)
        <3>1. \/ Sender!Finish(e, "already", "no") \/ Sender!Finish(e, "skipped", "no")
              \/ Sender!Goes(e, "raced") \/ Sender!Goes(e, "ready")
            BY <1>5, <2>6 DEF Sender!ReadMember
        <3>. QED  BY <1>1, <2>2, <2>6, <3>1, RunEnds, NextStage DEF Told, Stages, Sender!Reading
    <2>7. CASE p.stage = "after" /\ ~Sender!Refuse(e)
        <3>1. \/ Sender!Finish(e, "uncertain", p.mutated) \/ Sender!Completes(e)
              \/ ~Sender!LastRead(e) /\ Sender!ReadOn(e, "assignment")
            BY <1>5, <2>7 DEF Sender!ReadMember
        <3>2. p.mutated \in Told
            BY <1>1 DEF RunFits
        <3>. QED  BY <1>1, <1>3, <3>1, <3>2, RunEnds, StageCompletes, NextRead
    <2>. QED  BY <1>1, <2>2, <2>3, <2>4, <2>5, <2>6, <2>7 DEF Sender!Reading
<1>. QED  BY <1>4, <1>5

LEMMA GuardSteps ==
    ASSUME EnrollInv, NEW e \in Enrolls, Sender!GuardRefuses(e) \/ Sender!ReadFails(e)
    PROVE  EnrollInv'
    BY RunEnds, KnownFits DEF Sender!GuardRefuses, Sender!ReadFails, Sender!Reading

\* The creation and its answer, which may be lost.
LEMMA CreateStep ==
    ASSUME EnrollInv, NEW e \in Enrolls, Sender!Create(e)
    PROVE  EnrollInv'
<1>1. RunFits(e) /\ DOMAIN enroll = Enrolls /\ DOMAIN told = Enrolls
    BY DEF EnrollInv
<1>2. /\ DOMAIN enroll' = Enrolls /\ \A d \in Enrolls \ {e} : enroll'[d] = enroll[d]
      /\ DOMAIN enroll'[e] = DOMAIN enroll[e]
      /\ enroll'[e].stage = IF country = "CA" /\ enroll[e].stage = "ready" THEN "attempt" ELSE "creating"
      /\ enroll'[e].mutated = IF country = "CA" /\ enroll[e].stage = "attempt" THEN "yes" ELSE enroll[e].mutated
    BY <1>1 DEF Sender!Create, RunFits
<1>3. UNCHANGED <<country, told, created, landing>> /\ enroll[e].stage \in {"ready", "attempt"}
    BY DEF Sender!Create
<1>4. country = "US" => KnowsWhatItDid(e)'
    BY <1>1, <1>2, <1>3 DEF RunFits, KnowsWhatItDid
<1>5. RunFits(e)'
    BY <1>1, <1>2, <1>3, <1>4 DEF RunFits, Stages, Told, Sender!Reading
<1>. QED  BY <1>1, <1>2, <1>3, <1>5, OneRunMoves

\* A run comes back from its creation, and reads back what it holds.
LEMMA ReadsBack ==
    ASSUME EnrollInv, NEW e \in Enrolls, UNCHANGED <<country, told>>, enroll[e].stage = "creating", NEW mutated \in Told,
           DOMAIN enroll' = Enrolls, \A d \in Enrolls \ {e} : enroll'[d] = enroll[d],
           DOMAIN enroll'[e] = DOMAIN enroll[e], enroll'[e].stage = "after", enroll'[e].next = 1, enroll'[e].mutated = mutated,
           created' \in {created, created \cup {e}}, landing' \in {landing, landing \cup {e}},
           mutated # "no", mutated = "yes" => e \in created'
    PROVE  EnrollInv'
<1>1. RunFits(e) /\ DOMAIN told = Enrolls /\ country \in {"US", "CA"}
    BY DEF EnrollInv
<1>2. 1 \in 1 .. Len(Sender!Reads("after"))
    BY <1>1, ReadsFit DEF Sender!Reading
<1>3. country = "US" => KnowsWhatItDid(e)'
    BY <1>1 DEF RunFits, KnowsWhatItDid
<1>4. RunFits(e)'
    BY <1>1, <1>2, <1>3 DEF RunFits, Stages, Sender!Reading, Sender!Reads
<1>. QED  BY <1>1, <1>4, OneRunMoves

LEMMA CarriedFits ==
    ASSUME NEW e, Sender!Carried(e)
    PROVE  /\ created' \in {created, created \cup {e}}
           /\ world.member = "absent" /\ ~world.other => created' = created \cup {e}
           /\ world.other => created' = created
    BY DEF Sender!Carried

LEMMA AnsweredStep ==
    ASSUME EnrollInv, NEW e \in Enrolls, Sender!CreateAnswered(e)
    PROVE  EnrollInv'
<1>1. RunFits(e) /\ DOMAIN enroll = Enrolls /\ country \in {"US", "CA"}
    BY DEF EnrollInv
<1>2. enroll[e].stage = "creating" /\ UNCHANGED <<country, landing>> /\ Sender!Carried(e)
    BY DEF Sender!CreateAnswered
<1>3. ASSUME NEW mutated \in Told, enroll' = [enroll EXCEPT ![e].stage = "after", ![e].next = 1, ![e].mutated = mutated]
      PROVE  /\ DOMAIN enroll' = Enrolls /\ \A d \in Enrolls \ {e} : enroll'[d] = enroll[d]
             /\ DOMAIN enroll'[e] = DOMAIN enroll[e] /\ enroll'[e].stage = "after" /\ enroll'[e].next = 1
             /\ enroll'[e].mutated = mutated
    BY <1>1, <1>3 DEF RunFits
<1>4. CASE world.other /\ world.member = "absent"
    <2>1. UNCHANGED created
        BY <1>2, <1>4, CarriedFits
    <2>2. Sender!Finish(e, IF country = "US" THEN "rejected" ELSE "uncertain", IF country = "US" THEN "no" ELSE "unknown")
        BY <1>4 DEF Sender!CreateAnswered
    <2>. QED  BY <1>2, <2>1, <2>2, RunEnds DEF Told
<1>5. CASE world.member = "absent" /\ ~world.other
    <2>1. e \in created' /\ created' \in {created, created \cup {e}}
        BY <1>2, <1>5, CarriedFits
    <2>2. enroll' = [enroll EXCEPT ![e].stage = "after", ![e].next = 1, ![e].mutated = "yes"] /\ UNCHANGED told
        BY <1>5 DEF Sender!CreateAnswered
    <2>3. "yes" \in Told
        BY DEF Told
    <2>. QED  BY <1>2, <1>3, <2>1, <2>2, <2>3, ReadsBack
<1>6. CASE world.member # "absent"
    <2>1. UNCHANGED created
        BY <1>2, <1>6 DEF Sender!Carried
    <2>2. CASE country = "US"
        <3>1. enroll' = [enroll EXCEPT ![e].stage = "after", ![e].next = 1, ![e].mutated = "unknown"] /\ UNCHANGED told
            BY <1>6, <2>2 DEF Sender!CreateAnswered
        <3>2. "unknown" \in Told
            BY DEF Told
        <3>. QED  BY <1>2, <1>3, <2>1, <3>1, <3>2, ReadsBack
    <2>3. CASE country # "US"
        BY <1>2, <1>6, <2>1, <2>3, RunEnds DEF Sender!CreateAnswered, Told
    <2>. QED  BY <2>2, <2>3
<1>. QED  BY <1>4, <1>5, <1>6

LEMMA LostStep ==
    ASSUME EnrollInv, NEW e \in Enrolls, Sender!CreateLost(e)
    PROVE  EnrollInv'
<1>1. RunFits(e) /\ DOMAIN enroll = Enrolls /\ DOMAIN told = Enrolls /\ country \in {"US", "CA"}
    BY DEF EnrollInv
<1>2. enroll[e].stage = "creating" /\ UNCHANGED <<country, created>> /\ landing' = landing \cup {e} /\ "unknown" \in Told
    BY DEF Sender!CreateLost, Told
<1>3. CASE country = "US"
    <2>1. enroll' = [enroll EXCEPT ![e].stage = "after", ![e].next = 1, ![e].mutated = "unknown"] /\ UNCHANGED told
        BY <1>3 DEF Sender!CreateLost, Sender!LostMeansUnknown
    <2>2. /\ DOMAIN enroll' = Enrolls /\ \A d \in Enrolls \ {e} : enroll'[d] = enroll[d]
          /\ DOMAIN enroll'[e] = DOMAIN enroll[e] /\ enroll'[e].stage = "after" /\ enroll'[e].next = 1
          /\ enroll'[e].mutated = "unknown"
        BY <1>1, <2>1 DEF RunFits
    <2>. QED  BY <1>2, <2>1, <2>2, ReadsBack
<1>4. CASE country = "CA"
    <2>1. Sender!Finish(e, "uncertain", "unknown")
        BY <1>4 DEF Sender!CreateLost, Sender!LostMeansUnknown
    <2>2. /\ DOMAIN enroll' = Enrolls /\ DOMAIN told' = Enrolls
          /\ \A d \in Enrolls \ {e} : enroll'[d] = enroll[d] /\ told'[d] = told[d]
          /\ DOMAIN enroll'[e] = DOMAIN enroll[e] /\ enroll'[e].stage = "done" /\ enroll'[e].mutated = enroll[e].mutated
          /\ told'[e].mutated \in Told
        BY <1>1, <1>2, <2>1 DEF Sender!Finish, Sender!Ended, Sender!Tell, RunFits
    <2>3. RunFits(e)'
        BY <1>1, <1>2, <1>4, <2>2 DEF RunFits, Stages, Sender!Reading
    <2>. QED  BY <1>2, <2>2, <2>3, OneRunMoves
<1>. QED  BY <1>1, <1>3, <1>4

\* A creation that was given up on is carried out later.
LEMMA LandsStep ==
    ASSUME EnrollInv, NEW e \in Enrolls, Sender!Lands(e)
    PROVE  EnrollInv'
<1>1. RunFits(e) /\ DOMAIN enroll = Enrolls /\ DOMAIN told = Enrolls
    BY DEF EnrollInv
<1>2. /\ e \in landing /\ landing' = landing \ {e} /\ created' \in {created, created \cup {e}}
      /\ UNCHANGED <<country, enroll, told>>
    BY CarriedFits DEF Sender!Lands
<1>3. country = "US" => KnowsWhatItDid(e)'
    BY <1>1, <1>2 DEF RunFits, KnowsWhatItDid
<1>4. RunFits(e)'
    BY <1>1, <1>2, <1>3 DEF RunFits, Sender!Reads
<1>. QED  BY <1>1, <1>2, <1>4, OneRunMoves

\* The caller gives up: the US run ends with it, the Canadian one goes on to its next guard.
LEMMA GivesUpSteps ==
    ASSUME EnrollInv, NEW e \in Enrolls, Sender!OutOfBudget(e) \/ Sender!Cancelled(e)
    PROVE  EnrollInv'
<1>1. RunFits(e) /\ DOMAIN enroll = Enrolls /\ DOMAIN told = Enrolls /\ Sender!Known(e) \in Told
    BY KnownFits DEF EnrollInv
<1>2. enroll[e].stage # "done" /\ UNCHANGED <<country, created>>
    BY DEF Sender!OutOfBudget, Sender!Cancelled
<1>3. CASE Sender!OutOfBudget(e)
    <2>1. UNCHANGED <<enroll, landing>> /\ (country = "US" => UNCHANGED told)
        BY <1>3 DEF Sender!OutOfBudget
    <2>2. DOMAIN told' = Enrolls /\ told'[e].mutated \in Told /\ \A d \in Enrolls \ {e} : told'[d] = told[d]
        BY <1>1, <1>3 DEF Sender!OutOfBudget, Sender!Tell, RunFits
    <2>3. country = "US" => KnowsWhatItDid(e)'
        BY <1>1, <1>2, <2>1 DEF RunFits, KnowsWhatItDid
    <2>4. RunFits(e)'
        BY <1>1, <1>2, <2>1, <2>2, <2>3 DEF RunFits, Sender!Reads
    <2>. QED  BY <1>1, <1>2, <2>1, <2>2, <2>4, OneRunMoves
<1>4. CASE Sender!Cancelled(e)
    <2>1. /\ DOMAIN told' = Enrolls /\ \A d \in Enrolls \ {e} : told'[d] = told[d]
          /\ told'[e].mutated \in Told
          /\ told[e] = Sender!Nothing => told'[e].mutated = "unknown"
        BY <1>1, <1>4 DEF Sender!Cancelled, RunFits, Told
    <2>2. landing' \in {landing, landing \cup {e}}
        BY <1>4 DEF Sender!Cancelled
    <2>3. CASE country = "US"
        <3>1. /\ DOMAIN enroll' = Enrolls /\ \A d \in Enrolls \ {e} : enroll'[d] = enroll[d]
              /\ DOMAIN enroll'[e] = DOMAIN enroll[e] /\ enroll'[e].stage = "done" /\ enroll'[e].mutated = enroll[e].mutated
            BY <1>1, <1>4, <2>3 DEF Sender!Cancelled, Sender!Ended, RunFits
        <3>2. KnowsWhatItDid(e)'
            BY <1>1, <1>2, <2>1, <2>3, <3>1 DEF RunFits, KnowsWhatItDid
        <3>3. RunFits(e)'
            BY <1>1, <1>2, <2>1, <3>1, <3>2 DEF RunFits, Stages, Sender!Reading
        <3>. QED  BY <1>2, <2>1, <2>2, <3>1, <3>3, OneRunMoves
    <2>4. CASE country # "US"
        <3>1. UNCHANGED enroll
            BY <1>4, <2>4 DEF Sender!Cancelled
        <3>2. RunFits(e)'
            BY <1>1, <1>2, <2>1, <2>4, <3>1 DEF RunFits, Sender!Reads
        <3>. QED  BY <1>1, <1>2, <2>1, <2>2, <3>1, <3>2, OneRunMoves
    <2>. QED  BY <2>3, <2>4
<1>. QED  BY <1>3, <1>4

LEMMA EnrollStep == EnrollInv /\ Sender!EnrollNext => EnrollInv'
<1> SUFFICES ASSUME EnrollInv, Sender!EnrollNext PROVE EnrollInv'
    OBVIOUS
<1>1. CASE Sender!Drift
    BY <1>1 DEF Sender!Drift, EnrollInv, RunFits, KnowsWhatItDid, Sender!Reads
<1>2. CASE ~Sender!Drift
    BY <1>2, ReadSteps, GuardSteps, CreateStep, AnsweredStep, LostStep, LandsStep, GivesUpSteps DEF Sender!EnrollNext
<1>. QED  BY <1>1, <1>2

LEMMA EnrollHolds == EnrollInv => Sender!EnrollTypeOK /\ Sender!MutatedIsHonest
<1> SUFFICES ASSUME EnrollInv PROVE Sender!EnrollTypeOK /\ Sender!MutatedIsHonest
    OBVIOUS
<1>1. Sender!EnrollTypeOK
    BY DEF EnrollInv, RunFits, Stages, Told, Sender!EnrollTypeOK
<1>2. Sender!MutatedIsHonest
    BY DEF EnrollInv, RunFits, KnowsWhatItDid, Sender!MutatedIsHonest, Sender!MayHaveCreated
<1>. QED  BY <1>1, <1>2

-----------------------------------------------------------------------------
(* The public demo: the calls.                                              *)

LEMMA DemoConstants ==
    /\ ConcurrencyLimit \in Nat \ {0} /\ DailyLimit \in Nat \ {0} /\ MaxDuration \in Nat \ {0} /\ Setup \in Nat \ {0}
    /\ LeaseTTL \in Nat /\ MaxAge \in Nat /\ Skew \in Nat /\ LastInstant \in Nat /\ MaxDemoFaults \in Nat
    /\ LeaseTTL >= MaxDuration + Setup /\ Replayed \subseteq DemoCalls
    BY DemoAssumption DEF validate_runtime_safety

StreamsOf(c) == {s \in Streams : s[1] = c}

\* A stream claims in the instant it is opened, under a good token, and while its line is open the lease
\* outlives the longest stream that may begin now; whoever was served had the claim for as long as the token.
StreamFits(s) ==
    LET c == s[1]
        l == line[c]
    IN  /\ stream[s].at = "claim" =>
               /\ stream[s].since = now /\ now < l.token
               /\ l.at = "streaming" => leases[c] > now + MaxDuration \/ claims[c] >= l.token
        /\ stream[s].at = "serving" =>
               /\ stream[s].since <= now /\ now <= stream[s].since + MaxDuration
               /\ l.at = "streaming" => leases[c] > stream[s].since + MaxDuration
        /\ stream[s].at \in {"serving", "closing"} => claims[c] >= l.token
        /\ stream[s].at = "closing" => l.at # "streaming"

\* A line that waits has waited less than the set-up margin; once it was admitted its lease covers the margin
\* and the call, and so does its token; it has no stream yet. An open line has a stream, or a claim was made.
LineFits(c) ==
    LET l == line[c] IN
    /\ l.at \in {"asking", "told"} => l.since <= now /\ now < l.since + Setup
    /\ l.at = "none" => handler[c] = "idle"
    /\ l.at \in {"told", "streaming"} => handler[c] = "done"
    /\ (l.at = "asking" /\ handler[c] = "count") \/ l.at = "told" => leases[c] >= l.since + LeaseTTL
    /\ l.at = "told" => l.token >= l.since + MaxDuration + Setup
    /\ l.at \in {"none", "asking", "told"} => served[c] = 0 /\ \A s \in StreamsOf(c) : stream[s].at = "idle"
    /\ l.token <= now + MaxDuration + Setup
    /\ served[c] <= 1 /\ (served[c] > 0 => claims[c] >= l.token /\ l.token > 0)
    /\ l.at = "streaming" => (\E s \in StreamsOf(c) : stream[s].at = "claim") \/ claims[c] >= l.token

CallFits(c) == LineFits(c) /\ \A s \in StreamsOf(c) : StreamFits(s)

\* The calls that were ever given a token.
Counted == {c \in DemoCalls : line[c].token > 0}

WithinLimits ==
    /\ IsFiniteSet(LiveLeases) /\ Cardinality(LiveLeases) <= ConcurrencyLimit
    /\ IsFiniteSet(Counted) /\ Cardinality(Counted) <= used /\ used <= DailyLimit

CallInv == DemoTypeOK /\ (\A c \in DemoCalls : CallFits(c)) /\ WithinLimits

LEMMA OfCalls == \A s \in Streams : s[1] \in DemoCalls /\ s \in StreamsOf(s[1])
    BY DemoConstants DEF Streams, StreamsOf

\* A lease that is over is nobody's: what becomes of it does not matter to a call.
LEMMA CallIsLeft ==
    ASSUME CallInv, NEW d \in DemoCalls, now' = now, line'[d] = line[d], handler'[d] = handler[d], claims'[d] = claims[d],
           served'[d] = served[d], \A s \in StreamsOf(d) : stream'[s] = stream[s],
           leases'[d] = leases[d] \/ leases[d] <= now
    PROVE  CallFits(d)'
<1>1. CallFits(d) /\ now \in Nat /\ leases[d] \in Nat /\ line[d].since \in Nat /\ claims[d] \in Nat /\ line[d].token \in Nat
    BY DEF CallInv, DemoTypeOK
<1>2. \A s \in StreamsOf(d) : s[1] = d /\ stream[s].since \in Nat
    BY DEF StreamsOf, CallInv, DemoTypeOK
<1>3. LineFits(d)'
    BY <1>1, DemoConstants DEF CallFits, LineFits, StreamsOf
<1>4. ASSUME NEW s \in StreamsOf(d) PROVE StreamFits(s)'
    BY <1>1, <1>2, <1>4, DemoConstants DEF CallFits, StreamFits
<1>. QED  BY <1>3, <1>4 DEF CallFits, StreamsOf

\* A line that is over keeps no lease and waits for nothing.
LEMMA LineIsOver ==
    ASSUME CallInv, NEW c \in DemoCalls, now' = now, line'[c].at \in {"over", "reported"}, line'[c].token = line[c].token,
           claims'[c] = claims[c], served'[c] = served[c], \A s \in StreamsOf(c) : stream'[s] = stream[s]
    PROVE  CallFits(c)'
<1>1. CallFits(c)
    BY DEF CallInv
<1>2. LineFits(c)'
    BY <1>1 DEF CallFits, LineFits
<1>3. ASSUME NEW s \in StreamsOf(c) PROVE StreamFits(s)'
    BY <1>1, <1>3 DEF CallFits, StreamFits, StreamsOf
<1>. QED  BY <1>2, <1>3 DEF CallFits, StreamsOf

\* What a release and an acquisition do to the leases.
LEMMA ReleaseKeeps ==
    ASSUME CallInv, NEW c \in DemoCalls, Releases(c), now' = now
    PROVE  /\ leases' \in [DemoCalls -> Nat] /\ demoFaults' \in Nat
           /\ \A d \in DemoCalls \ {c} : leases'[d] = leases[d] \/ leases[d] <= now
           /\ IsFiniteSet(LiveLeases') /\ Cardinality(LiveLeases') <= ConcurrencyLimit
<1>1. PICK answer \in Outcomes : /\ Answered(answer)
                                /\ leases' = IF answer = "failed" THEN leases ELSE [Pruned EXCEPT ![c] = 0]
    BY DEF Releases
<1>2. leases \in [DemoCalls -> Nat] /\ now \in Nat /\ demoFaults \in Nat
    BY DEF CallInv, DemoTypeOK
<1>3. leases' \in [DemoCalls -> Nat] /\ \A d \in DemoCalls \ {c} : leases'[d] = leases[d] \/ leases[d] <= now
    BY <1>1, <1>2 DEF Pruned, LiveLeases
<1>4. demoFaults' \in Nat
    BY <1>1, <1>2 DEF Answered
<1>5. LiveLeases' \subseteq LiveLeases
    BY <1>1, <1>2 DEF Pruned, LiveLeases
<1>6. Cardinality(LiveLeases') <= Cardinality(LiveLeases) /\ IsFiniteSet(LiveLeases')
    BY <1>5, FS_Subset DEF CallInv, WithinLimits
<1>7. Cardinality(LiveLeases) \in Nat /\ Cardinality(LiveLeases') \in Nat
    BY <1>6, FS_CardinalityType DEF CallInv, WithinLimits
<1>. QED  BY <1>3, <1>4, <1>6, <1>7, DemoConstants DEF CallInv, WithinLimits

LEMMA AcquireKeeps ==
    ASSUME CallInv, NEW c \in DemoCalls, leases' = Acquired(c), now' = now
    PROVE  /\ leases' \in [DemoCalls -> Nat]
           /\ \A d \in DemoCalls \ {c} : leases'[d] = leases[d] \/ leases[d] <= now
           /\ Acquirable(c) => leases'[c] = now + LeaseTTL
           /\ IsFiniteSet(LiveLeases') /\ Cardinality(LiveLeases') <= ConcurrencyLimit
<1>1. leases \in [DemoCalls -> Nat] /\ now \in Nat /\ IsFiniteSet(LiveLeases) /\ Cardinality(LiveLeases) \in Nat
      /\ Cardinality(LiveLeases) <= ConcurrencyLimit
    BY FS_CardinalityType DEF CallInv, DemoTypeOK, WithinLimits
<1>2. leases' \in [DemoCalls -> Nat] /\ (Acquirable(c) => leases'[c] = now + LeaseTTL)
      /\ \A d \in DemoCalls \ {c} : leases'[d] = leases[d] \/ leases[d] <= now
    BY <1>1, DemoConstants DEF Acquired, Pruned, LiveLeases
<1>3. CASE ~Acquirable(c) \/ c \in LiveLeases
    <2>1. LiveLeases' \subseteq LiveLeases
        BY <1>1, <1>3 DEF Acquired, Pruned, LiveLeases
    <2>2. Cardinality(LiveLeases') <= Cardinality(LiveLeases) /\ IsFiniteSet(LiveLeases')
        BY <1>1, <2>1, FS_Subset
    <2>3. Cardinality(LiveLeases') \in Nat
        BY <2>2, FS_CardinalityType
    <2>. QED  BY <1>1, <1>2, <2>2, <2>3, DemoConstants
<1>4. CASE Acquirable(c) /\ c \notin LiveLeases
    <2>1. LiveLeases' \subseteq LiveLeases \cup {c} /\ Cardinality(LiveLeases) < ConcurrencyLimit
        BY <1>1, <1>4 DEF Acquired, Acquirable, Pruned, LiveLeases
    <2>2. IsFiniteSet(LiveLeases \cup {c}) /\ Cardinality(LiveLeases \cup {c}) = Cardinality(LiveLeases) + 1
        BY <1>1, <1>4, FS_AddElement
    <2>3. Cardinality(LiveLeases') <= Cardinality(LiveLeases \cup {c}) /\ IsFiniteSet(LiveLeases')
        BY <2>1, <2>2, FS_Subset
    <2>4. Cardinality(LiveLeases') \in Nat
        BY <2>3, FS_CardinalityType
    <2>. QED  BY <1>1, <1>2, <2>1, <2>2, <2>3, <2>4, DemoConstants
<1>. QED  BY <1>3, <1>4

\* A step of one call, its streams or its handler leaves the others as they were.
LEMMA OneCallMoves ==
    ASSUME CallInv, NEW c \in DemoCalls, now' = now, used' \in Nat, used <= used', used' <= DailyLimit,
           \A d \in DemoCalls \ {c} :
               /\ line'[d] = line[d] /\ handler'[d] = handler[d] /\ claims'[d] = claims[d] /\ served'[d] = served[d]
               /\ leases'[d] = leases[d] \/ leases[d] <= now,
           \A s \in Streams : s[1] # c => stream'[s] = stream[s],
           IsFiniteSet(LiveLeases'), Cardinality(LiveLeases') <= ConcurrencyLimit,
           line'[c].token > 0 => line[c].token > 0 \/ used < used',
           DemoTypeOK', CallFits(c)'
    PROVE  CallInv'
<1>1. ASSUME NEW d \in DemoCalls PROVE CallFits(d)'
    <2>1. CASE d = c
        BY <2>1
    <2>2. CASE d # c
        <3>1. \A s \in StreamsOf(d) : stream'[s] = stream[s]
            BY <2>2 DEF StreamsOf
        <3>. QED  BY <2>2, <3>1, CallIsLeft
    <2>. QED  BY <2>1, <2>2
<1>2. IsFiniteSet(Counted) /\ Cardinality(Counted) <= used /\ Cardinality(Counted) \in Nat /\ used \in Nat
    BY FS_CardinalityType DEF CallInv, WithinLimits, DemoTypeOK
<1>3. CASE Counted' \subseteq Counted
    <2>1. IsFiniteSet(Counted') /\ Cardinality(Counted') <= Cardinality(Counted)
        BY <1>2, <1>3, FS_Subset
    <2>2. Cardinality(Counted') \in Nat
        BY <2>1, FS_CardinalityType
    <2>3. WithinLimits'
        BY <1>2, <2>1, <2>2 DEF WithinLimits
    <2>. QED  BY <1>1, <2>3 DEF CallInv
<1>4. CASE ~(Counted' \subseteq Counted)
    <2>1. \A d \in DemoCalls \ {c} : d \in Counted' <=> d \in Counted
        BY DEF Counted
    <2>a. c \in Counted' /\ c \notin Counted
        BY <1>4, <2>1 DEF Counted
    <2>b. used < used'
        BY <2>a DEF Counted
    <2>c. Counted' \subseteq Counted \cup {c}
        BY <2>1 DEF Counted
    <2>2. IsFiniteSet(Counted \cup {c}) /\ Cardinality(Counted \cup {c}) = Cardinality(Counted) + 1
        BY <1>2, <2>a, FS_AddElement
    <2>3. IsFiniteSet(Counted') /\ Cardinality(Counted') <= Cardinality(Counted \cup {c})
        BY <2>c, <2>2, FS_Subset
    <2>4. Cardinality(Counted') \in Nat
        BY <2>3, FS_CardinalityType
    <2>5. WithinLimits'
        BY <1>2, <2>b, <2>2, <2>3, <2>4 DEF WithinLimits
    <2>. QED  BY <1>1, <2>5 DEF CallInv
<1>. QED  BY <1>3, <1>4

\* What the steps of a call are given.
LEMMA CallGiven ==
    ASSUME CallInv, NEW c \in DemoCalls
    PROVE  /\ CallFits(c) /\ now \in Nat /\ used \in Nat /\ used <= DailyLimit
           /\ line \in [DemoCalls -> [at : {"none", "asking", "told", "streaming", "over", "reported"}, since : Nat, token : Nat]]
           /\ handler \in [DemoCalls -> {"idle", "acquire", "count", "giveback", "done"}]
           /\ stream \in [Streams -> [at : {"idle", "claim", "serving", "closing", "over"}, since : Nat]]
           /\ claims \in [DemoCalls -> Nat] /\ served \in [DemoCalls -> Nat] /\ leases \in [DemoCalls -> Nat]
           /\ IsFiniteSet(LiveLeases) /\ Cardinality(LiveLeases) <= ConcurrencyLimit /\ demoFaults \in Nat
    BY DEF CallInv, DemoTypeOK, WithinLimits

LEMMA SameLive == UNCHANGED <<now, leases>> => LiveLeases' = LiveLeases
    BY DEF LiveLeases

\* A line that goes over, and whatever happens to its lease.
LEMMA GoesOver ==
    ASSUME CallInv, NEW c \in DemoCalls, NEW at \in {"over", "reported"}, LineGoes(c, at),
           UNCHANGED <<now, used, claims, stream, served, breaker>>,
           handler' \in [DemoCalls -> {"idle", "acquire", "count", "giveback", "done"}],
           \A d \in DemoCalls \ {c} : handler'[d] = handler[d],
           leases' \in [DemoCalls -> Nat], demoFaults' \in Nat,
           \A d \in DemoCalls \ {c} : leases'[d] = leases[d] \/ leases[d] <= now,
           IsFiniteSet(LiveLeases'), Cardinality(LiveLeases') <= ConcurrencyLimit
    PROVE  CallInv'
<1>1. line \in [DemoCalls -> [at : {"none", "asking", "told", "streaming", "over", "reported"}, since : Nat, token : Nat]]
    BY CallGiven
<1>2. /\ line' \in [DemoCalls -> [at : {"none", "asking", "told", "streaming", "over", "reported"}, since : Nat, token : Nat]]
      /\ line'[c].at = at /\ line'[c].token = line[c].token /\ \A d \in DemoCalls \ {c} : line'[d] = line[d]
    BY <1>1, ZenonT(60) DEF LineGoes
<1>3. CallFits(c)'
    BY <1>2, LineIsOver
<1>4. DemoTypeOK'
    BY <1>2 DEF CallInv, DemoTypeOK, breaker
<1>. QED  BY <1>2, <1>3, <1>4, CallGiven, OneCallMoves

LEMMA LineSteps ==
    ASSUME CallInv, NEW c \in DemoCalls, Rings(c) \/ FallsBack(c) \/ HangsUp(c) \/ Reports(c)
    PROVE  CallInv'
<1>1. CASE Rings(c)
    <2>1. UNCHANGED <<now, leases, used, claims, stream, served, breaker, demoFaults>> /\ line[c].at = "none"
        BY <1>1 DEF Rings
    <2>2. /\ line' \in [DemoCalls -> [at : {"none", "asking", "told", "streaming", "over", "reported"}, since : Nat, token : Nat]]
          /\ handler' \in [DemoCalls -> {"idle", "acquire", "count", "giveback", "done"}]
          /\ line'[c] = [at |-> "asking", since |-> now, token |-> 0] /\ handler'[c] = "acquire"
          /\ \A d \in DemoCalls \ {c} : line'[d] = line[d] /\ handler'[d] = handler[d]
        BY <1>1, CallGiven DEF Rings
    <2>3. \A s \in StreamsOf(c) : stream[s].at = "idle"
        BY <2>1, CallGiven DEF CallFits, LineFits
    <2>4. LineFits(c)'
        BY <2>1, <2>2, <2>3, CallGiven, DemoConstants DEF CallFits, LineFits
    <2>5. CallFits(c)'
        BY <2>1, <2>3, <2>4 DEF CallFits, StreamFits, StreamsOf
    <2>6. DemoTypeOK'
        BY <2>1, <2>2 DEF CallInv, DemoTypeOK, breaker
    <2>. QED  BY <2>1, <2>2, <2>5, <2>6, CallGiven, SameLive, OneCallMoves
<1>2. CASE FallsBack(c) \/ Reports(c)
    <2>1. Releases(c) /\ UNCHANGED <<now, used, claims, handler, stream, served, breaker>>
        BY <1>2 DEF FallsBack, Reports
    <2>2. LineGoes(c, "over") \/ LineGoes(c, "reported")
        BY <1>2 DEF FallsBack, Reports
    <2>. QED  BY <2>1, <2>2, ReleaseKeeps, CallGiven, GoesOver
<1>3. CASE HangsUp(c)
    <2>1. LineGoes(c, "over") /\ UNCHANGED <<now, leases, used, claims, handler, stream, served, breaker, demoFaults>>
        BY <1>3 DEF HangsUp
    <2>. QED  BY <2>1, CallGiven, SameLive, GoesOver
<1>. QED  BY <1>1, <1>2, <1>3

\* The handler ends without a stream; its line, if it still waits, is hung up.
LEMMA Refuses ==
    ASSUME CallInv, NEW c \in DemoCalls, handler[c] \in {"acquire", "giveback"}, Refuse(c),
           UNCHANGED <<now, used, claims, stream, served, breaker>>, leases' \in [DemoCalls -> Nat], demoFaults' \in Nat,
           \A d \in DemoCalls \ {c} : leases'[d] = leases[d] \/ leases[d] <= now,
           IsFiniteSet(LiveLeases'), Cardinality(LiveLeases') <= ConcurrencyLimit
    PROVE  CallInv'
<1>1. /\ handler' \in [DemoCalls -> {"idle", "acquire", "count", "giveback", "done"}]
      /\ \A d \in DemoCalls \ {c} : handler'[d] = handler[d]
    BY CallGiven DEF Refuse
<1>2. CASE line[c].at = "asking"
    BY <1>1, <1>2, GoesOver DEF Refuse
<1>3. CASE line[c].at # "asking"
    <2>1. UNCHANGED line
        BY <1>3 DEF Refuse
    <2>2. line[c].at \in {"over", "reported"}
        BY <1>3, CallGiven DEF CallFits, LineFits
    <2>3. CallFits(c)'
        BY <2>1, <2>2, LineIsOver
    <2>4. DemoTypeOK'
        BY <1>1, <2>1 DEF CallInv, DemoTypeOK, breaker
    <2>. QED  BY <1>1, <2>1, <2>3, <2>4, CallGiven, OneCallMoves
<1>. QED  BY <1>2, <1>3

LEMMA AcquireSteps ==
    ASSUME CallInv, NEW c \in DemoCalls, Acquires(c) \/ GivesBack(c)
    PROVE  CallInv'
<1>1. CASE Acquires(c)
    <2>1. handler[c] = "acquire" /\ UNCHANGED <<now, used, claims, stream, served, breaker>>
        BY <1>1 DEF Acquires
    <2>2. CASE Refuse(c) /\ UNCHANGED <<leases, demoFaults>>
        BY <2>1, <2>2, CallGiven, SameLive, Refuses
    <2>3. CASE \E answer \in Outcomes :
                  /\ Answered(answer)
                  /\ leases' = IF answer = "failed" THEN leases ELSE Acquired(c)
                  /\ IF answer = "ok" /\ Acquirable(c)
                     THEN handler' = [handler EXCEPT ![c] = "count"] /\ UNCHANGED line
                     ELSE Refuse(c)
        <3>1. PICK answer \in Outcomes :
                  /\ Answered(answer)
                  /\ leases' = IF answer = "failed" THEN leases ELSE Acquired(c)
                  /\ IF answer = "ok" /\ Acquirable(c)
                     THEN handler' = [handler EXCEPT ![c] = "count"] /\ UNCHANGED line
                     ELSE Refuse(c)
            BY <2>3
        <3>2. demoFaults' \in Nat
            BY <3>1, CallGiven DEF Answered
        <3>3. /\ leases' \in [DemoCalls -> Nat]
              /\ \A d \in DemoCalls \ {c} : leases'[d] = leases[d] \/ leases[d] <= now
              /\ IsFiniteSet(LiveLeases') /\ Cardinality(LiveLeases') <= ConcurrencyLimit
            <4>1. CASE leases' = Acquired(c)
                BY <2>1, <4>1, AcquireKeeps
            <4>2. CASE leases' = leases
                BY <2>1, <4>2, CallGiven, SameLive
            <4>. QED  BY <3>1, <4>1, <4>2
        <3>4. CASE Refuse(c)
            BY <2>1, <3>2, <3>3, <3>4, Refuses
        <3>5. CASE answer = "ok" /\ Acquirable(c) /\ handler' = [handler EXCEPT ![c] = "count"] /\ UNCHANGED line
            <4>1. leases'[c] = now + LeaseTTL
                BY <2>1, <3>1, <3>5, AcquireKeeps
            <4>2. /\ handler' \in [DemoCalls -> {"idle", "acquire", "count", "giveback", "done"}] /\ handler'[c] = "count"
                  /\ \A d \in DemoCalls \ {c} : handler'[d] = handler[d]
                BY <3>5, CallGiven
            <4>3. line[c].at \in {"asking", "over", "reported"} /\ line[c].since \in Nat
                BY <2>1, CallGiven DEF CallFits, LineFits
            <4>4. LineFits(c)'
                BY <2>1, <3>5, <4>1, <4>2, <4>3, CallGiven, DemoConstants DEF CallFits, LineFits, StreamsOf
            <4>5. CallFits(c)'
                BY <2>1, <3>5, <4>3, <4>4, CallGiven DEF CallFits, StreamFits, StreamsOf
            <4>6. DemoTypeOK'
                BY <2>1, <3>2, <3>3, <3>5, <4>2 DEF CallInv, DemoTypeOK, breaker
            <4>. QED  BY <2>1, <3>3, <3>5, <4>2, <4>5, <4>6, CallGiven, OneCallMoves
        <3>. QED  BY <3>1, <3>4, <3>5
    <2>. QED  BY <1>1, <2>2, <2>3 DEF Acquires
<1>2. CASE GivesBack(c)
    BY <1>2, ReleaseKeeps, Refuses DEF GivesBack
<1>. QED  BY <1>1, <1>2

\* The day's budget is taken, and a line that still waits is told where to stream.
LEMMA CountStep ==
    ASSUME CallInv, NEW c \in DemoCalls, Counts(c)
    PROVE  CallInv'
<1>1. handler[c] = "count" /\ UNCHANGED <<now, leases, claims, stream, served, breaker>>
    BY DEF Counts
<1>2. PICK answer \in Outcomes :
          /\ Answered(answer)
          /\ used' = IF answer # "failed" /\ used < DailyLimit THEN used + 1 ELSE used
          /\ IF answer = "ok" /\ used < DailyLimit
             THEN /\ handler' = [handler EXCEPT ![c] = "done"]
                  /\ line' = IF line[c].at = "asking"
                             THEN [line EXCEPT ![c].at = "told", ![c].token = now + MaxDuration + Setup] ELSE line
             ELSE handler' = [handler EXCEPT ![c] = "giveback"] /\ UNCHANGED line
    BY DEF Counts
<1>3. demoFaults' \in Nat /\ used' \in Nat /\ used <= used' /\ used' <= DailyLimit
    BY <1>2, CallGiven, DemoConstants DEF Answered
<1>4. /\ handler' \in [DemoCalls -> {"idle", "acquire", "count", "giveback", "done"}] /\ handler'[c] \in {"done", "giveback"}
      /\ \A d \in DemoCalls \ {c} : handler'[d] = handler[d]
    BY <1>2, CallGiven
<1>5. line[c].at \in {"asking", "over", "reported"} /\ line[c].since \in Nat /\ CallFits(c)
    BY <1>1, CallGiven DEF CallFits, LineFits
<1>6. CASE UNCHANGED line
    <2>1. CASE line[c].at = "asking"
        <3>1. handler'[c] = "giveback"
            BY <1>2, <1>5, <1>6, <2>1, CallGiven, DemoConstants
        <3>2. LineFits(c)'
            BY <1>1, <1>5, <1>6, <2>1, <3>1 DEF CallFits, LineFits, StreamsOf
        <3>. QED  BY <1>1, <1>5, <1>6, <2>1, <3>2, <1>3, <1>4, CallGiven, SameLive, OneCallMoves
                   DEF CallFits, StreamFits, StreamsOf, CallInv, DemoTypeOK, breaker
    <2>2. CASE line[c].at # "asking"
        <3>1. CallFits(c)'
            BY <1>1, <1>5, <1>6, <2>2, LineIsOver
        <3>2. DemoTypeOK'
            BY <1>1, <1>3, <1>4, <1>6 DEF CallInv, DemoTypeOK, breaker
        <3>. QED  BY <1>1, <1>3, <1>4, <1>6, <3>1, <3>2, CallGiven, SameLive, OneCallMoves
    <2>. QED  BY <2>1, <2>2
<1>7. CASE /\ line[c].at = "asking" /\ line' = [line EXCEPT ![c].at = "told", ![c].token = now + MaxDuration + Setup]
           /\ handler'[c] = "done" /\ used' = used + 1
    <2>1. /\ line' \in [DemoCalls -> [at : {"none", "asking", "told", "streaming", "over", "reported"}, since : Nat, token : Nat]]
          /\ line'[c].at = "told" /\ line'[c].since = line[c].since /\ line'[c].token = now + MaxDuration + Setup
          /\ \A d \in DemoCalls \ {c} : line'[d] = line[d]
        BY <1>7, CallGiven, DemoConstants
    <2>2. /\ line[c].since <= now /\ now < line[c].since + Setup /\ leases[c] >= line[c].since + LeaseTTL
          /\ served[c] = 0 /\ \A s \in StreamsOf(c) : stream[s].at = "idle"
        BY <1>1, <1>5, <1>7 DEF CallFits, LineFits
    <2>3. LineFits(c)'
        BY <1>1, <1>5, <1>7, <2>1, <2>2, CallGiven, DemoConstants DEF LineFits, StreamsOf
    <2>4. CallFits(c)'
        BY <1>1, <2>2, <2>3 DEF CallFits, StreamFits, StreamsOf
    <2>5. DemoTypeOK'
        BY <1>1, <1>3, <1>4, <2>1 DEF CallInv, DemoTypeOK, breaker
    <2>6. used < used'
        BY <1>7, CallGiven
    <2>. QED  BY <1>1, <1>3, <1>4, <2>1, <2>4, <2>5, <2>6, CallGiven, SameLive, OneCallMoves
<1>. QED  BY <1>2, <1>4, <1>6, <1>7, CallGiven

LEMMA OpenStep ==
    ASSUME CallInv, NEW s \in Streams, Opens(s)
    PROVE  CallInv'
<1> DEFINE c == s[1]
           Lines == [at : {"none", "asking", "told", "streaming", "over", "reported"}, since : Nat, token : Nat]
<1>1. c \in DemoCalls /\ s \in StreamsOf(c)
    BY OfCalls
<1>2. stream[s].at = "idle" /\ UNCHANGED <<now, leases, used, claims, handler, served, breaker, demoFaults>>
    BY DEF Opens
<1>3. /\ stream' \in [Streams -> [at : {"idle", "claim", "serving", "closing", "over"}, since : Nat]]
      /\ stream'[s].at = (IF TokenIsGood(c) THEN "claim" ELSE "over")
      /\ stream'[s].at = "claim" => stream'[s].since = now
      /\ \A t \in Streams \ {s} : stream'[t] = stream[t]
    <2>1. now \in Nat /\ stream \in [Streams -> [at : {"idle", "claim", "serving", "closing", "over"}, since : Nat]]
        BY <1>1, CallGiven
    <2>2. StreamGoes(s, IF TokenIsGood(c) THEN "claim" ELSE "over")
        BY DEF Opens
    <2>. QED  BY <2>1, <2>2 DEF StreamGoes
<1>4. CallFits(c) /\ now \in Nat /\ line \in [DemoCalls -> Lines] /\ claims[c] \in Nat /\ leases[c] \in Nat
    BY <1>1, CallGiven
<1> HIDE DEF c
<1>5. CASE line[c].at = "told" /\ LineGoes(c, "streaming")
    <2>1. /\ line' \in [DemoCalls -> Lines] /\ line'[c].at = "streaming" /\ line'[c].token = line[c].token
          /\ \A d \in DemoCalls \ {c} : line'[d] = line[d]
        BY <1>1, <1>4, <1>5 DEF LineGoes
    <2>2. /\ line[c].since <= now /\ now < line[c].since + Setup /\ leases[c] >= line[c].since + LeaseTTL
          /\ line[c].token >= line[c].since + MaxDuration + Setup /\ served[c] = 0 /\ handler[c] = "done"
          /\ line[c].token <= now + MaxDuration + Setup /\ \A t \in StreamsOf(c) : stream[t].at = "idle"
        BY <1>4, <1>5 DEF CallFits, LineFits
    <2>3. now < line[c].token /\ leases[c] > now + MaxDuration /\ line[c].token > 0
        BY <1>1, <1>4, <2>2, DemoConstants
    <2>4. stream'[s].at = "claim"
        BY <1>3, <2>3 DEF TokenIsGood
    <2>5. LineFits(c)'
        BY <1>1, <1>2, <2>1, <2>2, <2>4 DEF LineFits, StreamsOf
    <2>6. ASSUME NEW t \in StreamsOf(c) PROVE StreamFits(t)'
        <3>1. t[1] = c /\ (t # s => stream'[t].at = "idle")
            BY <1>3, <2>2 DEF StreamsOf
        <3>. QED  BY <1>2, <1>3, <2>1, <2>3, <3>1, <2>4 DEF StreamFits
    <2>7. CallFits(c)'
        BY <2>5, <2>6 DEF CallFits, StreamsOf
    <2>8. DemoTypeOK'
        BY <1>2, <1>3, <2>1 DEF CallInv, DemoTypeOK, breaker
    <2>9. \A t \in Streams : t[1] # c => stream'[t] = stream[t]
        BY <1>1, <1>3 DEF StreamsOf
    <2>. QED  BY <1>1, <1>2, <2>1, <2>7, <2>8, <2>9, CallGiven, SameLive, OneCallMoves
<1>6. CASE (\E other \in Streams : other[1] = c /\ stream[other].at # "idle") /\ UNCHANGED line
    <2>1. line[c].at \in {"streaming", "over", "reported"}
        BY <1>1, <1>4, <1>6 DEF CallFits, LineFits, StreamsOf
    <2>2. line[c].at = "streaming" => leases[c] > now + MaxDuration \/ claims[c] >= line[c].token
        <3>1. SUFFICES ASSUME line[c].at = "streaming", NEW t \in StreamsOf(c), stream[t].at = "claim"
                       PROVE  leases[c] > now + MaxDuration \/ claims[c] >= line[c].token
            BY <1>4 DEF CallFits, LineFits
        <3>. QED  BY <1>4, <3>1 DEF CallFits, StreamFits, StreamsOf
    <2>3. LineFits(c)'
        BY <1>1, <1>2, <1>3, <1>4, <1>6, <2>1 DEF CallFits, LineFits, StreamsOf
    <2>4. ASSUME NEW t \in StreamsOf(c) PROVE StreamFits(t)'
        <3>1. t[1] = c /\ t \in Streams
            BY DEF StreamsOf
        <3>2. CASE t = s
            BY <1>2, <1>3, <1>6, <2>2, <3>1, <3>2 DEF StreamFits, TokenIsGood
        <3>3. CASE t # s
            BY <1>2, <1>3, <1>4, <1>6, <3>1, <3>3 DEF CallFits, StreamFits
        <3>. QED  BY <3>2, <3>3
    <2>5. CallFits(c)'
        BY <2>3, <2>4 DEF CallFits, StreamsOf
    <2>6. DemoTypeOK'
        BY <1>2, <1>3, <1>6 DEF CallInv, DemoTypeOK, breaker
    <2>7. \A t \in Streams : t[1] # c => stream'[t] = stream[t]
        BY <1>1, <1>3 DEF StreamsOf
    <2>. QED  BY <1>1, <1>2, <1>6, <2>5, <2>6, <2>7, CallGiven, SameLive, OneCallMoves
<1>. QED  BY <1>5, <1>6 DEF Opens, c

\* The claim of a stream: one that is granted is the first, and one that is refused leaves a claim behind
\* it, or another stream, or a line that is over.
LEMMA ClaimStep ==
    ASSUME CallInv, NEW s \in Streams, Claims(s)
    PROVE  CallInv'
<1> DEFINE c == s[1]
           Lines == [at : {"none", "asking", "told", "streaming", "over", "reported"}, since : Nat, token : Nat]
           free == claims[c] <= now
           alone == \A other \in Streams \ {s} : other[1] = c => stream[other].at \in {"idle", "over"}
<1>1. c \in DemoCalls /\ s \in StreamsOf(c)
    BY OfCalls
<1>2. stream[s].at = "claim" /\ UNCHANGED <<now, leases, used, handler, breaker>>
    BY DEF Claims
<1>3. PICK answer \in Outcomes :
          /\ Answered(answer)
          /\ claims' = IF answer # "failed" /\ free THEN [claims EXCEPT ![c] = now + MaxDuration + Setup] ELSE claims
          /\ IF answer = "ok" /\ free
             THEN /\ stream' = [stream EXCEPT ![s].at = "serving"]
                  /\ served' = [served EXCEPT ![c] = @ + 1] /\ UNCHANGED line
             ELSE /\ StreamGoes(s, "over") /\ UNCHANGED served
                  /\ IF alone /\ line[c].at = "streaming" THEN LineGoes(c, "over") ELSE UNCHANGED line
    BY DEF Claims
<1>4. /\ CallFits(c) /\ now \in Nat /\ line \in [DemoCalls -> Lines] /\ claims \in [DemoCalls -> Nat]
      /\ leases[c] \in Nat /\ served \in [DemoCalls -> Nat] /\ demoFaults \in Nat
      /\ stream \in [Streams -> [at : {"idle", "claim", "serving", "closing", "over"}, since : Nat]]
    BY <1>1, CallGiven
<1>5. demoFaults' \in Nat
    BY <1>3, <1>4 DEF Answered
<1>6. line[c].at \in {"streaming", "over", "reported"} /\ line[c].token <= now + MaxDuration + Setup
    BY <1>1, <1>2, <1>4 DEF CallFits, LineFits
<1>7. /\ claims' \in [DemoCalls -> Nat] /\ claims'[c] >= claims[c]
      /\ \A d \in DemoCalls \ {c} : claims'[d] = claims[d]
    BY <1>1, <1>3, <1>4, DemoConstants
<1>8. StreamFits(s)
    BY <1>1, <1>4 DEF CallFits
<1>a. stream[s].since = now /\ now < line[c].token
    BY <1>2, <1>8 DEF StreamFits
<1>b. line[c].at = "streaming" => leases[c] > now + MaxDuration \/ claims[c] >= line[c].token
    BY <1>2, <1>8 DEF StreamFits
<1>9. CASE answer = "ok" /\ free
    <2>1. /\ stream' \in [Streams -> [at : {"idle", "claim", "serving", "closing", "over"}, since : Nat]]
          /\ stream'[s].at = "serving" /\ stream'[s].since = now /\ \A t \in Streams \ {s} : stream'[t] = stream[t]
        BY <1>3, <1>4, <1>9, <1>a
    <2>2. served[c] = 0 /\ served' = [served EXCEPT ![c] = @ + 1] /\ UNCHANGED line
          /\ claims'[c] >= line[c].token /\ line[c].token > 0
        BY <1>1, <1>3, <1>4, <1>6, <1>9, <1>a DEF CallFits, LineFits
    <2>3. /\ served' \in [DemoCalls -> Nat] /\ served'[c] = 1 /\ \A d \in DemoCalls \ {c} : served'[d] = served[d]
        BY <1>1, <1>4, <2>2
    <2>4. LineFits(c)'
        BY <1>2, <1>4, <1>6, <2>2, <2>3 DEF CallFits, LineFits
    <2>5. ASSUME NEW t \in StreamsOf(c) PROVE StreamFits(t)'
        <3>1. t[1] = c /\ t \in Streams /\ StreamFits(t)
            BY <1>4 DEF StreamsOf, CallFits
        <3>2. CASE t = s
            <4>1. line[c].at = "streaming" => leases[c] > now + MaxDuration
                BY <1>1, <1>4, <1>9, <1>a, <1>b
            <4>2. now <= now + MaxDuration
                BY <1>4, DemoConstants
            <4>. QED  BY <1>2, <2>1, <2>2, <3>1, <3>2, <4>1, <4>2 DEF StreamFits
        <3>3. CASE t # s
            BY <1>2, <2>1, <2>2, <3>1, <3>3 DEF StreamFits
        <3>. QED  BY <3>2, <3>3
    <2>6. CallFits(c)'
        BY <2>4, <2>5 DEF CallFits, StreamsOf
    <2>7. DemoTypeOK'
        BY <1>2, <1>5, <1>7, <2>1, <2>2, <2>3 DEF CallInv, DemoTypeOK, breaker
    <2>8. \A t \in Streams : t[1] # c => stream'[t] = stream[t]
        BY <2>1
    <2>9. IsFiniteSet(LiveLeases') /\ Cardinality(LiveLeases') <= ConcurrencyLimit
        BY <1>1, <1>2, CallGiven, SameLive
    <2>10. used \in Nat /\ used <= DailyLimit
        BY <1>1, CallGiven
    <2>. QED  BY <1>1, <1>2, <1>7, <2>2, <2>3, <2>6, <2>7, <2>8, <2>9, <2>10, OneCallMoves
<1>c. CASE ~(answer = "ok" /\ free)
    <2>0. StreamGoes(s, "over") /\ UNCHANGED served
        BY <1>3, <1>c
    <2>1. /\ stream' \in [Streams -> [at : {"idle", "claim", "serving", "closing", "over"}, since : Nat]]
          /\ stream'[s].at = "over" /\ \A t \in Streams \ {s} : stream'[t] = stream[t]
        BY <1>4, <2>0 DEF StreamGoes
    <2>2. UNCHANGED served
        BY <2>0
    <2>3. /\ line' \in [DemoCalls -> Lines] /\ line'[c].token = line[c].token
          /\ \A d \in DemoCalls \ {c} : line'[d] = line[d]
          /\ line'[c].at \in {"over", "reported"} \/ (line' = line /\ ~alone)
        BY <1>1, <1>3, <1>4, <1>6, <1>c DEF LineGoes
    <2>4. line'[c].at = "streaming" => (\E t \in StreamsOf(c) : stream'[t].at = "claim") \/ claims'[c] >= line[c].token
        <3>1. SUFFICES ASSUME line'[c].at = "streaming", NEW t \in Streams \ {s}, t[1] = c,
                              stream[t].at \notin {"idle", "over"}
                       PROVE  stream'[t].at = "claim" \/ claims'[c] >= line[c].token
            BY <2>3 DEF StreamsOf
        <3>2. StreamFits(t)
            BY <1>4, <3>1 DEF CallFits, StreamsOf
        <3>. QED  BY <1>1, <1>4, <1>7, <2>1, <3>1, <3>2 DEF StreamFits
    <2>5. LineFits(c)'
        <3>1. line'[c].at \in {"streaming", "over", "reported"} /\ (line'[c].at = "streaming" => line[c].at = "streaming")
            BY <1>6, <2>3
        <3>2. /\ handler' = handler /\ served' = served /\ now' = now /\ claims'[c] >= claims[c] /\ claims[c] \in Nat
              /\ claims'[c] \in Nat /\ line[c].token \in Nat
            BY <1>1, <1>2, <1>4, <1>7, <2>2
        <3>. QED  BY <1>4, <2>3, <2>4, <3>1, <3>2 DEF CallFits, LineFits, StreamsOf
    <2>6. ASSUME NEW t \in StreamsOf(c) PROVE StreamFits(t)'
        <3>1. t[1] = c /\ t \in Streams /\ StreamFits(t)
            BY <1>4 DEF StreamsOf, CallFits
        <3>2. CASE t = s
            BY <2>1, <3>1, <3>2 DEF StreamFits
        <3>3. CASE t # s
            BY <1>1, <1>2, <1>4, <1>7, <2>1, <2>3, <3>1, <3>3 DEF StreamFits
        <3>. QED  BY <3>2, <3>3
    <2>7. CallFits(c)'
        BY <2>5, <2>6 DEF CallFits, StreamsOf
    <2>8. DemoTypeOK'
        BY <1>2, <1>5, <1>7, <2>1, <2>2, <2>3 DEF CallInv, DemoTypeOK, breaker
    <2>9. \A t \in Streams : t[1] # c => stream'[t] = stream[t]
        BY <2>1
    <2>10. IsFiniteSet(LiveLeases') /\ Cardinality(LiveLeases') <= ConcurrencyLimit
        BY <1>1, <1>2, CallGiven, SameLive
    <2>11. used \in Nat /\ used <= DailyLimit
        BY <1>1, CallGiven
    <2>. QED  BY <1>1, <1>2, <1>7, <2>2, <2>3, <2>7, <2>8, <2>9, <2>10, <2>11, OneCallMoves
<1>. QED  BY <1>9, <1>c

LEMMA StopSteps ==
    ASSUME CallInv, NEW s \in Streams, Stops(s) \/ Closes(s)
    PROVE  CallInv'
<1> DEFINE c == s[1]
           Lines == [at : {"none", "asking", "told", "streaming", "over", "reported"}, since : Nat, token : Nat]
<1>1. c \in DemoCalls /\ s \in StreamsOf(c)
    BY OfCalls
<1>2. UNCHANGED <<now, used, claims, handler, served, breaker>>
    BY DEF Stops, Closes
<1>3. /\ CallFits(c) /\ now \in Nat /\ line \in [DemoCalls -> Lines] /\ StreamFits(s)
      /\ stream \in [Streams -> [at : {"idle", "claim", "serving", "closing", "over"}, since : Nat]]
    BY <1>1, CallGiven DEF CallFits
<1>4. line[c].at \in {"streaming", "over", "reported"}
    BY <1>1, <1>3 DEF CallFits, LineFits, Stops, Closes
<1>5. /\ leases' \in [DemoCalls -> Nat] /\ demoFaults' \in Nat
      /\ \A d \in DemoCalls \ {c} : leases'[d] = leases[d] \/ leases[d] <= now
      /\ IsFiniteSet(LiveLeases') /\ Cardinality(LiveLeases') <= ConcurrencyLimit
    BY <1>1, <1>2, CallGiven, SameLive, ReleaseKeeps DEF Stops, Closes
<1>6. /\ stream' \in [Streams -> [at : {"idle", "claim", "serving", "closing", "over"}, since : Nat]]
      /\ stream'[s].at \in {"closing", "over"} /\ (stream'[s].at = "closing" => stream[s].at = "serving")
      /\ \A t \in Streams \ {s} : stream'[t] = stream[t]
    <2>1. CASE Stops(s)
        BY <1>3, <2>1 DEF Stops, StreamGoes
    <2>2. CASE Closes(s)
        BY <1>3, <2>2 DEF Closes, StreamGoes
    <2>. QED  BY <2>1, <2>2
<1>7. /\ line' \in [DemoCalls -> Lines] /\ line'[c].token = line[c].token /\ line'[c].at \in {"over", "reported"}
      /\ \A d \in DemoCalls \ {c} : line'[d] = line[d]
    <2>1. CASE Stops(s)
        BY <1>1, <1>3, <1>4, <2>1 DEF Stops, LineGoes
    <2>2. CASE Closes(s)
        BY <1>3, <1>4, <2>2 DEF Closes, StreamFits
    <2>. QED  BY <2>1, <2>2
<1>8. LineFits(c)'
    BY <1>2, <1>3, <1>7 DEF CallFits, LineFits
<1>9. ASSUME NEW t \in StreamsOf(c) PROVE StreamFits(t)'
    <2>1. t[1] = c /\ t \in Streams /\ StreamFits(t)
        BY <1>3 DEF StreamsOf, CallFits
    <2>. QED  BY <1>2, <1>6, <1>7, <2>1 DEF StreamFits
<1>10. CallFits(c)'
    BY <1>8, <1>9 DEF CallFits, StreamsOf
<1>11. DemoTypeOK'
    BY <1>2, <1>5, <1>6, <1>7 DEF CallInv, DemoTypeOK, breaker
<1>12. \A t \in Streams : t[1] # c => stream'[t] = stream[t]
    BY <1>6
<1>. QED  BY <1>1, <1>2, <1>5, <1>7, <1>10, <1>11, <1>12, CallGiven, OneCallMoves

LEMMA TimeStep == CallInv /\ Passes => CallInv'
<1> SUFFICES ASSUME CallInv, Passes PROVE CallInv'
    OBVIOUS
<1>1. now' = now + 1 /\ now \in Nat /\ UNCHANGED <<calls, breaker, demoFaults>>
    BY DEF Passes, CallInv, DemoTypeOK
<1>2. UNCHANGED <<leases, used, claims, line, handler, stream, served>>
    BY <1>1 DEF calls
<1>3. \A s \in Streams : stream[s].at # "claim" /\ (stream[s].at = "serving" => now < stream[s].since + MaxDuration)
    BY DEF Passes
<1>4. DemoTypeOK'
    BY <1>1 DEF CallInv, DemoTypeOK, calls, breaker
<1>5. ASSUME NEW c \in DemoCalls PROVE CallFits(c)'
    <2>1. /\ CallFits(c) /\ line[c].since \in Nat /\ line[c].token \in Nat /\ leases[c] \in Nat /\ claims[c] \in Nat
        BY CallGiven
    <2>2. line[c].at \in {"asking", "told"} => now + 1 < line[c].since + Setup
        BY DEF Passes
    <2>3. LineFits(c)'
        BY <1>1, <1>2, <1>3, <2>1, <2>2, DemoConstants DEF CallFits, LineFits, StreamsOf
    <2>4. ASSUME NEW s \in StreamsOf(c) PROVE StreamFits(s)'
        <3>1. s \in Streams /\ StreamFits(s) /\ stream[s].since \in Nat
            BY <2>1, CallGiven DEF StreamsOf, CallFits
        <3>. QED  BY <1>1, <1>2, <1>3, <3>1, DemoConstants DEF StreamFits
    <2>. QED  BY <2>3, <2>4 DEF CallFits, StreamsOf
<1>6. WithinLimits'
    <2>1. LiveLeases' \subseteq LiveLeases /\ Counted' = Counted
        BY <1>1, <1>2 DEF LiveLeases, Counted, CallInv, DemoTypeOK
    <2>2. IsFiniteSet(LiveLeases') /\ Cardinality(LiveLeases') <= Cardinality(LiveLeases)
        BY <2>1, FS_Subset DEF CallInv, WithinLimits
    <2>3. Cardinality(LiveLeases) \in Nat /\ Cardinality(LiveLeases') \in Nat
        BY <2>2, FS_CardinalityType DEF CallInv, WithinLimits
    <2>. QED  BY <1>2, <2>1, <2>2, <2>3, DemoConstants DEF CallInv, WithinLimits
<1>. QED  BY <1>4, <1>5, <1>6 DEF CallInv

LEMMA CallStarts == DemoInit => CallInv
<1> SUFFICES ASSUME DemoInit PROVE CallInv
    OBVIOUS
<1>1. DemoTypeOK
    BY DEF DemoInit, DemoTypeOK
<1>2. ASSUME NEW c \in DemoCalls PROVE CallFits(c)
    BY DemoConstants DEF DemoInit, CallFits, LineFits, StreamFits, StreamsOf
<1>3. LiveLeases = {} /\ Counted = {}
    BY DEF DemoInit, LiveLeases, Counted
<1>4. WithinLimits
    BY <1>3, FS_EmptySet, DemoConstants DEF DemoInit, WithinLimits
<1>. QED  BY <1>1, <1>2, <1>4 DEF CallInv

LEMMA CallsStay == CallInv /\ DemoTypeOK' /\ UNCHANGED <<now, calls>> => CallInv'
<1> SUFFICES ASSUME CallInv, DemoTypeOK', UNCHANGED <<now, calls>> PROVE CallInv'
    OBVIOUS
<1>1. UNCHANGED <<now, leases, used, claims, line, handler, stream, served>>
    BY DEF calls
<1>2. ASSUME NEW c \in DemoCalls PROVE CallFits(c)'
    BY <1>1, CallIsLeft
<1>3. WithinLimits'
    BY <1>1 DEF CallInv, WithinLimits, LiveLeases, Counted
<1>. QED  BY <1>2, <1>3 DEF CallInv

LEMMA CallHolds == CallInv => ServedWithinLimit /\ ServedOnceAndCounted
<1> SUFFICES ASSUME CallInv PROVE ServedWithinLimit /\ ServedOnceAndCounted
    OBVIOUS
<1>1. ASSUME NEW c \in DemoCalls, Served(c) PROVE c \in LiveLeases
    <2>1. PICK s \in Streams : s[1] = c /\ stream[s].at = "serving" /\ line[c].at = "streaming"
        BY <1>1 DEF Served
    <2>2. StreamFits(s) /\ now \in Nat /\ leases[c] \in Nat /\ stream[s].since \in Nat
        BY <2>1, CallGiven DEF CallFits, StreamsOf
    <2>. QED  BY <2>1, <2>2, DemoConstants DEF StreamFits, LiveLeases
<1>2. Cardinality({c \in DemoCalls : Served(c)}) <= ConcurrencyLimit
    <2> DEFINE S == {c \in DemoCalls : Served(c)}
    <2>1. S \subseteq LiveLeases
        BY <1>1
    <2>2. IsFiniteSet(S) /\ Cardinality(S) <= Cardinality(LiveLeases) /\ IsFiniteSet(LiveLeases)
        BY <2>1, FS_Subset DEF CallInv, WithinLimits
    <2>3. Cardinality(S) \in Nat /\ Cardinality(LiveLeases) \in Nat
        BY <2>2, FS_CardinalityType
    <2>. QED  BY <2>2, <2>3, DemoConstants DEF CallInv, WithinLimits
<1>3. Cardinality({c \in DemoCalls : served[c] > 0}) <= used
    <2> DEFINE S == {c \in DemoCalls : served[c] > 0}
    <2>1. S \subseteq Counted
        BY CallGiven DEF CallFits, LineFits, Counted
    <2>2. IsFiniteSet(S) /\ Cardinality(S) <= Cardinality(Counted) /\ IsFiniteSet(Counted)
        BY <2>1, FS_Subset DEF CallInv, WithinLimits
    <2>3. Cardinality(S) \in Nat /\ Cardinality(Counted) \in Nat /\ used \in Nat
        BY <2>2, FS_CardinalityType DEF CallInv, DemoTypeOK
    <2>. QED  BY <2>2, <2>3 DEF CallInv, WithinLimits
<1>4. \A c \in DemoCalls : served[c] <= 1
    BY CallGiven DEF CallFits, LineFits
<1>. QED  BY <1>1, <1>2, <1>3, <1>4 DEF ServedWithinLimit, ServedOnceAndCounted, CallInv, WithinLimits

LEMMA CallGoesOn == CallInv /\ CallNext => CallInv'
    BY LineSteps, AcquireSteps, CountStep, OpenStep, ClaimStep, StopSteps, TimeStep DEF CallNext, CallStep, StreamStep

-----------------------------------------------------------------------------
(* The breaker of the demo.                                                 *)

Reached(d) == delivery[d] \in {"claim", "complete", "200"}

\* Whatever was delivered is of a trigger that fired, not long after its delivery; whatever came past the
\* suspension found it made; and an account is restored when no delivery is fresh any more.
BreakerFits ==
    /\ fired <= now + Skew + 1
    /\ \A d \in Deliveries : delivery[d] # "idle" => fired > 0 /\ fired <= heard + Skew + 1
    /\ account = "suspended" \/ restored => \E d \in Deliveries : delivery[d] # "idle"
    /\ \A d \in Deliveries : Reached(d) => account = "suspended" \/ restored
    /\ seal # "absent" => account = "suspended" \/ restored
    /\ restored => fired > 0 /\ now + 1 >= fired + MaxAge

BreakerInv == DemoTypeOK /\ BreakerFits

DeliveryStages == {"idle", "trip", "claim", "complete", "200", "later", "rejected"}

LEMMA BreakerConstants == MaxAge \in Nat /\ Skew \in Nat
    BY DemoConstants

LEMMA AnswerCounts ==
    ASSUME demoFaults \in Nat, NEW answer, Answered(answer)
    PROVE  demoFaults' \in Nat
    BY DEF Answered

LEMMA BreakerStarts == DemoInit => BreakerInv
    BY CallStarts, BreakerConstants DEF CallInv, DemoInit, BreakerInv, BreakerFits, Reached, DemoTypeOK

LEMMA BreakerStays == BreakerInv /\ DemoTypeOK' /\ UNCHANGED <<now, breaker>> => BreakerInv'
    BY DEF BreakerInv, BreakerFits, Reached, breaker

\* A delivery moves on: the others are where they were.
LEMMA DeliveryMoves ==
    ASSUME BreakerInv, NEW d \in Deliveries, NEW at \in DeliveryStages, DeliveryGoes(d, at)
    PROVE  /\ delivery' \in [Deliveries -> DeliveryStages]
           /\ delivery'[d] = at /\ \A other \in Deliveries \ {d} : delivery'[other] = delivery[other]
    BY DEF BreakerInv, DemoTypeOK, DeliveryGoes, DeliveryStages

LEMMA FireStep == BreakerInv /\ Fires => BreakerInv'
<1> SUFFICES ASSUME BreakerInv, Fires PROVE BreakerInv'
    OBVIOUS
<1>1. now \in Nat /\ fired = 0 /\ UNCHANGED <<now, calls, account, seal, heard, delivery, restored, demoFaults>>
    BY DEF Fires, BreakerInv, DemoTypeOK
<1>2. fired' \in Nat /\ fired' <= now + Skew + 1 /\ fired' > 0
    BY <1>1, BreakerConstants DEF Fires
<1>3. DemoTypeOK'
    BY <1>1, <1>2 DEF BreakerInv, DemoTypeOK, calls
<1>4. ~restored /\ \A d \in Deliveries : delivery[d] = "idle"
    BY <1>1 DEF BreakerInv, BreakerFits
<1>5. BreakerFits'
    BY <1>1, <1>2, <1>4 DEF BreakerInv, BreakerFits, Reached
<1>. QED  BY <1>3, <1>5 DEF BreakerInv

LEMMA DeliverStep ==
    ASSUME BreakerInv, NEW d \in Deliveries, Delivers(d)
    PROVE  BreakerInv'
<1>1. PICK at \in {"trip", "rejected"} : DeliveryGoes(d, at)
    BY DEF Delivers
<1>2. /\ now \in Nat /\ fired > 0 /\ heard' = now /\ fired <= now + Skew + 1
      /\ UNCHANGED <<now, calls, account, seal, fired, restored, demoFaults>>
    BY DEF Delivers, BreakerInv, DemoTypeOK, BreakerFits
<1>3. /\ delivery' \in [Deliveries -> DeliveryStages]
      /\ delivery'[d] = at /\ \A other \in Deliveries \ {d} : delivery'[other] = delivery[other]
    BY <1>1, DeliveryMoves DEF DeliveryStages
<1>4. DemoTypeOK'
    BY <1>2, <1>3 DEF BreakerInv, DemoTypeOK, calls, DeliveryStages
<1>5. BreakerFits'
    BY <1>2, <1>3 DEF BreakerInv, BreakerFits, Reached
<1>. QED  BY <1>4, <1>5 DEF BreakerInv

LEMMA TripStep ==
    ASSUME BreakerInv, NEW d \in Deliveries, Trips(d)
    PROVE  BreakerInv'
<1>1. PICK answer \in Outcomes : 
         /\ Answered(answer)
         /\ account' = IF answer = "failed" \/ ~CallbackIsFresh THEN account ELSE "suspended"
         /\ \E next \in {"claim" : x \in {account'} \cap (IF CallbackIsFresh THEN {"suspended"} ELSE {})}
                        \cup (IF answer = "ok" /\ CallbackIsFresh THEN {} ELSE {"later"}) : DeliveryGoes(d, next)
    BY DEF Trips
<1>2. PICK at \in {"claim", "later"} : DeliveryGoes(d, at) /\ (at = "claim" => account' = "suspended")
    BY <1>1
<1>3. /\ delivery[d] = "trip" /\ demoFaults' \in Nat
      /\ UNCHANGED <<now, calls, seal, fired, heard, restored>>
    BY <1>1, AnswerCounts DEF Trips, BreakerInv, DemoTypeOK
<1>4. account' \in {account, "suspended"} /\ (CallbackIsFresh => ~restored)
    BY <1>1, BreakerConstants DEF CallbackIsFresh, BreakerInv, BreakerFits, DemoTypeOK
<1>5. /\ delivery' \in [Deliveries -> DeliveryStages]
      /\ delivery'[d] = at /\ \A other \in Deliveries \ {d} : delivery'[other] = delivery[other]
    BY <1>2, DeliveryMoves DEF DeliveryStages
<1>6. DemoTypeOK'
    BY <1>3, <1>4, <1>5 DEF BreakerInv, DemoTypeOK, calls, DeliveryStages
<1>7. BreakerFits'
    BY <1>2, <1>3, <1>4, <1>5 DEF BreakerInv, BreakerFits, Reached
<1>. QED  BY <1>6, <1>7 DEF BreakerInv

LEMMA SealSteps ==
    ASSUME BreakerInv, NEW d \in Deliveries, Seals(d) \/ Completes(d)
    PROVE  BreakerInv'
<1>1. PICK at \in {"later", "200", "complete"} : DeliveryGoes(d, at)
    BY DEF Seals, Completes
<1>2. /\ Reached(d) /\ delivery[d] # "idle" /\ demoFaults' \in Nat
      /\ seal' \in {"absent", "pending", "completed"}
      /\ UNCHANGED <<now, calls, account, fired, heard, restored>>
    BY AnswerCounts DEF Seals, Completes, Reached, BreakerInv, DemoTypeOK
<1>3. account = "suspended" \/ restored
    BY <1>2 DEF BreakerInv, BreakerFits
<1>4. /\ delivery' \in [Deliveries -> DeliveryStages]
      /\ delivery'[d] = at /\ \A other \in Deliveries \ {d} : delivery'[other] = delivery[other]
    BY <1>1, DeliveryMoves DEF DeliveryStages
<1>5. DemoTypeOK'
    BY <1>2, <1>4 DEF BreakerInv, DemoTypeOK, calls, DeliveryStages
<1>6. BreakerFits'
    BY <1>2, <1>3, <1>4 DEF BreakerInv, BreakerFits, Reached
<1>. QED  BY <1>5, <1>6 DEF BreakerInv

LEMMA RestoreStep == BreakerInv /\ Restores => BreakerInv'
<1> SUFFICES ASSUME BreakerInv, Restores PROVE BreakerInv'
    OBVIOUS
<1>1. /\ now \in Nat /\ fired \in Nat /\ heard \in Nat /\ now > heard + MaxAge + Skew /\ account = "suspended"
      /\ account' = "active" /\ restored' = TRUE /\ UNCHANGED <<now, calls, seal, fired, heard, delivery, demoFaults>>
    BY DEF Restores, BreakerInv, DemoTypeOK
<1>2. fired > 0 /\ fired <= heard + Skew + 1 /\ \E d \in Deliveries : delivery[d] # "idle"
    BY <1>1 DEF BreakerInv, BreakerFits
<1>3. now + 1 >= fired + MaxAge
    BY <1>1, <1>2, BreakerConstants
<1>4. DemoTypeOK'
    BY <1>1 DEF BreakerInv, DemoTypeOK, calls
<1>5. BreakerFits'
    BY <1>1, <1>2, <1>3 DEF BreakerInv, BreakerFits, Reached
<1>. QED  BY <1>4, <1>5 DEF BreakerInv

LEMMA WaitStep == BreakerInv /\ Passes => BreakerInv'
<1> SUFFICES ASSUME BreakerInv, Passes PROVE BreakerInv'
    OBVIOUS
<1>1. now' = now + 1 /\ now \in Nat /\ fired \in Nat /\ UNCHANGED <<calls, breaker, demoFaults>>
    BY DEF Passes, BreakerInv, DemoTypeOK
<1>2. DemoTypeOK'
    BY <1>1 DEF BreakerInv, DemoTypeOK, calls, breaker
<1>3. BreakerFits'
    BY <1>1, BreakerConstants DEF BreakerInv, BreakerFits, Reached, breaker
<1>. QED  BY <1>2, <1>3 DEF BreakerInv

LEMMA BreakerGoesOn == BreakerInv /\ BreakerNext => BreakerInv'
    BY FireStep, DeliverStep, TripStep, SealSteps, RestoreStep, WaitStep DEF BreakerNext, DeliveryStep

LEMMA BreakerHolds == BreakerInv => DemoTypeOK /\ SealedIsSuspended
    BY DEF BreakerInv, BreakerFits, SealedIsSuspended, Reached

\* Only the suspension and the operator change the account, and neither does once it is restored.
LEMMA RestoredStep == BreakerInv /\ (BreakerNext \/ UNCHANGED breaker) => (restored => account' = account)
<1> SUFFICES ASSUME BreakerInv, restored, BreakerNext \/ UNCHANGED breaker PROVE account' = account
    OBVIOUS
<1>1. ~CallbackIsFresh
    BY BreakerConstants DEF BreakerInv, BreakerFits, CallbackIsFresh, DemoTypeOK
<1>2. ASSUME NEW d \in Deliveries, Trips(d) PROVE account' = account
    BY <1>1, <1>2 DEF Trips
<1>3. ASSUME NEW d \in Deliveries, DeliveryStep(d) PROVE account' = account
    BY <1>2, <1>3 DEF DeliveryStep, Delivers, Seals, Completes
<1>4. Fires \/ Passes \/ UNCHANGED breaker => account' = account
    BY DEF Fires, Passes, breaker
<1>5. ~Restores
    BY DEF Restores
<1>. QED  BY <1>3, <1>4, <1>5 DEF BreakerNext

-----------------------------------------------------------------------------
(* An estimate link.                                                        *)

Documents == [status : {"pending", "processing", "complete", "failed"}, media : Uploads \cup {None},
              path : BOOLEAN, lease : {"live", "over"}, attempts : Nat, notified : BOOLEAN,
              state : Link!States \cup {None}, result : Uploads \cup {None}, open : BOOLEAN]
UploadRuns == [at : {"idle", "claim", "analyze", "complete", "fail", "send", "done"}, path : BOOLEAN]
SweepRuns == [at : {"idle", "claim", "analyze", "complete", "fail", "notify", "confirm", "hold"},
              media : Uploads \cup {None}, path : BOOLEAN, attempts : Nat]

\* Who may still tell the customer of an attempt: whoever claims the announcement on the document, a sweep
\* that has claimed it, and the handler of a photo, which asks nobody.
Unclaimed(u) == upload[u].at \in {"idle", "claim"}
MayTell(u) == Unclaimed(u) \/ (estimate.media = u /\ Link!Available(estimate))
Tells(w, u) == sweep[w].at = "notify" /\ sweep[w].media = u
IsTold(u) == \E w \in Sweepers : Tells(w, u)
Owes(u) == upload[u].at \in {"idle", "claim", "analyze", "send"}

VideoFits(u) ==
    /\ texted[u] <= 1
    /\ MayTell(u) \/ IsTold(u) \/ upload[u].at = "send" => texted[u] = 0
    /\ upload[u].at = "send" => ~MayTell(u) /\ ~IsTold(u)

PhotoFits(u) ==
    /\ upload[u].at \notin {"complete", "fail"}
    /\ u \notin recovered => texted[u] <= 1 /\ (Owes(u) => texted[u] = 0)
    /\ u \in recovered =>
           /\ texted[u] <= 2
           /\ Owes(u) \/ MayTell(u) \/ IsTold(u) => texted[u] <= 1
           /\ Owes(u) /\ (MayTell(u) \/ IsTold(u)) => texted[u] = 0

UploadFits(u) ==
    /\ Unclaimed(u) => texted[u] = 0 /\ estimate.media # u /\ u \notin recovered
    /\ u \notin recovered => \A w \in Sweepers : sweep[w].media # u
    /\ IsTold(u) => ~MayTell(u)
    /\ u \notin Photos => VideoFits(u)
    /\ u \in Photos => PhotoFits(u)

SweepFits(w) ==
    /\ sweep[w].media = None <=> sweep[w].at \in {"idle", "claim"}
    /\ sweep[w].at \in {"confirm", "hold"} => w \in Strict
    /\ w \in Strict /\ sweep[w].at \in {"notify", "confirm"} => Link!Held(estimate) /\ estimate.media = sweep[w].media
    /\ sweep[w].at = "confirm" => texted[sweep[w].media] > 0

\* An announcement is claimed by one sweep.
SweepsApart ==
    \A v, w \in Sweepers : v # w =>
        /\ sweep[v].at = "notify" /\ sweep[w].at = "notify" => sweep[v].media # sweep[w].media
        /\ v \in Strict /\ w \in Strict /\ sweep[v].at \in {"notify", "confirm"} => sweep[w].at \notin {"notify", "confirm"}

DocumentFits ==
    /\ estimate.status = "processing" \/ estimate.state # None => estimate.media # None
    /\ Link!Held(estimate) => estimate.status # "processing"
    /\ Photos \cap recovered = {} => \A u \in Photos : upload[u].at = "analyze" => Link!IsCurrent(estimate, u)
    /\ Link!AnswerIsOfMedia
    /\ Link!SentWasTexted

LinkInv ==
    /\ Link!EstimateTypeOK
    /\ \A u \in Uploads : UploadFits(u)
    /\ \A w \in Sweepers : SweepFits(w)
    /\ SweepsApart
    /\ DocumentFits

LinkVars == <<estimate, upload, sweep, texted, recovered, faults>>

LEMMA LinkConstants ==
    /\ Photos \subseteq Uploads /\ Strict \subseteq Sweepers
    /\ None \notin Uploads /\ None # "pending_external" /\ None # "sent" /\ None # "needs_attention"
    BY DeskAssumption DEF Link!EstimateAssumption

LEMMA LinkTypes ==
    Link!EstimateTypeOK <=>
        /\ estimate \in Documents /\ upload \in [Uploads -> UploadRuns] /\ sweep \in [Sweepers -> SweepRuns]
        /\ texted \in [Uploads -> Nat] /\ recovered \subseteq Uploads /\ faults \in Nat
    BY DEF Link!EstimateTypeOK, Documents, UploadRuns, SweepRuns

LEMMA LinkTypesStay ==
    ASSUME estimate' \in Documents, upload' \in [Uploads -> UploadRuns], sweep' \in [Sweepers -> SweepRuns],
           texted' \in [Uploads -> Nat], recovered' \subseteq Uploads, faults' \in Nat
    PROVE  Link!EstimateTypeOK'
    BY DEF Link!EstimateTypeOK, Documents, UploadRuns, SweepRuns

LEMMA LinkStarts == Link!EstimateInit => LinkInv
<1> SUFFICES ASSUME Link!EstimateInit PROVE LinkInv
    OBVIOUS
<1>1. Link!EstimateTypeOK
    BY DEF Link!EstimateInit, Link!EstimateTypeOK, Link!Idle
<1>2. \A u \in Uploads : UploadFits(u)
    BY LinkConstants DEF Link!EstimateInit, UploadFits, VideoFits, PhotoFits, MayTell, Unclaimed, IsTold, Tells, Owes, Link!Idle
<1>3. (\A w \in Sweepers : SweepFits(w)) /\ SweepsApart
    BY DEF Link!EstimateInit, Link!Idle, SweepFits, SweepsApart
<1>4. DocumentFits
    BY LinkConstants DEF Link!EstimateInit, DocumentFits, Link!Held, Link!AnswerIsOfMedia, Link!SentWasTexted
<1>. QED  BY <1>1, <1>2, <1>3, <1>4 DEF LinkInv

LEMMA LinkStays == LinkInv /\ UNCHANGED LinkVars => LinkInv'
    BY DEF LinkInv, LinkVars, Link!EstimateTypeOK, UploadFits, VideoFits, PhotoFits, MayTell, Unclaimed, IsTold, Tells, Owes,
           SweepFits, SweepsApart, DocumentFits, Link!Held, Link!AnswerIsOfMedia, Link!SentWasTexted, Link!IsCurrent, Link!Available

LEMMA LinkHolds == LinkInv => Link!EstimateTypeOK /\ Link!ToldOnce /\ Link!AnswerIsOfMedia /\ Link!SentWasTexted
<1> SUFFICES ASSUME LinkInv PROVE Link!ToldOnce
    BY DEF LinkInv, DocumentFits
<1>1. ASSUME NEW u \in Uploads PROVE texted[u] <= IF u \in Photos \cap recovered THEN 2 ELSE 1
    BY DEF LinkInv, UploadFits, VideoFits, PhotoFits
<1>. QED  BY <1>1 DEF Link!ToldOnce

\* An attempt is left alone: it may lose the announcement and be dropped by a sweep, and nothing else.
LEMMA UploadIsLeft ==
    ASSUME LinkInv, NEW u \in Uploads, upload'[u].at = upload[u].at, texted'[u] = texted[u],
           u \in recovered' <=> u \in recovered,
           estimate'.media = u => estimate.media = u /\ (Link!Available(estimate') => Link!Available(estimate)),
           \A w \in Sweepers : sweep'[w].media = u =>
               sweep[w].media = u /\ (sweep'[w].at = "notify" => sweep[w].at = "notify")
    PROVE  UploadFits(u)'
<1>1. UploadFits(u)
    BY DEF LinkInv
<1>2. Unclaimed(u)' <=> Unclaimed(u)
    BY DEF Unclaimed
<1>3. MayTell(u)' => MayTell(u)
    BY <1>2 DEF MayTell
<1>4. IsTold(u)' => IsTold(u)
    BY DEF IsTold, Tells
<1>5. Owes(u)' <=> Owes(u)
    BY DEF Owes
<1>6. VideoFits(u) => VideoFits(u)'
    BY <1>3, <1>4 DEF VideoFits
<1>7. PhotoFits(u) => PhotoFits(u)'
    BY <1>3, <1>4, <1>5 DEF PhotoFits
<1>. QED  BY <1>1, <1>2, <1>3, <1>4, <1>6, <1>7 DEF UploadFits

LEMMA SweepIsLeft ==
    ASSUME LinkInv, NEW w \in Sweepers, sweep'[w] = sweep[w],
           w \in Strict /\ sweep[w].at \in {"notify", "confirm"} => Link!Held(estimate') /\ estimate'.media = estimate.media,
           texted' \in [Uploads -> Nat], \A u \in Uploads : texted'[u] >= texted[u]
    PROVE  SweepFits(w)'
<1>1. SweepFits(w) /\ sweep[w].media \in Uploads \cup {None} /\ texted \in [Uploads -> Nat]
    BY LinkTypes DEF LinkInv, SweepRuns
<1>2. sweep[w].at = "confirm" => sweep[w].media \in Uploads
    BY <1>1 DEF SweepFits
<1>3. sweep[w].at = "confirm" => texted'[sweep[w].media] > 0
    <2> SUFFICES ASSUME sweep[w].at = "confirm" PROVE texted'[sweep[w].media] > 0
        OBVIOUS
    <2> DEFINE u == sweep[w].media
    <2>1. u \in Uploads /\ texted[u] > 0
        BY <1>1, <1>2 DEF SweepFits
    <2>2. texted'[u] >= texted[u] /\ texted'[u] \in Nat /\ texted[u] \in Nat
        BY <1>1, <2>1
    <2>. QED  BY <2>1, <2>2
<1>. QED  BY <1>1, <1>3 DEF SweepFits

\* One upload moves.
LEMMA UploadMoves ==
    ASSUME LinkInv, NEW u \in Uploads, UNCHANGED <<sweep, recovered>>,
           estimate' \in Documents, upload' \in [Uploads -> UploadRuns], texted' \in [Uploads -> Nat], faults' \in Nat,
           \A v \in Uploads \ {u} : upload'[v] = upload[v] /\ texted'[v] = texted[v],
           texted'[u] >= texted[u],
           \A v \in Uploads \ {u} :
               estimate'.media = v => estimate.media = v /\ (Link!Available(estimate') => Link!Available(estimate)),
           Link!Held(estimate) => Link!Held(estimate') /\ estimate'.media = estimate.media,
           UploadFits(u)', DocumentFits'
    PROVE  LinkInv'
<1>1. Link!EstimateTypeOK'
    BY LinkTypes, LinkTypesStay DEF LinkInv
<1>2. ASSUME NEW v \in Uploads PROVE UploadFits(v)'
    BY UploadIsLeft
<1>3. \A v \in Uploads : texted'[v] >= texted[v]
    BY LinkTypes DEF LinkInv
<1>4. ASSUME NEW w \in Sweepers PROVE SweepFits(w)'
    BY <1>3, SweepIsLeft DEF LinkInv, SweepFits
<1>5. SweepsApart'
    BY DEF LinkInv, SweepsApart
<1>. QED  BY <1>1, <1>2, <1>4, <1>5 DEF LinkInv

\* One sweep moves.
LEMMA SweepMoves ==
    ASSUME LinkInv, NEW w \in Sweepers, UNCHANGED upload,
           estimate' \in Documents, sweep' \in [Sweepers -> SweepRuns], texted' \in [Uploads -> Nat], faults' \in Nat,
           recovered' \subseteq Uploads, estimate'.media = estimate.media,
           \A v \in Sweepers \ {w} : sweep'[v] = sweep[v],
           \A v \in Strict \ {w} : sweep[v].at \in {"notify", "confirm"} => Link!Held(estimate'),
           \A u \in Uploads : texted'[u] >= texted[u],
           \A u \in Uploads : UploadFits(u)',
           SweepFits(w)', DocumentFits',
           sweep'[w].at = "notify" =>
               \A v \in Sweepers \ {w} : sweep[v].at = "notify" => sweep[v].media # sweep'[w].media,
           w \in Strict /\ sweep'[w].at \in {"notify", "confirm"} =>
               \A v \in Strict \ {w} : sweep[v].at \notin {"notify", "confirm"}
    PROVE  LinkInv'
<1>1. Link!EstimateTypeOK'
    <2>1. upload' \in [Uploads -> UploadRuns]
        BY LinkTypes DEF LinkInv
    <2>. QED  BY <2>1, LinkTypesStay
<1>2. ASSUME NEW v \in Sweepers PROVE SweepFits(v)'
    BY SweepIsLeft
<1>3. SweepsApart'
    BY LinkConstants DEF LinkInv, SweepsApart
<1>. QED  BY <1>1, <1>2, <1>3 DEF LinkInv

LEMMA TransactFits ==
    ASSUME estimate \in Documents, faults \in Nat, NEW answer \in Link!Answers, NEW then \in Documents,
           Link!Transact(answer, then)
    PROVE  /\ estimate' \in Documents /\ faults' \in Nat
           /\ estimate' = estimate \/ estimate' = then
           /\ answer # "failed" => estimate' = then
    BY DEF Link!Transact

LEMMA AnnouncedFits ==
    ASSUME NEW e \in Documents, NEW strict \in BOOLEAN
    PROVE  LET a == Link!Announced(e, strict) IN
           /\ a \in Documents /\ ~Link!Available(a) /\ (~Link!Available(e) => a = e)
           /\ a.status = e.status /\ a.media = e.media /\ a.result = e.result
           /\ a.state = IF strict /\ Link!Available(e) THEN "pending_external" ELSE e.state
<1>1. CASE ~Link!Available(e)
    BY <1>1 DEF Link!Announced
<1>2. CASE Link!Available(e) /\ strict
    BY <1>2, LinkConstants DEF Link!Announced, Link!Available, Documents, Link!States
<1>3. CASE Link!Available(e) /\ ~strict
    BY <1>3, LinkConstants DEF Link!Announced, Link!Available, Documents, Link!States
<1>. QED  BY <1>1, <1>2, <1>3

\* An attempt that is completed or failed is announced, and its record stays that of its media.
LEMMA FinishedFits ==
    ASSUME NEW e \in Documents, NEW m \in Uploads, NEW strict \in BOOLEAN,
           NEW d \in {Link!Completed(e, m, strict), Link!Failed(e, strict)}
    PROVE  /\ d \in Documents /\ ~Link!Available(d) /\ d.status \in {"complete", "failed"} /\ d.media = e.media
           /\ d.result \in {e.result, m}
           /\ d.state = IF strict /\ Link!Available(e) THEN "pending_external" ELSE e.state
<1> DEFINE a == Link!Announced(e, strict)
           b == [a EXCEPT !.status = "complete"]
<1>1. /\ a \in Documents /\ ~Link!Available(a) /\ a.media = e.media /\ a.result = e.result
      /\ a.state = IF strict /\ Link!Available(e) THEN "pending_external" ELSE e.state
    BY AnnouncedFits
<1> HIDE DEF a
<1>2. CASE d = Link!Completed(e, m, strict)
    <2>1. b \in Documents /\ b.status = "complete" /\ \A x \in {"media", "notified", "state", "result"} : b[x] = a[x]
        BY <1>1 DEF Documents
    <2>2. d = [b EXCEPT !.result = m]
        BY <1>2 DEF Link!Completed, a
    <2> HIDE DEF b
    <2>3. d \in Documents /\ d.result = m /\ \A x \in {"media", "notified", "state", "status"} : d[x] = b[x]
        BY <2>1, <2>2 DEF Documents
    <2>. QED  BY <1>1, <2>1, <2>3 DEF Link!Available
<1>3. CASE d = Link!Failed(e, strict)
    <2>1. d = [a EXCEPT !.status = "failed"]
        BY <1>3 DEF Link!Failed, a
    <2>2. d \in Documents /\ d.status = "failed" /\ \A x \in {"media", "notified", "state", "result"} : d[x] = a[x]
        BY <1>1, <2>1 DEF Documents
    <2>. QED  BY <1>1, <2>2 DEF Link!Available
<1>. QED  BY <1>2, <1>3

LEMMA FinishKeeps ==
    ASSUME LinkInv, NEW m \in Uploads, Link!IsCurrent(estimate, m), NEW strict \in BOOLEAN,
           estimate' \in {Link!Completed(estimate, m, strict), Link!Failed(estimate, strict)},
           recovered \subseteq recovered', texted' = texted,
           \A p \in Photos : upload'[p].at = "analyze" => upload[p].at = "analyze",
           upload'[m].at # "analyze" \/ m \in recovered'
    PROVE  /\ estimate' \in Documents /\ estimate'.media = estimate.media /\ ~Link!Available(estimate')
           /\ estimate'.state = IF strict /\ Link!Available(estimate) THEN "pending_external" ELSE estimate.state
           /\ DocumentFits'
<1>1. /\ estimate' \in Documents /\ ~Link!Available(estimate') /\ estimate'.status \in {"complete", "failed"}
      /\ estimate'.media = estimate.media /\ estimate'.result \in {estimate.result, m}
      /\ estimate'.state = IF strict /\ Link!Available(estimate) THEN "pending_external" ELSE estimate.state
    BY FinishedFits, LinkTypes DEF LinkInv
<1>2. estimate.media = m /\ DocumentFits
    BY DEF LinkInv, Link!IsCurrent
<1>3. Link!AnswerIsOfMedia'
    BY <1>1, <1>2 DEF DocumentFits, Link!AnswerIsOfMedia
<1>4. Link!SentWasTexted'
    BY <1>1, <1>2, LinkConstants DEF DocumentFits, Link!SentWasTexted
<1>5. ASSUME Photos \cap recovered' = {}, NEW p \in Photos, upload'[p].at = "analyze" PROVE FALSE
    <2>1. upload[p].at = "analyze" /\ Photos \cap recovered = {}
        BY <1>5
    <2>2. Link!IsCurrent(estimate, p)
        BY <1>2, <2>1 DEF DocumentFits
    <2>3. p = m
        BY <1>2, <2>2 DEF Link!IsCurrent
    <2>. QED  BY <1>5, <2>3
<1>. QED  BY <1>1, <1>2, <1>3, <1>4, <1>5, LinkConstants DEF DocumentFits

\* The document stays.
LEMMA DocumentStays ==
    ASSUME LinkInv, estimate' = estimate, recovered' = recovered, texted' \in [Uploads -> Nat],
           \A u \in Uploads : texted'[u] >= texted[u],
           \A p \in Photos : upload'[p].at = "analyze" => upload[p].at = "analyze"
    PROVE  DocumentFits'
<1>1. DocumentFits /\ texted \in [Uploads -> Nat]
    BY LinkTypes DEF LinkInv
<1>2. Link!SentWasTexted'
    <2> SUFFICES ASSUME estimate.state = "sent" PROVE texted'[estimate.media] > 0
        BY DEF Link!SentWasTexted
    <2> DEFINE u == estimate.media
    <2>1. u \in Uploads /\ texted[u] > 0
        BY <1>1, LinkTypes, LinkConstants DEF LinkInv, DocumentFits, Link!SentWasTexted, Documents
    <2>2. texted'[u] >= texted[u] /\ texted'[u] \in Nat /\ texted[u] \in Nat
        BY <1>1, <2>1
    <2>. QED  BY <2>1, <2>2
<1>. QED  BY <1>1, <1>2 DEF DocumentFits, Link!AnswerIsOfMedia, Link!Held, Link!IsCurrent

-----------------------------------------------------------------------------
LEMMA UploadSteps ==
    ASSUME LinkInv, NEW u \in Uploads, Link!Arrives(u) \/ Link!Analyzes(u) \/ Link!Breaks(u) \/ Link!Sends(u)
    PROVE  LinkInv'
<1>1. /\ estimate \in Documents /\ upload \in [Uploads -> UploadRuns] /\ texted \in [Uploads -> Nat] /\ faults \in Nat
      /\ UploadFits(u) /\ DocumentFits /\ (u \notin Photos <=> u \in Link!Videos) /\ recovered \subseteq Uploads
    BY LinkTypes DEF LinkInv, Link!Videos
<1>2. /\ estimate' = estimate /\ sweep' = sweep /\ recovered' = recovered
      /\ faults' = faults \/ faults' = faults + 1
    <2>1. Link!Arrives(u) \/ Link!Analyzes(u) => UNCHANGED <<estimate, sweep, recovered, faults>>
        BY DEF Link!Arrives, Link!Analyzes
    <2>2. Link!Breaks(u) \/ Link!Sends(u) => UNCHANGED <<estimate, sweep, recovered>> /\ faults' \in {faults, faults + 1}
        BY DEF Link!Breaks, Link!Sends
    <2>. QED  BY <2>1, <2>2
<1>3. /\ upload' \in [Uploads -> UploadRuns] /\ \A v \in Uploads \ {u} : upload'[v] = upload[v]
      /\ \/ /\ Unclaimed(u) /\ upload'[u].at \in {"claim", "done"} /\ texted' = texted
         \/ /\ u \notin Photos /\ upload[u].at = "analyze" /\ upload'[u].at \in {"complete", "fail"} /\ texted' = texted
         \/ /\ upload[u].at # "idle" /\ upload'[u].at = "done" /\ texted' = texted
         \/ /\ upload[u].at = "send" /\ upload'[u].at = "done" /\ texted' = [texted EXCEPT ![u] = @ + 1]
    <2>1. CASE Link!Arrives(u)
        <3>1. upload[u].at = "idle" /\ texted' = texted
            BY <2>1 DEF Link!Arrives
        <3>2. CASE Link!UploadGoes(u, "done")
            BY <1>1, <3>1, <3>2 DEF Link!UploadGoes, UploadRuns, Unclaimed
        <3>3. CASE \E archived \in (IF u \in Photos THEN BOOLEAN ELSE {TRUE}) :
                       upload' = [upload EXCEPT ![u] = [at |-> "claim", path |-> archived]]
            <4>1. PICK archived \in BOOLEAN : upload' = [upload EXCEPT ![u] = [at |-> "claim", path |-> archived]]
                BY <3>3
            <4>2. upload'[u] = [at |-> "claim", path |-> archived] /\ upload'[u] \in UploadRuns
                BY <1>1, <4>1 DEF UploadRuns
            <4>3. upload' \in [Uploads -> UploadRuns] /\ \A v \in Uploads \ {u} : upload'[v] = upload[v]
                BY <1>1, <4>1, <4>2
            <4>. QED  BY <3>1, <4>2, <4>3 DEF Unclaimed
        <3>. QED  BY <2>1, <3>2, <3>3 DEF Link!Arrives
    <2>2. CASE Link!Analyzes(u)
        BY <1>1, <2>2 DEF Link!Analyzes, Link!UploadGoes, UploadRuns
    <2>3. CASE Link!Breaks(u)
        BY <1>1, <2>3 DEF Link!Breaks, Link!UploadGoes, UploadRuns
    <2>4. CASE Link!Sends(u)
        BY <1>1, <2>4 DEF Link!Sends, Link!UploadGoes, UploadRuns
    <2>. QED  BY <2>1, <2>2, <2>3, <2>4
<1>4. /\ texted' \in [Uploads -> Nat] /\ texted'[u] >= texted[u] /\ \A v \in Uploads \ {u} : texted'[v] = texted[v]
      /\ texted'[u] = IF texted' = texted THEN texted[u] ELSE texted[u] + 1
      /\ texted' # texted => upload[u].at = "send" /\ upload'[u].at = "done"
    BY <1>1, <1>3
<1>5. UploadFits(u)'
    <2>1. Unclaimed(u)' => Unclaimed(u)
        BY <1>3 DEF Unclaimed
    <2>2. MayTell(u)' => MayTell(u)
        BY <1>2, <2>1 DEF MayTell
    <2>3. (IsTold(u)' <=> IsTold(u)) /\ (Owes(u)' => Owes(u)) /\ (texted' # texted => Owes(u) /\ ~Owes(u)')
        <3>1. IsTold(u)' <=> IsTold(u)
            BY <1>2 DEF IsTold, Tells
        <3>2. Owes(u)' => Owes(u)
            BY <1>3 DEF Owes, Unclaimed
        <3>3. texted' # texted => Owes(u) /\ ~Owes(u)'
            BY <1>4 DEF Owes
        <3>. QED  BY <3>1, <3>2, <3>3
    <2>4. u \notin Photos => VideoFits(u)'
        BY <1>1, <1>3, <1>4, <2>2, <2>3 DEF UploadFits, VideoFits
    <2>5. u \in Photos => PhotoFits(u)'
        <3> SUFFICES ASSUME u \in Photos PROVE PhotoFits(u)'
            OBVIOUS
        <3>1. PhotoFits(u) /\ upload'[u].at \notin {"complete", "fail"}
            BY <1>1, <1>3 DEF UploadFits
        <3>. QED  BY <1>1, <1>2, <1>4, <2>2, <2>3, <3>1 DEF PhotoFits
    <2>. QED  BY <1>1, <1>2, <1>3, <1>4, <2>1, <2>2, <2>3, <2>4, <2>5 DEF UploadFits, Unclaimed
<1>6. \A v \in Uploads : texted'[v] >= texted[v]
    BY <1>1, <1>4
<1>7. DocumentFits'
    <2>1. \A p \in Photos : upload'[p].at = "analyze" => upload[p].at = "analyze"
        <3> SUFFICES ASSUME NEW p \in Photos, upload'[p].at = "analyze" PROVE upload[p].at = "analyze"
            OBVIOUS
        <3>1. p \in Uploads /\ p # u
            BY <1>3, LinkConstants
        <3>. QED  BY <1>3, <3>1
    <2>. QED  BY <1>2, <1>4, <1>6, <2>1, DocumentStays
<1>. QED  BY <1>2, <1>3, <1>4, <1>5, <1>7, <1>1, UploadMoves

LEMMA ClaimedFits ==
    ASSUME NEW e \in Documents, NEW m \in Uploads, NEW path \in BOOLEAN
    PROVE  LET d == Link!Claimed(e, m, path) IN
           /\ d \in Documents /\ d.status = "processing" /\ d.media = m /\ d.state = None /\ d.result = None
<1> DEFINE d == Link!Claimed(e, m, path)
           a == [e EXCEPT !.status = "processing", !.attempts = e.attempts + 1, !.lease = "live"]
           b == [a EXCEPT !.media = m, !.path = path, !.notified = FALSE]
<1>1. a \in Documents /\ a.status = "processing"
    <2>1. e.attempts + 1 \in Nat
        BY DEF Documents
    <2>. QED  BY <2>1 DEF Documents
<1>2. d = [b EXCEPT !.state = None, !.result = None]
    BY DEF Link!Claimed
<1> HIDE DEF a
<1>3. b \in Documents /\ b.status = "processing" /\ b.media = m
    BY <1>1 DEF Documents
<1> HIDE DEF b, d
<1>4. d \in Documents /\ d.status = "processing" /\ d.media = m /\ d.state = None /\ d.result = None
    BY <1>2, <1>3 DEF Documents
<1>. QED  BY <1>4 DEF d

\* An upload that claims nothing, or whose attempt is another's by now, ends.
LEMMA UploadEnds ==
    ASSUME LinkInv, NEW u \in Uploads, upload' = [upload EXCEPT ![u].at = "done"],
           UNCHANGED <<estimate, sweep, texted, recovered>>, faults' \in Nat
    PROVE  LinkInv'
<1>1. /\ estimate \in Documents /\ upload \in [Uploads -> UploadRuns] /\ texted \in [Uploads -> Nat] /\ UploadFits(u)
    BY LinkTypes DEF LinkInv
<1>2. upload' \in [Uploads -> UploadRuns] /\ upload'[u].at = "done" /\ \A v \in Uploads \ {u} : upload'[v] = upload[v]
    BY <1>1 DEF UploadRuns
<1>3. UploadFits(u)'
    <2>1. (MayTell(u)' => MayTell(u)) /\ (IsTold(u)' <=> IsTold(u)) /\ ~Unclaimed(u)' /\ ~Owes(u)'
        BY <1>2 DEF MayTell, Unclaimed, IsTold, Tells, Owes
    <2>2. (u \notin Photos => VideoFits(u)') /\ (u \in Photos => PhotoFits(u)')
        BY <1>1, <1>2, <2>1 DEF UploadFits, VideoFits, PhotoFits
    <2>. QED  BY <1>1, <2>1, <2>2 DEF UploadFits
<1>4. DocumentFits'
    <2>1. \A p \in Photos : upload'[p].at = "analyze" => upload[p].at = "analyze"
        BY <1>2, LinkConstants
    <2>. QED  BY <1>1, <2>1, DocumentStays
<1>. QED  BY <1>1, <1>2, <1>3, <1>4, UploadMoves

LEMMA ClaimsStep ==
    ASSUME LinkInv, NEW u \in Uploads, Link!ClaimsUpload(u)
    PROVE  LinkInv'
<1>1. PICK answer \in Link!Answers :
          /\ Link!Transact(answer, IF Link!Claimable(estimate) THEN Link!Claimed(estimate, u, upload[u].path) ELSE estimate)
          /\ Link!UploadGoes(u, IF answer = "ok" /\ Link!Claimable(estimate) THEN "analyze" ELSE "done")
    BY DEF Link!ClaimsUpload
<1>2. /\ estimate \in Documents /\ upload \in [Uploads -> UploadRuns] /\ texted \in [Uploads -> Nat] /\ faults \in Nat
      /\ UploadFits(u) /\ DocumentFits /\ Unclaimed(u) /\ UNCHANGED <<sweep, texted, recovered>>
    BY LinkTypes DEF LinkInv, Link!ClaimsUpload, Unclaimed
<1>3. upload[u].path \in BOOLEAN
    BY <1>2 DEF UploadRuns
<1> DEFINE d == Link!Claimed(estimate, u, upload[u].path)
<1>4. d \in Documents /\ d.status = "processing" /\ d.media = u /\ d.state = None /\ d.result = None
    BY <1>2, <1>3, ClaimedFits
<1> HIDE DEF d
<1>5. /\ faults' \in Nat /\ (estimate' = estimate \/ (estimate' = d /\ Link!Claimable(estimate)))
      /\ answer = "ok" /\ Link!Claimable(estimate) => estimate' = d
    BY <1>1, <1>2, <1>4, TransactFits DEF d
<1>6. /\ upload' \in [Uploads -> UploadRuns] /\ \A v \in Uploads \ {u} : upload'[v] = upload[v]
      /\ upload'[u].at \in {"analyze", "done"} /\ (upload'[u].at = "analyze" => estimate' = d)
    BY <1>1, <1>2, <1>5 DEF Link!UploadGoes, UploadRuns
<1>7. CASE estimate' = estimate /\ upload' = [upload EXCEPT ![u].at = "done"]
    BY <1>2, <1>5, <1>7, UploadEnds
<1>8. CASE estimate' = d /\ Link!Claimable(estimate)
    <2>1. ~Link!Held(estimate) /\ estimate.status # "processing"
        BY <1>8 DEF Link!Claimable
    <2>2. texted[u] = 0 /\ u \notin recovered /\ \A w \in Sweepers : sweep[w].media # u
        BY <1>2 DEF UploadFits
    <2>3. UploadFits(u)'
        <3>1. ~Unclaimed(u)' /\ ~IsTold(u)' /\ texted'[u] = 0 /\ u \notin recovered' /\ upload'[u].at # "send"
              /\ \A w \in Sweepers : sweep'[w].media # u
            BY <1>2, <1>6, <2>2 DEF Unclaimed, IsTold, Tells
        <3>2. upload'[u].at \notin {"complete", "fail"}
            BY <1>6
        <3>. QED  BY <3>1, <3>2 DEF UploadFits, VideoFits, PhotoFits
    <2>4. DocumentFits'
        <3>1. ASSUME Photos \cap recovered' = {}, NEW p \in Photos, upload'[p].at = "analyze" PROVE Link!IsCurrent(estimate', p)
            <4>1. p = u \/ upload[p].at = "analyze"
                BY <1>6, <3>1, LinkConstants
            <4>2. upload[p].at # "analyze"
                BY <1>2, <2>1, <3>1 DEF DocumentFits, Link!IsCurrent
            <4>. QED  BY <1>4, <1>8, <4>1, <4>2 DEF Link!IsCurrent
        <3>2. Link!AnswerIsOfMedia' /\ Link!SentWasTexted' /\ ~Link!Held(estimate')
            BY <1>4, <1>8, LinkConstants DEF Link!AnswerIsOfMedia, Link!SentWasTexted, Link!Held
        <3>. QED  BY <1>4, <1>8, <3>1, <3>2, LinkConstants DEF DocumentFits
    <2>5. \A v \in Uploads \ {u} : estimate'.media # v
        BY <1>4, <1>8
    <2>. QED  BY <1>2, <1>4, <1>5, <1>6, <1>8, <2>1, <2>3, <2>4, <2>5, UploadMoves
<1>. QED  BY <1>1, <1>5, <1>6, <1>7, <1>8 DEF Link!UploadGoes

LEMMA RecordsStep ==
    ASSUME LinkInv, NEW u \in Uploads, Link!Records(u)
    PROVE  LinkInv'
<1> DEFINE accepted == Link!IsCurrent(estimate, u)
           d == IF upload[u].at = "fail" THEN Link!Failed(estimate, FALSE) ELSE Link!Completed(estimate, u, FALSE)
<1>1. PICK answer \in Link!Answers :
          /\ Link!Transact(answer, IF accepted THEN d ELSE estimate)
          /\ Link!UploadGoes(u, IF answer = "ok" THEN (IF accepted /\ Link!Available(estimate) THEN "send" ELSE "done")
                                ELSE IF upload[u].at = "complete" THEN "fail" ELSE "done")
    BY DEF Link!Records
<1>2. /\ estimate \in Documents /\ upload \in [Uploads -> UploadRuns] /\ texted \in [Uploads -> Nat] /\ faults \in Nat
      /\ UploadFits(u) /\ DocumentFits /\ UNCHANGED <<sweep, texted, recovered>>
      /\ upload[u].at \in {"complete", "fail"}
    BY LinkTypes DEF LinkInv, Link!Records
<1>3. d \in Documents /\ d.media = estimate.media /\ ~Link!Available(d) /\ d.state = estimate.state
    BY <1>2, FinishedFits
<1>4. /\ faults' \in Nat /\ (estimate' = estimate \/ (estimate' = d /\ accepted))
      /\ answer = "ok" /\ accepted => estimate' = d
    BY <1>1, <1>2, <1>3, TransactFits
<1>5. /\ upload' \in [Uploads -> UploadRuns] /\ \A v \in Uploads \ {u} : upload'[v] = upload[v]
      /\ upload'[u].at \in {"send", "fail", "done"}
      /\ upload'[u].at = "send" => accepted /\ Link!Available(estimate) /\ estimate' = d
    BY <1>1, <1>2, <1>4 DEF Link!UploadGoes, UploadRuns
<1>6. DocumentFits'
    <2>1. \A p \in Photos : upload'[p].at = "analyze" => upload[p].at = "analyze"
        BY <1>5, LinkConstants
    <2>2. CASE estimate' = estimate
        BY <1>2, <2>1, <2>2, DocumentStays
    <2>3. CASE estimate' = d /\ accepted
        BY <1>2, <1>5, <2>1, <2>3, FinishKeeps
    <2>. QED  BY <1>4, <2>2, <2>3
<1>7. estimate'.media = estimate.media /\ (Link!Available(estimate') => Link!Available(estimate)) /\ estimate'.state = estimate.state
      /\ estimate' \in Documents
    BY <1>2, <1>3, <1>4
<1>8. UploadFits(u)'
    <2>1. ~Unclaimed(u)' /\ (MayTell(u)' => MayTell(u)) /\ (IsTold(u)' <=> IsTold(u))
        BY <1>2, <1>5, <1>7 DEF MayTell, Unclaimed, IsTold, Tells
    <2>2. upload'[u].at = "send" => MayTell(u) /\ ~MayTell(u)'
        BY <1>2, <1>3, <1>5, <2>1 DEF MayTell, Link!IsCurrent
    <2>3. u \notin Photos => VideoFits(u)'
        BY <1>2, <1>5, <2>1, <2>2 DEF UploadFits, VideoFits
    <2>4. u \notin Photos
        BY <1>2 DEF UploadFits, PhotoFits
    <2>. QED  BY <1>2, <2>1, <2>3, <2>4 DEF UploadFits
<1>9. Link!Held(estimate) => Link!Held(estimate')
    BY <1>7 DEF Link!Held
<1>. QED  BY <1>2, <1>4, <1>5, <1>6, <1>7, <1>8, <1>9, UploadMoves

LEMMA PhotoStep ==
    ASSUME LinkInv, NEW u \in Uploads, Link!AnswersPhoto(u)
    PROVE  LinkInv'
<1> DEFINE d == [estimate EXCEPT !.status = "complete", !.result = u, !.notified = TRUE]
<1>1. PICK answer \in Link!Answers :
          Link!Transact(answer, d) /\ Link!UploadGoes(u, IF answer = "ok" THEN "send" ELSE "done")
    BY DEF Link!AnswersPhoto
<1>2. /\ estimate \in Documents /\ upload \in [Uploads -> UploadRuns] /\ texted \in [Uploads -> Nat] /\ faults \in Nat
      /\ UploadFits(u) /\ DocumentFits /\ UNCHANGED <<sweep, texted, recovered>>
      /\ upload[u].at = "analyze" /\ u \in Photos
    BY LinkTypes DEF LinkInv, Link!AnswersPhoto
<1>3. /\ d \in Documents /\ d.status = "complete" /\ d.result = u /\ d.notified /\ d.media = estimate.media /\ d.state = estimate.state
    BY <1>2 DEF Documents
<1> HIDE DEF d
<1>4. faults' \in Nat /\ (estimate' = estimate \/ estimate' = d)
    BY <1>1, <1>2, <1>3, TransactFits
<1>5. /\ upload' \in [Uploads -> UploadRuns] /\ \A v \in Uploads \ {u} : upload'[v] = upload[v]
      /\ upload'[u].at \in {"send", "done"}
    BY <1>1, <1>2 DEF Link!UploadGoes, UploadRuns
<1>6. \A p \in Photos : upload'[p].at = "analyze" => p # u /\ upload[p].at = "analyze"
    BY <1>5, LinkConstants
<1>7. DocumentFits'
    <2>1. CASE estimate' = estimate
        BY <1>2, <1>6, <2>1, DocumentStays
    <2>2. CASE estimate' = d
        <3>1. Photos \cap recovered = {} => Link!IsCurrent(estimate, u)
            BY <1>2 DEF DocumentFits
        <3>2. ASSUME Photos \cap recovered' = {}, NEW p \in Photos, upload'[p].at = "analyze" PROVE FALSE
            <4>1. Link!IsCurrent(estimate, p) /\ Link!IsCurrent(estimate, u) /\ p # u
                BY <1>2, <1>6, <3>1, <3>2 DEF DocumentFits
            <4>. QED  BY <4>1 DEF Link!IsCurrent
        <3>3. Link!AnswerIsOfMedia'
            BY <1>2, <1>3, <2>2, <3>1 DEF Link!AnswerIsOfMedia, Link!IsCurrent
        <3>. QED  BY <1>2, <1>3, <2>2, <3>2, <3>3 DEF DocumentFits, Link!SentWasTexted
    <2>. QED  BY <1>4, <2>1, <2>2
<1>8. estimate'.media = estimate.media /\ (Link!Available(estimate') => Link!Available(estimate)) /\ estimate'.state = estimate.state
      /\ estimate' \in Documents
    BY <1>2, <1>3, <1>4 DEF Link!Available
<1>9. UploadFits(u)'
    <2>1. ~Unclaimed(u)' /\ (MayTell(u)' => MayTell(u)) /\ (IsTold(u)' <=> IsTold(u)) /\ Owes(u)
        BY <1>2, <1>5, <1>8 DEF MayTell, Unclaimed, IsTold, Tells, Owes
    <2>2. PhotoFits(u) /\ upload'[u].at \notin {"complete", "fail"}
        BY <1>2, <1>5 DEF UploadFits
    <2>3. PhotoFits(u)'
        BY <1>2, <2>1, <2>2 DEF PhotoFits
    <2>. QED  BY <1>2, <2>1, <2>3 DEF UploadFits
<1>10. Link!Held(estimate) => Link!Held(estimate')
    BY <1>8 DEF Link!Held
<1>. QED  BY <1>2, <1>4, <1>5, <1>7, <1>8, <1>9, <1>10, UploadMoves

-----------------------------------------------------------------------------
LEMMA SweepGiven ==
    ASSUME LinkInv, NEW w \in Sweepers
    PROVE  /\ SweepFits(w) /\ sweep[w] \in SweepRuns /\ sweep \in [Sweepers -> SweepRuns]
           /\ estimate \in Documents /\ texted \in [Uploads -> Nat] /\ faults \in Nat /\ recovered \subseteq Uploads
           /\ sweep[w].at \notin {"idle", "claim"} => sweep[w].media \in Uploads /\ sweep[w].media \in recovered
<1>1. SweepFits(w) /\ sweep[w] \in SweepRuns
    BY LinkTypes DEF LinkInv
<1>2. sweep[w].at \notin {"idle", "claim"} => sweep[w].media \in Uploads
    BY <1>1 DEF SweepFits, SweepRuns
<1>3. sweep[w].media \in Uploads => sweep[w].media \in recovered
    BY DEF LinkInv, UploadFits
<1>. QED  BY <1>1, <1>2, <1>3, LinkTypes DEF LinkInv

\* A sweep goes on with nothing new to tell, or ends.
LEMMA SweepDrops ==
    ASSUME LinkInv, NEW w \in Sweepers, NEW r \in SweepRuns, sweep' = [sweep EXCEPT ![w] = r],
           UNCHANGED <<estimate, upload, texted, recovered>>, faults' \in Nat,
           r.at \notin {"notify", "confirm"}, r.at = "hold" => w \in Strict,
           r.media = None <=> r.at \in {"idle", "claim"},
           r.media \in {None, sweep[w].media}
    PROVE  LinkInv'
<1>1. /\ estimate \in Documents /\ texted \in [Uploads -> Nat] /\ sweep \in [Sweepers -> SweepRuns] /\ recovered \subseteq Uploads
    BY SweepGiven
<1>2. sweep' \in [Sweepers -> SweepRuns] /\ sweep'[w] = r /\ \A v \in Sweepers \ {w} : sweep'[v] = sweep[v]
    BY <1>1
<1>3. ASSUME NEW u \in Uploads PROVE UploadFits(u)'
    <2>1. \A v \in Sweepers : sweep'[v].media = u =>
               sweep[v].media = u /\ (sweep'[v].at = "notify" => sweep[v].at = "notify")
        BY <1>2, LinkConstants
    <2>. QED  BY <2>1, UploadIsLeft
<1>4. SweepFits(w)'
    BY <1>2 DEF SweepFits
<1>5. \A u \in Uploads : texted'[u] >= texted[u]
    BY <1>1
<1>6. DocumentFits'
    BY <1>1, <1>5, DocumentStays
<1>7. \A v \in Strict \ {w} : sweep[v].at \in {"notify", "confirm"} => Link!Held(estimate')
    BY LinkConstants DEF LinkInv, SweepFits
<1>. QED  BY <1>1, <1>2, <1>3, <1>4, <1>5, <1>6, <1>7, SweepMoves

LEMMA IdleFits == Link!Idle \in SweepRuns /\ Link!Idle.at = "idle" /\ Link!Idle.media = None
    BY DEF Link!Idle, SweepRuns

LEMMA SweepSteps ==
    ASSUME LinkInv, NEW w \in Sweepers, Link!Finds(w) \/ Link!Reanalyzes(w) \/ Link!Stops(w)
    PROVE  LinkInv'
<1>1. SweepFits(w) /\ sweep[w] \in SweepRuns /\ sweep \in [Sweepers -> SweepRuns] /\ faults \in Nat /\ estimate \in Documents
    BY SweepGiven
<1>2. UNCHANGED <<estimate, upload, texted, recovered>> /\ faults' \in Nat
    <2>1. Link!Finds(w) \/ Link!Reanalyzes(w) => UNCHANGED <<estimate, upload, texted, recovered, faults>>
        BY DEF Link!Finds, Link!Reanalyzes
    <2>2. Link!Stops(w) => UNCHANGED <<estimate, upload, texted, recovered>> /\ faults' = faults + 1
        BY DEF Link!Stops
    <2>. QED  BY <1>1, <2>1, <2>2
<1>3. CASE Link!Finds(w)
    <2> DEFINE r == [Link!Idle EXCEPT !.at = "claim", !.attempts = estimate.attempts]
    <2>1. sweep' = [sweep EXCEPT ![w] = r]
        BY <1>3 DEF Link!Finds
    <2>2. r \in SweepRuns /\ r.at = "claim" /\ r.media = None
        BY <1>1 DEF Link!Idle, SweepRuns, Documents
    <2> HIDE DEF r
    <2>. QED  BY <1>2, <2>1, <2>2, SweepDrops
<1>4. CASE Link!SweepEnds(w)
    <2>1. sweep' = [sweep EXCEPT ![w] = Link!Idle]
        BY <1>4 DEF Link!SweepEnds
    <2>. QED  BY <1>2, <2>1, IdleFits, SweepDrops
<1>5. ASSUME NEW at \in {"complete", "fail"}, sweep[w].at = "analyze", Link!SweepGoes(w, at) PROVE LinkInv'
    <2> DEFINE r == [sweep[w] EXCEPT !.at = at]
    <2>1. sweep' = [sweep EXCEPT ![w] = r]
        BY <1>1, <1>5 DEF Link!SweepGoes
    <2>2. r \in SweepRuns /\ r.at = at /\ r.media = sweep[w].media /\ r.media # None
        BY <1>1, <1>5 DEF SweepRuns, SweepFits
    <2> HIDE DEF r
    <2>. QED  BY <1>2, <2>1, <2>2, SweepDrops
<1>6. CASE Link!Reanalyzes(w)
    BY <1>4, <1>5, <1>6 DEF Link!Reanalyzes
<1>7. CASE Link!Stops(w)
    BY <1>4, <1>7 DEF Link!Stops
<1>. QED  BY <1>3, <1>6, <1>7

LEMMA NotifiesStep ==
    ASSUME LinkInv, NEW w \in Sweepers, Link!Notifies(w)
    PROVE  LinkInv'
<1>0. PICK m \in Uploads : m = sweep[w].media
    BY SweepGiven DEF Link!Notifies
<1> DEFINE CountsIf(yes) == texted' = IF yes THEN [texted EXCEPT ![m] = @ + 1] ELSE texted
           MovesOn(r, yes) ==
               /\ sweep' = [sweep EXCEPT ![w] = r] /\ CountsIf(yes)
               /\ \/ r.at = "idle" /\ r.media = None /\ yes
                  \/ r.at = "confirm" /\ w \in Strict /\ r.media = m /\ yes
                  \/ r.at = "hold" /\ w \in Strict /\ r.media = m
<1>1. /\ SweepFits(w) /\ sweep[w] \in SweepRuns /\ sweep \in [Sweepers -> SweepRuns] /\ faults \in Nat /\ estimate \in Documents
      /\ texted \in [Uploads -> Nat] /\ recovered \subseteq Uploads /\ sweep[w].at = "notify" /\ sweep[w].media = m /\ m \in recovered
      /\ UNCHANGED <<estimate, upload, recovered, faults>>
    BY <1>0, SweepGiven DEF Link!Notifies
<1>2. PICK r \in SweepRuns, yes \in BOOLEAN : MovesOn(r, yes)
    <2>1. ASSUME Link!SweepEnds(w), CountsIf(TRUE) PROVE MovesOn(Link!Idle, TRUE)
        BY <2>1, IdleFits DEF Link!SweepEnds
    <2>2. ASSUME NEW at \in {"confirm", "hold"}, NEW yes \in BOOLEAN, Link!SweepGoes(w, at), w \in Strict, CountsIf(yes), at = "hold" \/ yes
          PROVE  \E r \in SweepRuns : MovesOn(r, yes)
        <3> DEFINE r == [sweep[w] EXCEPT !.at = at]
        <3>1. sweep' = [sweep EXCEPT ![w] = r] /\ r \in SweepRuns /\ r.at = at /\ r.media = m
            BY <1>1, <2>2 DEF Link!SweepGoes, SweepRuns
        <3> HIDE DEF r
        <3>2. MovesOn(r, yes)
            BY <2>2, <3>1
        <3>. QED  BY <3>1, <3>2
    <2>3. \/ Link!SweepEnds(w) /\ CountsIf(TRUE)
          \/ w \in Strict /\ CountsIf(TRUE) /\ \E next \in {"confirm", "hold"} : Link!SweepGoes(w, next)
          \/ w \in Strict /\ CountsIf(FALSE) /\ Link!SweepGoes(w, "hold")
        BY <1>0 DEF Link!Notifies
    <2> HIDE DEF MovesOn, CountsIf
    <2>. QED  BY <2>1, <2>2, <2>3, IdleFits
<1>3. /\ texted' \in [Uploads -> Nat] /\ texted'[m] = texted[m] + (IF yes THEN 1 ELSE 0)
      /\ \A u \in Uploads \ {m} : texted'[u] = texted[u]
    BY <1>1, <1>2
<1>4. sweep' \in [Sweepers -> SweepRuns] /\ sweep'[w] = r /\ \A v \in Sweepers \ {w} : sweep'[v] = sweep[v]
    BY <1>1, <1>2
<1>5. /\ r.at \in {"idle", "confirm", "hold"} /\ (r.media = None <=> r.at = "idle") /\ r.media \in {None, m}
      /\ (r.at # "idle" => w \in Strict) /\ (r.at = "confirm" => yes)
    BY <1>1, <1>2, LinkConstants
<1>6. ASSUME NEW u \in Uploads PROVE UploadFits(u)'
    <2>1. \A v \in Sweepers : sweep'[v].media = u =>
               sweep[v].media = u /\ (sweep'[v].at = "notify" => sweep[v].at = "notify")
        BY <1>1, <1>4, <1>5, LinkConstants
    <2>2. CASE u # m
        BY <1>1, <1>3, <2>1, <2>2, UploadIsLeft
    <2>3. CASE u = m
        <3>1. UploadFits(m) /\ IsTold(m) /\ ~MayTell(m) /\ ~Unclaimed(m)
            BY <1>1 DEF LinkInv, UploadFits, IsTold, Tells
        <3>2. ~IsTold(m)'
            BY <1>1, <1>4, <1>5 DEF LinkInv, SweepsApart, IsTold, Tells
        <3>3. ~MayTell(m)' /\ ~Unclaimed(m)' /\ (Owes(m)' <=> Owes(m)) /\ upload'[m] = upload[m] /\ m \in recovered'
            BY <1>1, <3>1 DEF MayTell, Unclaimed, Owes
        <3>4. texted[m] \in Nat /\ texted'[m] \in Nat /\ texted'[m] <= texted[m] + 1
            BY <1>1, <1>3
        <3>5. m \notin Photos => VideoFits(m)'
            BY <3>1, <3>2, <3>3, <3>4 DEF UploadFits, VideoFits
        <3>6. m \in Photos => PhotoFits(m)'
            <4> SUFFICES ASSUME m \in Photos PROVE PhotoFits(m)'
                OBVIOUS
            <4>1. PhotoFits(m)
                BY <3>1 DEF UploadFits
            <4>. QED  BY <1>1, <3>1, <3>2, <3>3, <3>4, <4>1 DEF PhotoFits
        <3>. QED  BY <2>3, <3>2, <3>3, <3>5, <3>6 DEF UploadFits
    <2>. QED  BY <2>2, <2>3
<1>7. \A u \in Uploads : texted'[u] >= texted[u]
    BY <1>1, <1>3
<1>8. SweepFits(w)'
    <2>1. texted[m] \in Nat /\ (yes => texted'[m] > 0)
        BY <1>1, <1>3
    <2>2. r.at = "confirm" => r.media = m /\ Link!Held(estimate) /\ estimate.media = m /\ yes
        BY <1>1, <1>5 DEF SweepFits
    <2>. QED  BY <1>1, <1>4, <1>5, <2>1, <2>2 DEF SweepFits
<1>9. DocumentFits'
    BY <1>1, <1>3, <1>7, DocumentStays
<1>10. \A v \in Strict \ {w} : sweep[v].at \in {"notify", "confirm"} => Link!Held(estimate')
    BY <1>1, LinkConstants DEF LinkInv, SweepFits
<1>11. w \in Strict => \A v \in Strict \ {w} : sweep[v].at \notin {"notify", "confirm"}
    BY <1>1, LinkConstants DEF LinkInv, SweepsApart
<1>. QED  BY <1>1, <1>3, <1>4, <1>5, <1>6, <1>7, <1>8, <1>9, <1>10, <1>11, SweepMoves

\* A sweep that finishes an attempt takes the announcement if it is still to be had.
LEMMA SweepFinishes ==
    ASSUME LinkInv, NEW w \in Sweepers, NEW m \in Uploads, Link!IsCurrent(estimate, m),
           estimate' \in {Link!Completed(estimate, m, w \in Strict), Link!Failed(estimate, w \in Strict)},
           recovered' = recovered \cup {m}, UNCHANGED <<upload, texted>>, faults' \in Nat,
           NEW r \in SweepRuns, sweep' = [sweep EXCEPT ![w] = r],
           r.at \in {"idle", "fail", "notify"}, r.media = IF r.at = "idle" THEN None ELSE m,
           r.at = "notify" => Link!Available(estimate)
    PROVE  LinkInv'
<1> DEFINE strict == w \in Strict
<1>1. /\ estimate \in Documents /\ texted \in [Uploads -> Nat] /\ sweep \in [Sweepers -> SweepRuns] /\ recovered \subseteq Uploads
      /\ UploadFits(m) /\ estimate.media = m /\ estimate.status = "processing" /\ strict \in BOOLEAN
    BY SweepGiven DEF LinkInv, Link!IsCurrent
<1>2. /\ estimate' \in Documents /\ estimate'.media = m /\ ~Link!Available(estimate') /\ DocumentFits'
      /\ estimate'.state = IF strict /\ Link!Available(estimate) THEN "pending_external" ELSE estimate.state
    BY <1>1, FinishKeeps
<1>4. sweep' \in [Sweepers -> SweepRuns] /\ sweep'[w] = r /\ \A v \in Sweepers \ {w} : sweep'[v] = sweep[v]
    BY <1>1
<1>5. ASSUME NEW u \in Uploads PROVE UploadFits(u)'
    <2>1. CASE u # m
        <3>1. \A v \in Sweepers : sweep'[v].media = u =>
                   sweep[v].media = u /\ (sweep'[v].at = "notify" => sweep[v].at = "notify")
            BY <1>4, <2>1, LinkConstants
        <3>. QED  BY <1>2, <2>1, <3>1, UploadIsLeft
    <2>2. CASE u = m
        <3>1. ~Unclaimed(m) /\ ~Unclaimed(m)' /\ (Owes(m)' <=> Owes(m)) /\ upload'[m] = upload[m] /\ m \in recovered'
            BY <1>1 DEF UploadFits, Unclaimed, Owes
        <3>2. ~MayTell(m)'
            BY <1>2, <3>1 DEF MayTell
        <3>3. IsTold(m)' => IsTold(m) \/ MayTell(m)
            <4> SUFFICES ASSUME IsTold(m)' PROVE IsTold(m) \/ MayTell(m)
                OBVIOUS
            <4>1. PICK v \in Sweepers : sweep'[v].at = "notify" /\ sweep'[v].media = m
                BY DEF IsTold, Tells
            <4>2. CASE v = w
                BY <1>1, <1>4, <4>1, <4>2 DEF MayTell
            <4>3. CASE v # w
                BY <1>4, <4>1, <4>3 DEF IsTold, Tells
            <4>. QED  BY <4>2, <4>3
        <3>4. m \notin Photos => VideoFits(m)'
            BY <1>1, <3>1, <3>2, <3>3 DEF UploadFits, VideoFits
        <3>5. m \in Photos => PhotoFits(m)'
            <4> SUFFICES ASSUME m \in Photos PROVE PhotoFits(m)'
                OBVIOUS
            <4>1. PhotoFits(m) /\ texted[m] \in Nat
                BY <1>1 DEF UploadFits
            <4>. QED  BY <3>1, <3>2, <3>3, <4>1 DEF PhotoFits
        <3>. QED  BY <2>2, <3>1, <3>2, <3>4, <3>5 DEF UploadFits
    <2>. QED  BY <2>1, <2>2
<1>6. SweepFits(w)'
    BY <1>2, <1>4, LinkConstants DEF SweepFits, Link!Held
<1>7. \A v \in Strict : sweep[v].at \notin {"notify", "confirm"}
    BY <1>1, LinkConstants DEF LinkInv, SweepFits, DocumentFits
<1>8. r.at = "notify" => \A v \in Sweepers : sweep[v].at = "notify" => sweep[v].media # m
    BY <1>1 DEF UploadFits, IsTold, Tells, MayTell
<1>9. \A u \in Uploads : texted'[u] >= texted[u]
    BY <1>1
<1>. QED  BY <1>1, <1>2, <1>4, <1>5, <1>6, <1>7, <1>8, <1>9, SweepMoves

LEMMA ReclaimsStep ==
    ASSUME LinkInv, NEW w \in Sweepers, Link!Reclaims(w)
    PROVE  LinkInv'
<1> DEFINE expired == Link!Expired(estimate, sweep[w].attempts)
           last == estimate.attempts >= MAX_ANALYSIS_ATTEMPTS
           renewed == [estimate EXCEPT !.attempts = @ + 1, !.lease = "live"]
           next == IF ~last THEN (IF estimate.path THEN "analyze" ELSE "fail")
                   ELSE IF Link!Available(estimate) THEN "notify" ELSE "idle"
<1>1. PICK answer \in Link!Answers :
          /\ Link!Transact(answer, IF ~expired THEN estimate ELSE IF last THEN Link!Failed(estimate, w \in Strict) ELSE renewed)
          /\ recovered' = IF expired /\ answer # "failed" THEN recovered \cup {estimate.media} ELSE recovered
          /\ IF expired /\ answer = "ok" /\ next # "idle"
             THEN sweep' = [sweep EXCEPT ![w] = [at |-> next, media |-> estimate.media, path |-> estimate.path,
                                                 attempts |-> estimate'.attempts]]
             ELSE Link!SweepEnds(w)
    BY DEF Link!Reclaims
<1>2. /\ SweepFits(w) /\ sweep[w] \in SweepRuns /\ sweep \in [Sweepers -> SweepRuns] /\ estimate \in Documents
      /\ texted \in [Uploads -> Nat] /\ faults \in Nat /\ recovered \subseteq Uploads /\ UNCHANGED <<upload, texted>>
    BY SweepGiven DEF Link!Reclaims
<1>3. faults' \in Nat
    BY <1>1, <1>2 DEF Link!Transact
<1>4. CASE ~expired \/ answer = "failed"
    <2>1. estimate' = estimate /\ recovered' = recovered /\ sweep' = [sweep EXCEPT ![w] = Link!Idle]
        BY <1>1, <1>4 DEF Link!Transact, Link!SweepEnds
    <2>. QED  BY <1>2, <1>3, <2>1, IdleFits, SweepDrops
<1>5. CASE expired /\ answer # "failed"
    <2>1. PICK m \in Uploads : m = estimate.media
        BY <1>2, <1>5 DEF LinkInv, DocumentFits, Link!Expired, Documents
    <2>2. Link!IsCurrent(estimate, m) /\ recovered' = recovered \cup {m}
        BY <1>1, <1>5, <2>1 DEF Link!Expired, Link!IsCurrent
    <2>3. estimate' = IF last THEN Link!Failed(estimate, w \in Strict) ELSE renewed
        BY <1>1, <1>5 DEF Link!Transact
    <2>4. CASE last
        <3>1. estimate' = Link!Failed(estimate, w \in Strict) /\ estimate' \in Documents
            <4>1. (w \in Strict) \in BOOLEAN
                OBVIOUS
            <4>. QED  BY <1>2, <2>1, <2>2, <2>3, <2>4, <4>1, FinishedFits
        <3>2. PICK r \in SweepRuns :
                  /\ sweep' = [sweep EXCEPT ![w] = r] /\ r.at \in {"idle", "notify"}
                  /\ r.media = (IF r.at = "idle" THEN None ELSE m) /\ (r.at = "notify" => Link!Available(estimate))
            <4>1. CASE Link!SweepEnds(w)
                BY <4>1, IdleFits DEF Link!SweepEnds
            <4>2. CASE ~Link!SweepEnds(w)
                <5> DEFINE r == [at |-> "notify", media |-> m, path |-> estimate.path, attempts |-> estimate'.attempts]
                <5>1. sweep' = [sweep EXCEPT ![w] = r] /\ Link!Available(estimate)
                    BY <1>1, <2>1, <2>4, <4>2
                <5>2. r \in SweepRuns /\ r.at = "notify" /\ r.media = m
                    BY <1>2, <3>1 DEF SweepRuns, Documents
                <5> HIDE DEF r
                <5>. QED  BY <5>1, <5>2
            <4>. QED  BY <4>1, <4>2
        <3>. QED  BY <1>2, <1>3, <2>2, <3>1, <3>2, SweepFinishes
    <2>5. CASE ~last
        <3>1. /\ estimate' \in Documents /\ estimate'.status = estimate.status /\ estimate'.media = m
              /\ estimate'.state = estimate.state /\ estimate'.notified = estimate.notified /\ estimate'.result = estimate.result
            <4>1. estimate.attempts + 1 \in Nat
                BY <1>2 DEF Documents
            <4>. QED  BY <1>2, <2>1, <2>3, <2>5, <4>1 DEF Documents
        <3>2. PICK r \in SweepRuns :
                  sweep' = [sweep EXCEPT ![w] = r] /\ r.at \in {"idle", "analyze", "fail"} /\ r.media = (IF r.at = "idle" THEN None ELSE m)
            <4>1. CASE Link!SweepEnds(w)
                BY <4>1, IdleFits DEF Link!SweepEnds
            <4>2. CASE ~Link!SweepEnds(w)
                <5> DEFINE r == [at |-> next, media |-> m, path |-> estimate.path, attempts |-> estimate'.attempts]
                <5>1. sweep' = [sweep EXCEPT ![w] = r] /\ next \in {"analyze", "fail"}
                    BY <1>1, <2>1, <2>5, <4>2
                <5>2. r \in SweepRuns /\ r.at \in {"analyze", "fail"} /\ r.media = m
                    BY <1>2, <3>1, <5>1 DEF SweepRuns, Documents
                <5> HIDE DEF r
                <5>. QED  BY <5>1, <5>2
            <4>. QED  BY <4>1, <4>2
        <3>3. sweep' \in [Sweepers -> SweepRuns] /\ sweep'[w] = r /\ \A v \in Sweepers \ {w} : sweep'[v] = sweep[v]
            BY <1>2, <3>2
        <3>4. (Link!Available(estimate') <=> Link!Available(estimate)) /\ (Link!Held(estimate') <=> Link!Held(estimate))
            BY <3>1 DEF Link!Available, Link!Held
        <3>5. ASSUME NEW u \in Uploads PROVE UploadFits(u)'
            <4>1. CASE u # m
                <5>1. \A v \in Sweepers : sweep'[v].media = u =>
                           sweep[v].media = u /\ (sweep'[v].at = "notify" => sweep[v].at = "notify")
                    BY <3>2, <3>3, <4>1, LinkConstants
                <5>. QED  BY <1>2, <2>1, <2>2, <3>1, <3>4, <4>1, <5>1, UploadIsLeft
            <4>2. CASE u = m
                <5>1. UploadFits(m)
                    BY DEF LinkInv
                <5>2. ~Unclaimed(m) /\ ~Unclaimed(m)' /\ (Owes(m)' <=> Owes(m)) /\ upload'[m] = upload[m] /\ m \in recovered'
                    BY <1>2, <2>1, <2>2, <5>1 DEF UploadFits, Unclaimed, Owes
                <5>3. MayTell(m)' <=> MayTell(m)
                    BY <2>1, <3>1, <3>4, <5>2 DEF MayTell
                <5>4. IsTold(m)' => IsTold(m)
                    BY <3>2, <3>3 DEF IsTold, Tells
                <5>5. m \notin Photos => VideoFits(m)'
                    BY <1>2, <5>1, <5>2, <5>3, <5>4 DEF UploadFits, VideoFits
                <5>6. m \in Photos => PhotoFits(m)'
                    <6> SUFFICES ASSUME m \in Photos PROVE PhotoFits(m)'
                        OBVIOUS
                    <6>1. PhotoFits(m) /\ texted[m] \in Nat
                        BY <1>2, <5>1 DEF UploadFits
                    <6>. QED  BY <1>2, <5>1, <5>2, <5>3, <5>4, <6>1 DEF PhotoFits
                <5>. QED  BY <4>2, <5>1, <5>2, <5>3, <5>4, <5>5, <5>6 DEF UploadFits
            <4>. QED  BY <4>1, <4>2
        <3>6. SweepFits(w)'
            BY <3>2, <3>3, LinkConstants DEF SweepFits
        <3>7. DocumentFits'
            <4>1. DocumentFits /\ estimate.media = m
                BY <2>1 DEF LinkInv
            <4>2. Link!AnswerIsOfMedia' /\ Link!SentWasTexted'
                BY <1>2, <2>2, <3>1, <4>1 DEF DocumentFits, Link!AnswerIsOfMedia, Link!SentWasTexted
            <4>. QED  BY <1>2, <2>2, <3>1, <3>4, <4>1, <4>2 DEF DocumentFits, Link!IsCurrent
        <3>8. \A v \in Strict \ {w} : sweep[v].at \in {"notify", "confirm"} => Link!Held(estimate')
            BY <3>4, LinkConstants DEF LinkInv, SweepFits
        <3>9. \A u \in Uploads : texted'[u] >= texted[u]
            BY <1>2
        <3>. QED  BY <1>2, <1>3, <2>1, <2>2, <3>1, <3>2, <3>3, <3>5, <3>6, <3>7, <3>8, <3>9, SweepMoves
    <2>. QED  BY <2>4, <2>5
<1>. QED  BY <1>4, <1>5

LEMMA SettlesStep ==
    ASSUME LinkInv, NEW w \in Sweepers, Link!Settles(w)
    PROVE  LinkInv'
<1>1. PICK m \in Uploads : m = sweep[w].media /\ m \in recovered
    BY SweepGiven DEF Link!Settles
<1> DEFINE accepted == Link!IsCurrent(estimate, m)
           d == IF sweep[w].at = "fail" THEN Link!Failed(estimate, w \in Strict) ELSE Link!Completed(estimate, m, w \in Strict)
<1>2. PICK answer \in Link!Answers :
          /\ Link!Transact(answer, IF accepted THEN d ELSE estimate)
          /\ IF answer = "ok" /\ accepted /\ Link!Available(estimate) THEN Link!SweepGoes(w, "notify")
             ELSE IF answer # "ok" /\ sweep[w].at = "complete" /\ sweep[w].attempts >= MAX_ANALYSIS_ATTEMPTS
             THEN Link!SweepGoes(w, "fail") ELSE Link!SweepEnds(w)
    BY <1>1 DEF Link!Settles
<1>3. /\ SweepFits(w) /\ sweep[w] \in SweepRuns /\ sweep \in [Sweepers -> SweepRuns] /\ estimate \in Documents
      /\ texted \in [Uploads -> Nat] /\ faults \in Nat /\ recovered \subseteq Uploads /\ UNCHANGED <<upload, texted, recovered>>
    BY SweepGiven DEF Link!Settles
<1>4. faults' \in Nat /\ (estimate' = estimate \/ (estimate' = d /\ accepted))
    BY <1>2, <1>3 DEF Link!Transact
<1>5. PICK r \in SweepRuns :
          /\ sweep' = [sweep EXCEPT ![w] = r] /\ r.at \in {"idle", "fail", "notify"}
          /\ r.media = (IF r.at = "idle" THEN None ELSE m)
          /\ r.at = "notify" => Link!Available(estimate) /\ accepted /\ estimate' = d
    <2>1. CASE Link!SweepEnds(w)
        BY <2>1, IdleFits DEF Link!SweepEnds
    <2>2. ASSUME NEW at \in {"fail", "notify"}, Link!SweepGoes(w, at),
                 at = "notify" => Link!Available(estimate) /\ accepted /\ estimate' = d
          PROVE  \E r \in SweepRuns :
                     /\ sweep' = [sweep EXCEPT ![w] = r] /\ r.at \in {"idle", "fail", "notify"}
                     /\ r.media = (IF r.at = "idle" THEN None ELSE m)
                     /\ r.at = "notify" => Link!Available(estimate) /\ accepted /\ estimate' = d
        <3> DEFINE r == [sweep[w] EXCEPT !.at = at]
        <3>1. sweep' = [sweep EXCEPT ![w] = r] /\ r \in SweepRuns /\ r.at = at /\ r.media = m
            BY <1>1, <1>3, <2>2 DEF Link!SweepGoes, SweepRuns
        <3> HIDE DEF r, d, accepted
        <3>. QED  BY <2>2, <3>1
    <2>3. answer = "ok" /\ accepted => estimate' = d
        BY <1>2 DEF Link!Transact
    <2> HIDE DEF d, accepted
    <2>. QED  BY <1>2, <2>1, <2>2, <2>3
<1>6. CASE estimate' = d /\ accepted
    <2>1. estimate' \in {Link!Completed(estimate, m, w \in Strict), Link!Failed(estimate, w \in Strict)}
        BY <1>6
    <2>2. recovered' = recovered \cup {m}
        BY <1>1, <1>3
    <2> HIDE DEF d
    <2>. QED  BY <1>3, <1>4, <1>5, <1>6, <2>1, <2>2, SweepFinishes
<1>7. CASE estimate' = estimate /\ r.at # "notify"
    <2>1. (r.media = None <=> r.at \in {"idle", "claim"}) /\ r.media \in {None, sweep[w].media}
        BY <1>1, <1>5, <1>7, LinkConstants
    <2>. QED  BY <1>3, <1>4, <1>5, <1>7, <2>1, SweepDrops
<1> HIDE DEF d, accepted
<1>. QED  BY <1>4, <1>5, <1>6, <1>7

\* A strict text is settled: its record changes, and the sweep goes on to hold it or ends.
LEMMA RecordSettles ==
    ASSUME LinkInv, NEW w \in Strict, sweep[w].at \in {"confirm", "hold"},
           UNCHANGED <<upload, texted, recovered>>, faults' \in Nat, Link!Held(estimate),
           estimate' \in Documents, estimate'.status = estimate.status, estimate'.media = estimate.media,
           estimate'.result = estimate.result,
           estimate'.state \in {"sent", "needs_attention"}, estimate'.state = "sent" => sweep[w].at = "confirm",
           NEW r \in SweepRuns, sweep' = [sweep EXCEPT ![w] = r],
           r.at \in {"idle", "hold"}, r.media = IF r.at = "idle" THEN None ELSE sweep[w].media
    PROVE  LinkInv'
<1>1. /\ w \in Sweepers /\ SweepFits(w) /\ sweep \in [Sweepers -> SweepRuns] /\ sweep[w].media \in Uploads
      /\ texted \in [Uploads -> Nat] /\ recovered \subseteq Uploads /\ DocumentFits /\ estimate \in Documents
    BY SweepGiven, LinkConstants DEF LinkInv
<1>2. sweep' \in [Sweepers -> SweepRuns] /\ sweep'[w] = r /\ \A v \in Sweepers \ {w} : sweep'[v] = sweep[v]
    BY <1>1
<1>3. ~Link!Available(estimate')
    BY LinkConstants DEF Link!Available
<1>4. ASSUME NEW u \in Uploads PROVE UploadFits(u)'
    <2>1. \A v \in Sweepers : sweep'[v].media = u =>
               sweep[v].media = u /\ (sweep'[v].at = "notify" => sweep[v].at = "notify")
        BY <1>2, LinkConstants
    <2>. QED  BY <1>3, <2>1, UploadIsLeft
<1>5. SweepFits(w)'
    BY <1>1, <1>2, LinkConstants DEF SweepFits
<1>6. DocumentFits'
    <2>1. Link!SentWasTexted'
        BY <1>1 DEF SweepFits, Link!SentWasTexted
    <2>2. Link!AnswerIsOfMedia'
        BY <1>1 DEF DocumentFits, Link!AnswerIsOfMedia
    <2>3. Photos \cap recovered' = {} => \A u \in Photos : upload'[u].at = "analyze" => Link!IsCurrent(estimate', u)
        BY <1>1 DEF DocumentFits, Link!IsCurrent
    <2>. QED  BY <1>1, <2>1, <2>2, <2>3, LinkConstants DEF DocumentFits, Link!Held
<1>7. \A v \in Strict \ {w} : sweep[v].at \in {"notify", "confirm"} => Link!Held(estimate')
    BY <1>1, LinkConstants DEF LinkInv, SweepsApart, Link!Held
<1>8. \A u \in Uploads : texted'[u] >= texted[u]
    BY <1>1
<1>. QED  BY <1>1, <1>2, <1>4, <1>5, <1>6, <1>7, <1>8, SweepMoves

LEMMA ConfirmSteps ==
    ASSUME LinkInv, NEW w \in Sweepers, Link!Confirms(w) \/ Link!Holds(w)
    PROVE  LinkInv'
<1>1. /\ SweepFits(w) /\ sweep[w] \in SweepRuns /\ sweep \in [Sweepers -> SweepRuns] /\ estimate \in Documents
      /\ texted \in [Uploads -> Nat] /\ faults \in Nat /\ sweep[w].at \in {"confirm", "hold"} /\ sweep[w].media \in Uploads
      /\ w \in Strict /\ UNCHANGED <<upload, texted, recovered>>
    BY SweepGiven DEF SweepFits, Link!Confirms, Link!Holds
<1> DEFINE sent == [estimate EXCEPT !.state = "sent", !.notified = TRUE]
           holding == [estimate EXCEPT !.state = "needs_attention"]
<1>2. /\ faults' \in Nat
      /\ \/ estimate' = estimate
         \/ estimate.state = "pending_external" /\ sweep[w].at = "confirm" /\ estimate' = sent
         \/ estimate.state = "pending_external" /\ estimate' = holding
    <2>1. CASE Link!Confirms(w)
        BY <1>1, <2>1 DEF Link!Confirms, Link!Transact
    <2>2. CASE Link!Holds(w)
        BY <1>1, <2>2 DEF Link!Holds, Link!Transact
    <2>. QED  BY <2>1, <2>2
<1>3. PICK r \in SweepRuns :
          /\ sweep' = [sweep EXCEPT ![w] = r] /\ r.at \in {"idle", "hold"}
          /\ r.media = (IF r.at = "idle" THEN None ELSE sweep[w].media)
    <2>1. CASE Link!SweepEnds(w)
        BY <2>1, IdleFits DEF Link!SweepEnds
    <2>2. CASE Link!SweepGoes(w, "hold")
        <3> DEFINE r == [sweep[w] EXCEPT !.at = "hold"]
        <3>1. sweep' = [sweep EXCEPT ![w] = r] /\ r \in SweepRuns /\ r.at = "hold" /\ r.media = sweep[w].media
            BY <1>1, <2>2 DEF Link!SweepGoes, SweepRuns
        <3> HIDE DEF r
        <3>. QED  BY <3>1
    <2>. QED  BY <2>1, <2>2 DEF Link!Confirms, Link!Holds
<1>4. CASE estimate' = estimate
    <2>1. (r.media = None <=> r.at \in {"idle", "claim"}) /\ r.media \in {None, sweep[w].media}
        BY <1>1, <1>3, LinkConstants
    <2>. QED  BY <1>1, <1>2, <1>3, <1>4, <2>1, SweepDrops
<1>5. CASE estimate.state = "pending_external" /\ (estimate' = holding \/ (estimate' = sent /\ sweep[w].at = "confirm"))
    <2>1. /\ estimate' \in Documents /\ estimate'.status = estimate.status /\ estimate'.media = estimate.media
          /\ estimate'.result = estimate.result
        BY <1>1, <1>5 DEF Documents, Link!States
    <2>2. estimate'.state \in {"sent", "needs_attention"} /\ (estimate'.state = "sent" => sweep[w].at = "confirm")
        BY <1>1, <1>5 DEF Documents
    <2>3. Link!Held(estimate)
        BY <1>5 DEF Link!Held
    <2>. QED  BY <1>1, <1>2, <1>3, <2>1, <2>2, <2>3, RecordSettles
<1>. QED  BY <1>2, <1>4, <1>5

LEMMA ExpirySteps == LinkInv /\ (Link!LeaseExpires \/ Link!TokenExpires) => LinkInv'
<1> SUFFICES ASSUME LinkInv, Link!LeaseExpires \/ Link!TokenExpires PROVE LinkInv'
    OBVIOUS
<1>1. /\ estimate \in Documents /\ upload \in [Uploads -> UploadRuns] /\ sweep \in [Sweepers -> SweepRuns]
      /\ texted \in [Uploads -> Nat] /\ recovered \subseteq Uploads /\ faults \in Nat /\ DocumentFits
    BY LinkTypes DEF LinkInv
<1>2. upload' = upload /\ sweep' = sweep /\ texted' = texted /\ recovered' = recovered /\ faults' = faults
    BY DEF Link!LeaseExpires, Link!TokenExpires
<1>3. /\ estimate' \in Documents /\ estimate'.status = estimate.status /\ estimate'.media = estimate.media
      /\ estimate'.state = estimate.state /\ estimate'.notified = estimate.notified /\ estimate'.result = estimate.result
    BY <1>1 DEF Link!LeaseExpires, Link!TokenExpires, Documents
<1>4. (Link!Available(estimate') <=> Link!Available(estimate)) /\ (Link!Held(estimate') <=> Link!Held(estimate))
    BY <1>3 DEF Link!Available, Link!Held
<1>5. Link!EstimateTypeOK'
    BY <1>1, <1>2, <1>3, LinkTypesStay
<1>6. \A u \in Uploads : UploadFits(u)'
    BY <1>2, <1>3, <1>4, UploadIsLeft
<1>7. \A w \in Sweepers : SweepFits(w)'
    BY <1>2, <1>3, <1>4 DEF LinkInv, SweepFits
<1>8. SweepsApart'
    BY <1>2 DEF LinkInv, SweepsApart
<1>9. DocumentFits'
    BY <1>1, <1>2, <1>3, <1>4 DEF DocumentFits, Link!IsCurrent, Link!AnswerIsOfMedia, Link!SentWasTexted
<1>. QED  BY <1>5, <1>6, <1>7, <1>8, <1>9 DEF LinkInv

LEMMA LinkStep == LinkInv /\ Link!EstimateNext => LinkInv'
    BY UploadSteps, ClaimsStep, RecordsStep, PhotoStep, SweepSteps, NotifiesStep, ReclaimsStep, SettlesStep, ConfirmSteps, ExpirySteps
       DEF Link!EstimateNext, Link!UploadStep, Link!SweepStep

\* While a text is uncertain its document is no longer being processed, so nothing claims it, takes it over or finishes it.
LEMMA UncertainStep ==
    LinkInv /\ (Link!EstimateNext \/ UNCHANGED LinkVars) /\ Link!Held(estimate) =>
        /\ estimate'.media = estimate.media /\ estimate'.status # "processing"
        /\ estimate.state = "needs_attention" => estimate'.state = "needs_attention"
        /\ estimate'.state # None
<1> DEFINE Kept == /\ estimate'.media = estimate.media /\ estimate'.status # "processing"
                   /\ estimate.state = "needs_attention" => estimate'.state = "needs_attention"
                   /\ estimate'.state # None
<1> SUFFICES ASSUME LinkInv, Link!EstimateNext \/ UNCHANGED LinkVars, Link!Held(estimate) PROVE Kept
    OBVIOUS
<1>1. estimate \in Documents /\ estimate.status # "processing" /\ estimate.state # None
    BY LinkTypes, LinkConstants DEF LinkInv, DocumentFits, Link!Held
<1>2. estimate' = estimate => Kept
    BY <1>1
<1>3. ASSUME NEW u \in Uploads, Link!UploadStep(u) PROVE Kept
    <2>1. CASE Link!AnswersPhoto(u)
        <3>1. PICK answer \in Link!Answers :
                  Link!Transact(answer, [estimate EXCEPT !.status = "complete", !.result = u, !.notified = TRUE])
            BY <2>1 DEF Link!AnswersPhoto
        <3>2. estimate' = estimate \/ estimate' = [estimate EXCEPT !.status = "complete", !.result = u, !.notified = TRUE]
            BY <3>1 DEF Link!Transact
        <3>. QED  BY <1>1, <1>2, <3>2 DEF Documents
    <2>2. CASE Link!ClaimsUpload(u) \/ Link!Records(u)
        BY <1>1, <1>2, <2>2 DEF Link!ClaimsUpload, Link!Records, Link!Transact, Link!Claimable, Link!IsCurrent
    <2>3. CASE Link!Arrives(u) \/ Link!Analyzes(u) \/ Link!Sends(u) \/ Link!Breaks(u)
        BY <1>2, <2>3 DEF Link!Arrives, Link!Analyzes, Link!Sends, Link!Breaks
    <2>. QED  BY <1>3, <2>1, <2>2, <2>3 DEF Link!UploadStep
<1>4. ASSUME NEW w \in Sweepers, Link!SweepStep(w) PROVE Kept
    <2>1. CASE Link!Reclaims(w) \/ Link!Settles(w)
        BY <1>1, <1>2, <2>1 DEF Link!Reclaims, Link!Settles, Link!Transact, Link!Expired, Link!IsCurrent
    <2>2. CASE Link!Confirms(w) \/ Link!Holds(w)
        <3>1. \/ estimate' = estimate
              \/ estimate.state = "pending_external" /\ estimate' = [estimate EXCEPT !.state = "sent", !.notified = TRUE]
              \/ estimate.state = "pending_external" /\ estimate' = [estimate EXCEPT !.state = "needs_attention"]
            BY <2>2 DEF Link!Confirms, Link!Holds, Link!Transact
        <3>. QED  BY <1>1, <1>2, <3>1, LinkConstants DEF Documents
    <2>3. CASE Link!Finds(w) \/ Link!Reanalyzes(w) \/ Link!Notifies(w) \/ Link!Stops(w)
        BY <1>2, <2>3 DEF Link!Finds, Link!Reanalyzes, Link!Notifies, Link!Stops
    <2>. QED  BY <1>4, <2>1, <2>2, <2>3 DEF Link!SweepStep
<1>5. Link!LeaseExpires => Kept
    BY <1>1 DEF Link!LeaseExpires
<1>6. Link!TokenExpires => Kept
    BY <1>1 DEF Link!TokenExpires, Documents
<1>7. UNCHANGED LinkVars => Kept
    BY <1>2 DEF LinkVars
<1>. QED  BY <1>3, <1>4, <1>5, <1>6, <1>7 DEF Link!EstimateNext

-----------------------------------------------------------------------------
(* A visual diagnosis case.                                                 *)

AssetRecords == [role : Roles, validation : {"pending", "validated", "rejected", "unavailable"}]
Resolutions == [kind : {"question", "plate", "recapture"},
                status : {"answered", "fulfilled", "declined", "expired", "cancelled"}, issued : Times, at : Times]
Moments == Times \cup {None}

CaseTypes ==
    /\ status \in Status /\ pending \in Action \cup {None}
    /\ resolved \in Seq(Resolutions) /\ Len(resolved) <= 4 /\ assets \in Seq(AssetRecords)
    /\ counts \in [question : 0..Questions, plate : 0..1, recapture : 0..1, analysis : 0..Retries, deletion : 0..Deletions]
    /\ times \in [created : Moments, completed : Moments, asked : Moments, deleted : Moments]
    /\ receipts \in [ordinary : 0..OrdinaryCap, control : 0..ControlCap]

IsEnded == status.case \in {"closed", "cancelled", "expired"}
AsksQuestion == pending # None /\ pending.kind = "question"
Wants == pending # None /\ pending.kind # "question"
IsWanting == Wants /\ pending.status = "issued"

\* Before its consent a case has nothing; before its first upload it has no analysis; an output waits for nothing.
StageFits ==
    /\ status.case = "none" => status.deletion = "none"
    /\ status.case # "none" => times.created # None
    /\ status.case \in {"none", "created"} =>
           status.media = "none" /\ resolved = <<>> /\ status.consent \in {"not_requested", "awaiting"}
    /\ status.media \in {"none", "awaiting"} => assets = <<>> /\ status.analysis = "not_started"
    /\ ~NoOutput => Analysed
    /\ times.completed # None => IsEnded
    /\ times.asked # None <=> status.deletion # "none"
    /\ times.deleted # None => status.deletion = "verified"

\* The open action is the latest, it was counted, and its upload is where the status of the media says.
ActionFits ==
    /\ pending # None => status.analysis = "awaiting_customer" /\ \A i \in DOMAIN resolved : resolved[i].at <= pending.issued
    /\ AsksQuestion => pending.status = "issued" /\ ~InFlight(status.media)
    /\ Wants => counts[pending.kind] = 1 /\ (pending.status = "uploading" <=> status.media = "upload_pending")
    /\ Wants /\ status.media = "quarantined" => pending.status = "submitted"
    /\ InFlight(status.media) /\ pending = None =>
           status.analysis = "not_started" /\ Len(assets) = 1 /\ assets[1].role = "symptom_video"
    /\ Wants /\ pending.kind = "plate" => Evidence(assets)
    /\ \A i \in DOMAIN resolved : resolved[i].issued <= resolved[i].at

\* Only the last asset may await its verdict, each role has one asset, and each asset its action.
AssetsFit ==
    /\ \A i \in DOMAIN assets : assets[i].validation = "pending" <=> InFlight(status.media) /\ i = Len(assets)
    /\ \A i, j \in DOMAIN assets : assets[i].role = assets[j].role => i = j
    /\ \A i \in DOMAIN assets : assets[i].role # "symptom_video" => counts[assets[i].role] = 1
    /\ IsWanting => \A i \in DOMAIN assets : assets[i].role # pending.kind
    /\ Wants /\ ~IsWanting => Len(assets) > 0 /\ assets[Len(assets)].role = pending.kind
    /\ InFlight(status.media) => Len(assets) > 0
    /\ Len(assets) <= (IF status.media \in {"none", "awaiting"} THEN 0 ELSE 1) + counts.plate + counts.recapture
                      - (IF IsWanting THEN 1 ELSE 0)

\* The ordinary events that what was begun may still bring.
SetupLeft == IF status.case = "none" THEN 3
             ELSE IF status.case # "created" THEN 0
             ELSE IF status.consent = "not_requested" THEN 2 ELSE 1
UploadLeft == IF status.media = "upload_pending" THEN 2 ELSE IF status.media = "quarantined" THEN 1 ELSE 0
WorkLeft ==
    IF pending # None THEN UploadLeft + (IF IsWanting THEN 6 ELSE 3)
    ELSE IF status.media \in {"none", "awaiting"} THEN 5
    ELSE IF InFlight(status.media) THEN UploadLeft + 2
    ELSE IF status.analysis = "ready" THEN 2 ELSE IF status.analysis = "processing" THEN 1 ELSE 0
OutLeft(s, ready) == IF s = "pending" THEN 1 ELSE IF s = ready THEN 2 ELSE IF s \in {"delivered", "failed"} THEN 0 ELSE 3
Left == SetupLeft + WorkLeft + OutLeft(status.packet, "ready") + OutLeft(status.delivery, "policy")

\* What the counts have granted so far.
Granted == 14 + 7 * (counts.plate + counts.recapture) + 4 * counts.question + 3 * counts.analysis

BudgetsFit ==
    /\ receipts.ordinary + Left <= Granted
    /\ receipts.control <= counts.deletion + (IF IsEnded THEN 1 ELSE 0)
                           + (IF status.deletion = "none" THEN 0 ELSE IF status.deletion = "pending" THEN 1 ELSE 2)

CaseInv ==
    /\ CaseTypes /\ StageFits /\ ActionFits /\ AssetsFit /\ BudgetsFit
    /\ AnalysisHasEvidence /\ EndedCaseHoldsNothing /\ Chronology

LEMMA CaseConstants ==
    /\ MaxTime \in Nat /\ OrdinaryCap \in Nat /\ ControlCap \in Nat
    /\ Questions \in Nat /\ Retries \in Nat /\ Deletions \in Nat
    /\ None \notin Times /\ None \notin Action
    /\ OrdinaryCap >= 28 + 4 * Questions + 3 * Retries /\ ControlCap >= Deletions + 3
    BY TriageAssumption

LEMMA AssetsGiven ==
    ASSUME CaseInv
    PROVE  /\ Len(assets) \in Nat /\ DOMAIN assets = 1 .. Len(assets) /\ \A i \in DOMAIN assets : assets[i] \in AssetRecords
           /\ Len(resolved) \in Nat /\ DOMAIN resolved = 1 .. Len(resolved) /\ \A i \in DOMAIN resolved : resolved[i] \in Resolutions
    BY LenProperties, ElementOfSeq DEF CaseInv, CaseTypes

LEMMA CaseStarts == TriageInit => CaseInv
<1> SUFFICES ASSUME TriageInit PROVE CaseInv
    OBVIOUS
<1>1. CaseTypes
    BY CaseConstants, EmptySeq DEF TriageInit, CaseTypes, Status, Moments
<1>2. assets = <<>> /\ resolved = <<>> /\ DOMAIN assets = {} /\ DOMAIN resolved = {} /\ Len(assets) = 0
    BY DEF TriageInit
<1>3. StageFits
    BY <1>2 DEF TriageInit, StageFits, NoOutput
<1>4. ActionFits /\ AssetsFit
    BY <1>2 DEF TriageInit, ActionFits, AssetsFit, AsksQuestion, Wants, IsWanting, InFlight
<1>5. BudgetsFit
    BY DEF TriageInit, BudgetsFit, Left, SetupLeft, WorkLeft, OutLeft, Granted, IsEnded
<1>6. AnalysisHasEvidence
    BY DEF TriageInit, AnalysisHasEvidence
<1>7. EndedCaseHoldsNothing /\ Chronology
    BY <1>2 DEF TriageInit, EndedCaseHoldsNothing, Over, InFlight, Chronology
<1>. QED  BY <1>1, <1>3, <1>4, <1>5, <1>6, <1>7 DEF CaseInv

LEMMA CaseStays == CaseInv /\ UNCHANGED triage => CaseInv'
    BY DEF triage, CaseInv, CaseTypes, StageFits, ActionFits, AssetsFit, BudgetsFit, AnalysisHasEvidence, EndedCaseHoldsNothing,
           Chronology, NoOutput, Analysed, IsEnded, AsksQuestion, Wants, IsWanting, InFlight, Left, SetupLeft, UploadLeft, WorkLeft, OutLeft,
           Granted, Over, Evidence, Validated

LEMMA CaseHolds ==
    CaseInv => /\ TriageTypeOK
               /\ AnalysisHasEvidence /\ EndedCaseHoldsNothing /\ Chronology /\ DeletionFindsRoom /\ OfferIsAccepted
<1> SUFFICES ASSUME CaseInv PROVE TriageTypeOK /\ DeletionFindsRoom /\ OfferIsAccepted
    BY DEF CaseInv
<1>1. /\ counts.question \in 0..Questions /\ counts.plate \in 0..1 /\ counts.recapture \in 0..1
      /\ counts.analysis \in 0..Retries /\ counts.deletion \in 0..Deletions
      /\ receipts.ordinary \in 0..OrdinaryCap /\ receipts.control \in 0..ControlCap /\ status \in Status
    BY DEF CaseInv, CaseTypes
<1>2. TriageTypeOK
    <2>1. Len(assets) <= 4
        BY <1>1, AssetsGiven DEF CaseInv, AssetsFit
    <2>. QED  BY <1>1, <2>1, AssetsGiven DEF TriageTypeOK, CaseInv, CaseTypes, AssetRecords, Resolutions
<1>3. DeletionFindsRoom
    BY <1>1, CaseConstants DEF CaseInv, BudgetsFit, DeletionFindsRoom
<1>4. OfferIsAccepted
    <2> SUFFICES ASSUME NEW role \in ProjectionRoles, NextAction(role) # None
                 PROVE  LET next == NextAction(role) IN
                            Active /\ receipts.ordinary < OrdinaryCap /\ status.deletion = "none" /\
                            CASE next = "resolve"  -> pending # None
                              [] next = "upload"   -> pending = None /\ status.media = "awaiting"
                              [] next = "analyse"  -> pending = None /\ status.analysis = "ready"
                                                      /\ status.media = "validated" /\ Evidence(assets)
                              [] next = "deliver"  -> pending = None /\ status.packet = "ready"
        BY DEF OfferIsAccepted
    <2>1. NextAction(role) = Offer /\ Offer # None
        BY DEF NextAction
    <2>2. status.deletion = "none" /\ status.case \notin {"closed", "cancelled", "expired"}
        BY <2>1 DEF Offer
    <2>3. \/ Offer = "resolve" /\ pending # None
          \/ Offer = "upload" /\ pending = None /\ status.media = "awaiting"
          \/ Offer = "analyse" /\ pending = None /\ status.analysis = "ready"
          \/ Offer = "deliver" /\ pending = None /\ status.packet = "ready"
        BY <2>1, <2>2 DEF Offer
    <2>4. Active
        BY <1>1, <2>2, <2>3 DEF Active, CaseInv, StageFits, ActionFits, NoOutput, Analysed, Status
    <2>5. SetupLeft \in Nat /\ WorkLeft \in Nat /\ UploadLeft \in Nat
        BY DEF SetupLeft, WorkLeft, UploadLeft
    <2>6. OutLeft(status.packet, "ready") \in Nat /\ OutLeft(status.delivery, "policy") \in Nat
        BY DEF OutLeft
    <2>7. Left >= 1
        <3>1. WorkLeft >= 1 \/ OutLeft(status.packet, "ready") >= 1
            BY <2>3, <2>5 DEF WorkLeft, OutLeft, CaseInv, AnalysisHasEvidence, InFlight
        <3>. QED  BY <2>5, <2>6, <3>1 DEF Left
    <2>8. receipts.ordinary < OrdinaryCap
        BY <1>1, <2>5, <2>6, <2>7, CaseConstants DEF CaseInv, BudgetsFit, Granted, Left
    <2>9. status.analysis = "ready" => status.media = "validated" /\ Evidence(assets)
        BY DEF CaseInv, AnalysisHasEvidence
    <2>. QED  BY <2>1, <2>2, <2>3, <2>4, <2>8, <2>9
<1>. QED  BY <1>2, <1>3, <1>4

-----------------------------------------------------------------------------
LEMMA CaseGiven ==
    ASSUME CaseInv
    PROVE  /\ status \in Status /\ pending \in Action \cup {None}
           /\ counts.question \in 0..Questions /\ counts.plate \in 0..1 /\ counts.recapture \in 0..1
           /\ counts.analysis \in 0..Retries /\ counts.deletion \in 0..Deletions
           /\ receipts.ordinary \in 0..OrdinaryCap /\ receipts.control \in 0..ControlCap
           /\ SetupLeft \in Nat /\ WorkLeft \in Nat /\ UploadLeft \in Nat
           /\ OutLeft(status.packet, "ready") \in 0..3 /\ OutLeft(status.delivery, "policy") \in 0..3
    BY DEF CaseInv, CaseTypes, SetupLeft, WorkLeft, UploadLeft, OutLeft

LEMMA GrantedIs ==
    ASSUME CaseInv
    PROVE  Granted \in Nat
<1>1. \A p, r, q, a \in Nat : 14 + 7 * (p + r) + 4 * q + 3 * a \in Nat
    OBVIOUS
<1>2. counts.plate \in Nat /\ counts.recapture \in Nat /\ counts.question \in Nat /\ counts.analysis \in Nat
    BY CaseGiven
<1>. QED  BY <1>1, <1>2 DEF Granted

LEMMA OrdinaryCounts ==
    ASSUME CaseInv, Ordinary
    PROVE  /\ status.deletion = "none" /\ receipts' \in [ordinary : 0..OrdinaryCap, control : 0..ControlCap]
           /\ receipts'.ordinary = receipts.ordinary + 1 /\ receipts'.control = receipts.control
<1>1. receipts \in [ordinary : 0..OrdinaryCap, control : 0..ControlCap] /\ receipts.ordinary < OrdinaryCap
    BY DEF CaseInv, CaseTypes, Ordinary
<1>2. receipts.ordinary + 1 \in 0..OrdinaryCap
    BY <1>1, CaseConstants
<1>. QED  BY <1>1, <1>2 DEF Ordinary

LEMMA ControlCounts ==
    ASSUME CaseInv, NEW deletions, Control(deletions)
    PROVE  /\ status.deletion \in deletions /\ receipts' \in [ordinary : 0..OrdinaryCap, control : 0..ControlCap]
           /\ receipts'.control = receipts.control + 1 /\ receipts'.ordinary = receipts.ordinary
<1>1. receipts \in [ordinary : 0..OrdinaryCap, control : 0..ControlCap] /\ receipts.control < ControlCap
    BY DEF CaseInv, CaseTypes, Control
<1>2. receipts.control + 1 \in 0..ControlCap
    BY <1>1, CaseConstants
<1>. QED  BY <1>1, <1>2 DEF Control

LEMMA AssetsStay ==
    ASSUME AssetsFit, UNCHANGED <<assets, pending>>, counts'.plate = counts.plate, counts'.recapture = counts.recapture,
           InFlight(status'.media) <=> InFlight(status.media),
           status'.media \in {"none", "awaiting"} <=> status.media \in {"none", "awaiting"},
           counts \in [question : 0..Questions, plate : 0..1, recapture : 0..1, analysis : 0..Retries, deletion : 0..Deletions],
           \A i \in DOMAIN assets : assets[i].role \in Roles
    PROVE  AssetsFit'
<1>1. \A i \in DOMAIN assets : assets[i].role # "symptom_video" => counts'[assets[i].role] = counts[assets[i].role]
    BY DEF Roles
<1>. QED  BY <1>1 DEF AssetsFit, IsWanting, Wants

\* An ordinary event that moves the analysis or the output on and leaves the media as it is.
LEMMA StatusMoves ==
    ASSUME CaseInv, Active, Ordinary, UNCHANGED <<pending, resolved, assets, times>>,
           status' \in Status, status'.case = status.case, status'.consent = status.consent, status'.media = status.media,
           status'.deletion = status.deletion,
           counts' \in [question : 0..Questions, plate : 0..1, recapture : 0..1, analysis : 0..Retries, deletion : 0..Deletions],
           counts'.plate = counts.plate, counts'.recapture = counts.recapture, counts'.deletion = counts.deletion,
           \/ status'.analysis = status.analysis
           \/ pending = None /\ ~InFlight(status.media) /\ status.media \notin {"none", "awaiting"},
           ~NoOutput' => Analysed',
           status'.analysis \in {"ready", "processing", "failed_retriable"} => status.media = "validated",
           Left' + 1 + Granted <= Left + Granted', Left' \in Nat, Granted' \in Nat
    PROVE  CaseInv'
<1>1. /\ status.deletion = "none" /\ receipts' \in [ordinary : 0..OrdinaryCap, control : 0..ControlCap]
      /\ receipts'.ordinary = receipts.ordinary + 1 /\ receipts'.control = receipts.control
    BY OrdinaryCounts
<1>2. CaseTypes'
    BY <1>1 DEF CaseInv, CaseTypes
<1>3. StageFits'
    BY DEF CaseInv, StageFits, IsEnded, Active
<1>4. ActionFits'
    <2>1. Wants => counts'[pending.kind] = counts[pending.kind]
        BY DEF Wants, CaseInv, CaseTypes, Action
    <2>. QED  BY <2>1 DEF CaseInv, ActionFits, AsksQuestion, Wants, Evidence, Validated, InFlight
<1>5. AssetsFit'
    BY AssetsGiven, AssetsStay DEF CaseInv, CaseTypes, AssetRecords
<1>6. BudgetsFit'
    BY <1>1, CaseGiven DEF CaseInv, BudgetsFit, IsEnded, Left, Granted
<1>7. AnalysisHasEvidence' /\ EndedCaseHoldsNothing' /\ Chronology'
    BY DEF CaseInv, AnalysisHasEvidence, EndedCaseHoldsNothing, Chronology, Over, Evidence, Validated, InFlight
<1>. QED  BY <1>2, <1>3, <1>4, <1>5, <1>6, <1>7 DEF CaseInv

LEMMA AnalysisSteps ==
    ASSUME CaseInv, \/ AnalysisStarted \/ AnalysisRetryRecorded
                    \/ \E o \in {"complete", "abstained"} : AnalysisCompleted(o)
                    \/ \E o \in {"failed_retriable", "failed_terminal"} : AnalysisFailed(o)
    PROVE  CaseInv'
<1>1. /\ Active /\ Ordinary /\ UNCHANGED <<pending, resolved, assets, times>>
    BY DEF AnalysisStarted, AnalysisRetryRecorded, AnalysisCompleted, AnalysisFailed
<1>2. PICK next \in {"ready", "processing", "complete", "abstained", "failed_retriable", "failed_terminal"} :
          /\ status' = [status EXCEPT !.analysis = next]
          /\ \/ status.analysis = "ready" /\ next = "processing" /\ counts' = counts
             \/ status.analysis = "processing" /\ next \notin {"ready", "processing"} /\ counts' = counts
             \/ /\ status.analysis = "failed_retriable" /\ next = "ready" /\ counts.analysis < Retries
                /\ counts' = [counts EXCEPT !.analysis = @ + 1]
    BY DEF AnalysisStarted, AnalysisRetryRecorded, AnalysisCompleted, AnalysisFailed
<1>3. /\ status' \in Status /\ status'.analysis = next /\ status'.case = status.case /\ status'.consent = status.consent
      /\ status'.media = status.media /\ status'.packet = status.packet /\ status'.delivery = status.delivery
      /\ status'.deletion = status.deletion
    BY <1>2, CaseGiven DEF Status
<1>4. /\ counts' \in [question : 0..Questions, plate : 0..1, recapture : 0..1, analysis : 0..Retries, deletion : 0..Deletions]
      /\ counts'.plate = counts.plate /\ counts'.recapture = counts.recapture /\ counts'.deletion = counts.deletion
      /\ counts'.question = counts.question /\ counts'.analysis = counts.analysis + (IF next = "ready" THEN 1 ELSE 0)
    <2>1. counts \in [question : 0..Questions, plate : 0..1, recapture : 0..1, analysis : 0..Retries, deletion : 0..Deletions]
        BY DEF CaseInv, CaseTypes
    <2>2. CASE next = "ready"
        <3>1. counts.analysis + 1 \in 0..Retries /\ counts' = [counts EXCEPT !.analysis = counts.analysis + 1]
            BY <1>2, <2>1, <2>2, CaseConstants
        <3>. QED  BY <2>1, <2>2, <3>1
    <2>3. CASE next # "ready"
        BY <1>2, <2>1, <2>3
    <2>. QED  BY <2>2, <2>3
<1>5. status.analysis \in {"ready", "processing", "failed_retriable"} /\ status.media = "validated"
    BY <1>2 DEF CaseInv, AnalysisHasEvidence
<1>6. pending = None
    BY <1>5 DEF CaseInv, ActionFits
<1>7. NoOutput /\ NoOutput'
    BY <1>3, <1>5 DEF CaseInv, StageFits, Analysed, NoOutput
<1>8. /\ SetupLeft' = SetupLeft /\ OutLeft(status'.packet, "ready") = OutLeft(status.packet, "ready")
      /\ OutLeft(status'.delivery, "policy") = OutLeft(status.delivery, "policy")
    BY <1>3 DEF SetupLeft
<1>9. /\ WorkLeft = IF status.analysis = "ready" THEN 2 ELSE IF status.analysis = "processing" THEN 1 ELSE 0
      /\ WorkLeft' = IF next = "ready" THEN 2 ELSE IF next = "processing" THEN 1 ELSE 0
    BY <1>1, <1>3, <1>5, <1>6 DEF WorkLeft, InFlight
<1>10. Left' + 1 + Granted <= Left + Granted' /\ Left' \in Nat /\ Granted' \in Nat
    BY <1>2, <1>4, <1>8, <1>9, CaseGiven DEF Left, Granted
<1>. QED  BY <1>1, <1>3, <1>4, <1>5, <1>6, <1>7, <1>10, StatusMoves DEF InFlight

LEMMA OutputSteps ==
    ASSUME CaseInv, \/ PacketReady \/ PacketDeliveryStarted
                    \/ \E o \in {"delivered", "failed"} : PacketDeliveryReceipt(o)
                    \/ DeliveryPolicyReceipt \/ CustomerDeliveryStarted
                    \/ \E o \in {"delivered", "failed"} : CustomerDeliveryReceipt(o)
    PROVE  CaseInv'
<1>1. Active /\ Ordinary /\ UNCHANGED <<pending, resolved, assets, counts, times>>
    BY DEF PacketReady, PacketDeliveryStarted, PacketDeliveryReceipt, DeliveryPolicyReceipt, CustomerDeliveryStarted, CustomerDeliveryReceipt
<1>2. Analysed
    BY DEF PacketReady, PacketDeliveryStarted, PacketDeliveryReceipt, DeliveryPolicyReceipt, CustomerDeliveryStarted,
           CustomerDeliveryReceipt, CaseInv, StageFits, NoOutput
<1>3. \/ \E s \in {"ready", "pending", "delivered", "failed"} :
             status' = [status EXCEPT !.packet = s] /\ OutLeft(s, "ready") + 1 <= OutLeft(status.packet, "ready")
      \/ \E s \in {"policy", "pending", "delivered", "failed"} :
             status' = [status EXCEPT !.delivery = s] /\ OutLeft(s, "policy") + 1 <= OutLeft(status.delivery, "policy")
    BY DEF PacketReady, PacketDeliveryStarted, PacketDeliveryReceipt, DeliveryPolicyReceipt, CustomerDeliveryStarted,
           CustomerDeliveryReceipt, OutLeft
<1>4. /\ status' \in Status /\ status'.analysis = status.analysis /\ status'.case = status.case /\ status'.consent = status.consent
      /\ status'.media = status.media /\ status'.deletion = status.deletion
      /\ OutLeft(status'.packet, "ready") + OutLeft(status'.delivery, "policy") + 1
           <= OutLeft(status.packet, "ready") + OutLeft(status.delivery, "policy")
    <2>1. status \in Status /\ OutLeft(status.packet, "ready") \in Nat /\ OutLeft(status.delivery, "policy") \in Nat
        BY CaseGiven
    <2>2. CASE \E s \in {"ready", "pending", "delivered", "failed"} :
                   status' = [status EXCEPT !.packet = s] /\ OutLeft(s, "ready") + 1 <= OutLeft(status.packet, "ready")
        <3>1. PICK s \in {"ready", "pending", "delivered", "failed"} :
                   status' = [status EXCEPT !.packet = s] /\ OutLeft(s, "ready") + 1 <= OutLeft(status.packet, "ready")
            BY <2>2
        <3>2. /\ status' \in Status /\ status'.analysis = status.analysis /\ status'.case = status.case
              /\ status'.consent = status.consent /\ status'.media = status.media /\ status'.deletion = status.deletion
              /\ status'.packet = s /\ status'.delivery = status.delivery
            BY <2>1, <3>1 DEF Status
        <3>. QED  BY <2>1, <3>1, <3>2 DEF OutLeft
    <2>3. CASE \E s \in {"policy", "pending", "delivered", "failed"} :
                   status' = [status EXCEPT !.delivery = s] /\ OutLeft(s, "policy") + 1 <= OutLeft(status.delivery, "policy")
        <3>1. PICK s \in {"policy", "pending", "delivered", "failed"} :
                   status' = [status EXCEPT !.delivery = s] /\ OutLeft(s, "policy") + 1 <= OutLeft(status.delivery, "policy")
            BY <2>3
        <3>2. /\ status' \in Status /\ status'.analysis = status.analysis /\ status'.case = status.case
              /\ status'.consent = status.consent /\ status'.media = status.media /\ status'.deletion = status.deletion
              /\ status'.delivery = s /\ status'.packet = status.packet
            BY <2>1, <3>1 DEF Status
        <3>. QED  BY <2>1, <3>1, <3>2 DEF OutLeft
    <2>. QED  BY <1>3, <2>2, <2>3
<1>5. SetupLeft' = SetupLeft /\ WorkLeft' = WorkLeft /\ Granted' = Granted
    BY <1>1, <1>4 DEF SetupLeft, WorkLeft, Granted, UploadLeft, IsWanting, Wants, InFlight
<1>6. Left' + 1 + Granted <= Left + Granted' /\ Left' \in Nat /\ Granted' \in Nat
    <2>1. OutLeft(status'.packet, "ready") \in Nat /\ OutLeft(status'.delivery, "policy") \in Nat
        BY DEF OutLeft
    <2>. QED  BY <1>4, <1>5, <2>1, CaseGiven DEF Left, Granted
<1>7. Analysed' /\ (status'.analysis \in {"ready", "processing", "failed_retriable"} => status.media = "validated")
    BY <1>2, <1>4 DEF Analysed
<1>8. counts' \in [question : 0..Questions, plate : 0..1, recapture : 0..1, analysis : 0..Retries, deletion : 0..Deletions]
    BY <1>1 DEF CaseInv, CaseTypes
<1>. QED  BY <1>1, <1>4, <1>6, <1>7, <1>8, StatusMoves

\* A case that begins has nothing but its own status.
LEMMA CaseBegins ==
    ASSUME CaseInv, Ordinary, status.case \in {"none", "created"}, UNCHANGED <<pending, resolved, assets, counts>>,
           status' \in Status, status'.case \in {"created", "active"},
           status'.case = "created" => status'.media = "none" /\ status'.consent \in {"not_requested", "awaiting"},
           status'.case = "active" => status'.media = "awaiting",
           status'.analysis = status.analysis, status'.packet = status.packet, status'.delivery = status.delivery,
           status'.deletion = status.deletion,
           times' \in [created : Moments, completed : Moments, asked : Moments, deleted : Moments],
           times'.created # None, times'.completed = times.completed, times'.asked = times.asked, times'.deleted = times.deleted,
           SetupLeft' + 1 <= SetupLeft, SetupLeft' \in Nat
    PROVE  CaseInv'
<1>1. /\ status.deletion = "none" /\ receipts' \in [ordinary : 0..OrdinaryCap, control : 0..ControlCap]
      /\ receipts'.ordinary = receipts.ordinary + 1 /\ receipts'.control = receipts.control
    BY OrdinaryCounts
<1>2. CaseTypes'
    BY <1>1 DEF CaseInv, CaseTypes
<1>3. /\ status.media = "none" /\ resolved = <<>> /\ assets = <<>> /\ status.analysis = "not_started" /\ pending = None
      /\ DOMAIN assets = {} /\ DOMAIN resolved = {} /\ Len(assets) = 0 /\ ~IsEnded /\ NoOutput
    <2>1. status.media = "none" /\ resolved = <<>> /\ assets = <<>> /\ status.analysis = "not_started" /\ ~IsEnded
        BY DEF CaseInv, StageFits, IsEnded
    <2>2. pending = None /\ NoOutput
        BY <2>1 DEF CaseInv, ActionFits, StageFits, Analysed
    <2>. QED  BY <2>1, <2>2
<1>4. status'.media \in {"none", "awaiting"} /\ ~InFlight(status'.media) /\ ~IsEnded' /\ NoOutput'
    BY <1>3 DEF InFlight, IsEnded, NoOutput
<1>5. StageFits'
    BY <1>1, <1>3, <1>4 DEF CaseInv, StageFits, IsEnded
<1>6. ActionFits' /\ AssetsFit'
    BY <1>3, <1>4, CaseGiven DEF ActionFits, AssetsFit, AsksQuestion, Wants, IsWanting
<1>7. BudgetsFit'
    <2>1. WorkLeft' = 5 /\ WorkLeft = 5
        BY <1>3, <1>4 DEF WorkLeft
    <2>2. Left' + 1 <= Left /\ Left' \in Nat
        BY <2>1, CaseGiven DEF Left
    <2>3. Granted' = Granted /\ Granted \in Nat
        BY CaseGiven DEF Granted
    <2>4. Left \in Nat
        BY <2>1, CaseGiven DEF Left
    <2>5. receipts'.ordinary + Left' <= Granted'
        <3>1. receipts.ordinary + Left <= Granted
            BY DEF CaseInv, BudgetsFit
        <3>2. receipts.ordinary \in Nat
            BY CaseGiven
        <3>3. receipts'.ordinary = receipts.ordinary + 1
            BY <1>1
        <3>4. Left \in Nat /\ Left' \in Nat /\ Granted \in Nat /\ Left' + 1 <= Left
            BY <2>2, <2>3, <2>4
        <3>5. \A r, l, m, g \in Nat : r + l <= g /\ m + 1 <= l => r + 1 + m <= g
            OBVIOUS
        <3>6. receipts.ordinary + 1 + Left' <= Granted
            BY <3>1, <3>2, <3>4, <3>5
        <3>. QED  BY <2>3, <3>3, <3>6
    <2>6. receipts'.control <= counts'.deletion
        BY <1>1, <1>3, CaseGiven DEF CaseInv, BudgetsFit
    <2>. QED  BY <1>1, <1>4, <2>5, <2>6, CaseGiven DEF BudgetsFit
<1>8. AnalysisHasEvidence' /\ EndedCaseHoldsNothing' /\ Chronology'
    BY <1>1, <1>3, <1>4 DEF AnalysisHasEvidence, EndedCaseHoldsNothing, Over, Chronology, IsEnded
<1>. QED  BY <1>2, <1>5, <1>6, <1>7, <1>8 DEF CaseInv

LEMMA BeginSteps ==
    ASSUME CaseInv, CaseCreated \/ ConsentRequested \/ ConsentGranted
    PROVE  CaseInv'
<1>1. /\ Ordinary /\ status.case \in {"none", "created"} /\ UNCHANGED <<pending, resolved, assets, counts>>
    BY DEF CaseCreated, ConsentRequested, ConsentGranted
<1>2. /\ status \in Status /\ times \in [created : Moments, completed : Moments, asked : Moments, deleted : Moments]
      /\ status.media = "none" /\ status.consent \in {"not_requested", "awaiting"}
      /\ status.case # "none" => times.created # None
    BY <1>1 DEF CaseInv, CaseTypes, StageFits
<1>3. CASE CaseCreated
    <2>1. status' = [status EXCEPT !.case = "created"] /\ status.case = "none"
        BY <1>3 DEF CaseCreated
    <2>2. /\ status' \in Status /\ status'.case = "created" /\ status'.media = "none" /\ status'.consent = status.consent
          /\ status'.analysis = status.analysis /\ status'.packet = status.packet /\ status'.delivery = status.delivery
          /\ status'.deletion = status.deletion
        BY <1>2, <2>1 DEF Status
    <2>3. PICK t \in Times : times' = [times EXCEPT !.created = t]
        BY <1>3 DEF CaseCreated
    <2>4. /\ times' \in [created : Moments, completed : Moments, asked : Moments, deleted : Moments]
          /\ times'.created # None /\ times'.completed = times.completed /\ times'.asked = times.asked /\ times'.deleted = times.deleted
        BY <1>2, <2>3, CaseConstants DEF Moments
    <2>5. SetupLeft' + 1 <= SetupLeft /\ SetupLeft' \in Nat
        BY <2>1, <2>2 DEF SetupLeft
    <2>. QED  BY <1>1, <1>2, <2>2, <2>4, <2>5, CaseBegins
<1>4. CASE ConsentRequested
    <2>1. status' = [status EXCEPT !.consent = "awaiting"] /\ times' = times /\ status.case = "created" /\ status.consent = "not_requested"
        BY <1>4 DEF ConsentRequested
    <2>2. /\ status' \in Status /\ status'.case = "created" /\ status'.media = "none" /\ status'.consent = "awaiting"
          /\ status'.analysis = status.analysis /\ status'.packet = status.packet /\ status'.delivery = status.delivery
          /\ status'.deletion = status.deletion
        BY <1>2, <2>1 DEF Status
    <2>3. SetupLeft' + 1 <= SetupLeft /\ SetupLeft' \in Nat
        BY <2>1, <2>2 DEF SetupLeft
    <2>. QED  BY <1>1, <1>2, <2>1, <2>2, <2>3, CaseBegins
<1>5. CASE ConsentGranted
    <2> DEFINE a == [status EXCEPT !.case = "active"]
               b == [a EXCEPT !.consent = "granted"]
    <2>1. status' = [b EXCEPT !.media = "awaiting"] /\ times' = times /\ status.case = "created" /\ status.consent = "awaiting"
        BY <1>5 DEF ConsentGranted
    <2>2. b \in Status /\ b.case = "active" /\ \A x \in {"analysis", "packet", "delivery", "deletion"} : b[x] = status[x]
        BY <1>2 DEF Status
    <2> HIDE DEF b
    <2>3. /\ status' \in Status /\ status'.case = "active" /\ status'.media = "awaiting"
          /\ status'.analysis = status.analysis /\ status'.packet = status.packet /\ status'.delivery = status.delivery
          /\ status'.deletion = status.deletion
        BY <2>1, <2>2 DEF Status
    <2>4. SetupLeft' + 1 <= SetupLeft /\ SetupLeft' \in Nat
        BY <2>1, <2>3 DEF SetupLeft
    <2>. QED  BY <1>1, <1>2, <2>1, <2>3, <2>4, CaseBegins
<1>. QED  BY <1>3, <1>4, <1>5

-----------------------------------------------------------------------------
LEMMA EvidenceIs ==
    ASSUME NEW as \in Seq(AssetRecords)
    PROVE  Evidence(as) <=> \E i \in DOMAIN as : as[i].role \in {"symptom_video", "recapture"} /\ as[i].validation = "validated"
<1>1. ASSUME NEW i \in DOMAIN as PROVE as[i] = [role |-> as[i].role, validation |-> as[i].validation]
    <2>1. as[i] \in AssetRecords
        BY LenProperties, ElementOfSeq
    <2>. QED  BY <2>1 DEF AssetRecords
<1>2. ASSUME NEW role, Validated(role, as) PROVE \E i \in DOMAIN as : as[i].role = role /\ as[i].validation = "validated"
    <2>1. PICK i \in DOMAIN as : as[i] = [role |-> role, validation |-> "validated"]
        BY <1>2 DEF Validated
    <2>2. as[i].role = role /\ as[i].validation = "validated"
        BY <2>1
    <2>. QED  BY <2>2
<1>3. ASSUME NEW i \in DOMAIN as, as[i].validation = "validated" PROVE Validated(as[i].role, as)
    <2>1. as[i] = [role |-> as[i].role, validation |-> "validated"]
        BY <1>1, <1>3
    <2>. QED  BY <2>1 DEF Validated
<1>. QED  BY <1>2, <1>3 DEF Evidence

\* A verdict that is given up is none.
LEMMA EvidenceSame ==
    ASSUME NEW as \in Seq(AssetRecords), NEW bs \in Seq(AssetRecords), DOMAIN as = DOMAIN bs,
           \A i \in DOMAIN as : as[i].role = bs[i].role /\ (as[i].validation = "validated" <=> bs[i].validation = "validated")
    PROVE  Evidence(as) <=> Evidence(bs)
    BY EvidenceIs

LEMMA SameLength ==
    ASSUME NEW S, NEW as \in Seq(S), NEW bs \in Seq(S), DOMAIN as = DOMAIN bs
    PROVE  Len(bs) = Len(as)
<1>1. PICK m \in Nat : m = Len(as) /\ DOMAIN as = 1..m
    BY LenProperties
<1>2. PICK k \in Nat : k = Len(bs) /\ DOMAIN bs = 1..k
    BY LenProperties
<1>3. 1..m = 1..k
    BY <1>1, <1>2
<1>4. k <= m
    <2>1. CASE k = 0
        BY <2>1
    <2>2. CASE k # 0
        <3>1. k \in 1..k
            BY <2>2
        <3>. QED  BY <1>3, <3>1
    <2>. QED  BY <2>1, <2>2
<1>5. m <= k
    <2>1. CASE m = 0
        BY <2>1
    <2>2. CASE m # 0
        <3>1. m \in 1..m
            BY <2>2
        <3>. QED  BY <1>3, <3>1
    <2>. QED  BY <2>1, <2>2
<1>6. m = k
    BY <1>4, <1>5
<1>. QED  BY <1>1, <1>2, <1>6

LEMMA AbandonFits ==
    ASSUME NEW as \in Seq(AssetRecords)
    PROVE  LET bs == Abandoned(as) IN
           /\ bs \in Seq(AssetRecords) /\ Len(bs) = Len(as) /\ DOMAIN bs = DOMAIN as
           /\ \A i \in DOMAIN as : bs[i].role = as[i].role /\ bs[i].validation # "pending"
           /\ Evidence(bs) <=> Evidence(as)
<1> DEFINE bs == Abandoned(as)
           n == Len(as)
<1>1. n \in Nat /\ DOMAIN as = 1..n /\ \A i \in 1..n : as[i] \in AssetRecords
    BY LenProperties, ElementOfSeq
<1>2. ASSUME NEW i \in 1..n
      PROVE  /\ bs[i] \in AssetRecords /\ bs[i].role = as[i].role /\ bs[i].validation # "pending"
             /\ bs[i].validation = "validated" <=> as[i].validation = "validated"
    BY <1>1, <1>2 DEF Abandoned, AssetRecords
<1>3. DOMAIN bs = 1..n /\ bs \in [1..n -> AssetRecords]
    BY <1>1, <1>2 DEF Abandoned
<1>4. bs \in Seq(AssetRecords)
    BY <1>1, <1>3, SeqDef
<1> HIDE DEF bs
<1>5. Len(bs) = n
    BY <1>1, <1>3, <1>4, SameLength
<1>6. Evidence(bs) <=> Evidence(as)
    BY <1>1, <1>2, <1>3, <1>4, EvidenceSame
<1>. QED  BY <1>1, <1>2, <1>3, <1>4, <1>5, <1>6 DEF bs

\* What ends a case or asks for its deletion leaves nothing open.
LEMMA CaseFinishes ==
    ASSUME CaseInv, Control({"none"}), NEW t \in Times, \A i \in DOMAIN resolved : t >= resolved[i].at,
           UNCHANGED <<resolved, counts>>, pending' = None,
           status' \in Status, status'.media = Finalized, status'.analysis = status.analysis,
           status'.packet = status.packet, status'.delivery = status.delivery,
           assets' = IF InFlight(status.media) THEN Abandoned(assets) ELSE assets,
           \/ /\ status.case \in {"created", "active"} /\ status'.case \in {"closed", "cancelled", "expired"}
              /\ status'.deletion = status.deletion /\ times' = [times EXCEPT !.completed = t]
           \/ /\ status'.case = status.case /\ status.case # "none" /\ status'.consent = status.consent
              /\ status'.deletion = "pending" /\ times' = [times EXCEPT !.asked = t]
    PROVE  CaseInv'
<1>1. /\ status.deletion = "none" /\ receipts' \in [ordinary : 0..OrdinaryCap, control : 0..ControlCap]
      /\ receipts'.control = receipts.control + 1 /\ receipts'.ordinary = receipts.ordinary
    BY ControlCounts
<1>2. /\ assets \in Seq(AssetRecords) /\ times \in [created : Moments, completed : Moments, asked : Moments, deleted : Moments]
      /\ CaseTypes /\ StageFits /\ ActionFits /\ AssetsFit
    BY DEF CaseInv, CaseTypes
<1>3. /\ assets' \in Seq(AssetRecords) /\ Len(assets') = Len(assets) /\ DOMAIN assets' = DOMAIN assets
      /\ \A i \in DOMAIN assets : assets'[i].role = assets[i].role /\ assets'[i].validation # "pending"
      /\ Evidence(assets') <=> Evidence(assets)
    <2>1. CASE InFlight(status.media)
        BY <1>2, <2>1, AbandonFits
    <2>2. CASE ~InFlight(status.media)
        BY <1>2, <2>2 DEF AssetsFit
    <2>. QED  BY <2>1, <2>2
<1>4. /\ times' \in [created : Moments, completed : Moments, asked : Moments, deleted : Moments]
      /\ times'.created = times.created /\ times'.deleted = times.deleted
      /\ times'.completed \in {times.completed, t} /\ times'.asked \in {times.asked, t}
    BY <1>2 DEF Moments
<1>5. CaseTypes'
    BY <1>1, <1>3, <1>4 DEF CaseInv, CaseTypes
<1>6. ~InFlight(status'.media) /\ (status'.media \in {"none", "awaiting"} <=> status.media \in {"none", "awaiting"})
      /\ (status.media \in {"none", "awaiting"} => status'.media = status.media)
    BY DEF Finalized, InFlight
<1>7. StageFits'
    <2>1. status'.case \in {"none", "created"} =>
              status'.media = "none" /\ resolved' = <<>> /\ status'.consent \in {"not_requested", "awaiting"}
        BY <1>2, <1>6 DEF StageFits
    <2>2. status'.media \in {"none", "awaiting"} => assets' = <<>> /\ status'.analysis = "not_started"
        BY <1>2, <1>6 DEF StageFits, InFlight
    <2>3. ~NoOutput' => Analysed'
        BY <1>2 DEF StageFits, NoOutput, Analysed
    <2>4. /\ status'.case = "none" => status'.deletion = "none"
          /\ status'.case # "none" => times'.created # None
          /\ times'.completed # None => IsEnded'
          /\ times'.asked # None <=> status'.deletion # "none"
          /\ times'.deleted # None => status'.deletion = "verified"
        BY <1>1, <1>2, CaseConstants DEF StageFits, IsEnded
    <2>. QED  BY <2>1, <2>2, <2>3, <2>4 DEF StageFits
<1>8. ActionFits'
    BY <1>2, <1>6 DEF ActionFits, AsksQuestion, Wants
<1>9. AssetsFit'
    <2>1. \A i \in DOMAIN assets : assets[i] \in AssetRecords
        BY AssetsGiven
    <2>2. \A i \in DOMAIN assets' : assets'[i].validation = "pending" <=> InFlight(status'.media) /\ i = Len(assets')
        BY <1>3, <1>6
    <2>3. \A i, j \in DOMAIN assets' : assets'[i].role = assets'[j].role => i = j
        BY <1>2, <1>3 DEF AssetsFit
    <2>4. \A i \in DOMAIN assets' : assets'[i].role # "symptom_video" => counts'[assets'[i].role] = 1
        BY <1>2, <1>3 DEF AssetsFit
    <2>5. Len(assets') <= (IF status'.media \in {"none", "awaiting"} THEN 0 ELSE 1) + counts'.plate + counts'.recapture
        <3>1. Len(assets') = Len(assets) /\ counts' = counts /\ Len(assets) \in Nat
            BY <1>3, AssetsGiven
        <3>2. counts.plate \in 0..1 /\ counts.recapture \in 0..1
            BY CaseGiven
        <3>3. Len(assets) <= (IF status.media \in {"none", "awaiting"} THEN 0 ELSE 1) + counts.plate + counts.recapture
                             - (IF IsWanting THEN 1 ELSE 0)
            BY <1>2 DEF AssetsFit
        <3>. QED  BY <1>6, <3>1, <3>2, <3>3
    <2>6. ~Wants' /\ ~IsWanting'
        BY DEF Wants, IsWanting
    <2>. QED  BY <1>6, <2>2, <2>3, <2>4, <2>5, <2>6, CaseGiven DEF AssetsFit
<1>10. BudgetsFit'
    <2>1. WorkLeft' <= WorkLeft /\ WorkLeft' \in Nat
        <3>1. UploadLeft \in Nat /\ UploadLeft' = 0
            BY <1>6 DEF UploadLeft, InFlight
        <3>2. pending # None => status.analysis = "awaiting_customer" /\ status.media \notin {"none", "awaiting"}
            BY <1>2 DEF ActionFits, StageFits
        <3>3. pending = None /\ InFlight(status.media) => status.analysis = "not_started"
            BY <1>2 DEF ActionFits
        <3>. QED  BY <1>6, <3>1, <3>2, <3>3 DEF WorkLeft, IsWanting
    <2>2. SetupLeft' <= SetupLeft /\ SetupLeft' \in Nat
        BY DEF SetupLeft
    <2>3. Left' <= Left /\ Left' \in Nat
        BY <2>1, <2>2, CaseGiven DEF Left
    <2>4. Granted' = Granted /\ Granted \in Nat
        BY CaseGiven DEF Granted
    <2>5. receipts.ordinary + Left' <= Granted
        BY <2>3, <2>4, CaseGiven DEF CaseInv, BudgetsFit, Left
    <2>. QED  BY <1>1, <2>4, <2>5, CaseGiven DEF CaseInv, BudgetsFit, IsEnded
<1>11. AnalysisHasEvidence'
    <2>1. pending # None => status.analysis = "awaiting_customer"
        BY <1>2 DEF ActionFits
    <2>. QED  BY <1>2, <1>3, <2>1 DEF CaseInv, AnalysisHasEvidence, ActionFits, Finalized, InFlight
<1>12. EndedCaseHoldsNothing'
    BY <1>3, <1>6 DEF EndedCaseHoldsNothing
<1>13. Chronology'
    BY <1>2, <1>4, AssetsGiven, CaseConstants DEF CaseInv, ActionFits, Chronology, Resolutions
<1>. QED  BY <1>5, <1>7, <1>8, <1>9, <1>10, <1>11, <1>12, <1>13 DEF CaseInv

LEMMA FinishSteps ==
    ASSUME CaseInv, ConsentDeclined \/ ConsentWithdrawn \/ CaseEnds("cancelled") \/ CaseEnds("expired") \/ CaseClosed \/ DeletionRequested
    PROVE  CaseInv'
<1>1. status \in Status
    BY CaseGiven
<1>2. ASSUME NEW next \in Status, NEW t, Ends(next, t)
      PROVE  /\ status' \in Status /\ status'.media = Finalized /\ status'.case = next.case /\ status'.consent = next.consent
             /\ status'.analysis = next.analysis /\ status'.packet = next.packet /\ status'.delivery = next.delivery
             /\ status'.deletion = next.deletion
             /\ \A i \in DOMAIN resolved : t >= resolved[i].at
             /\ pending' = None /\ UNCHANGED <<resolved, counts>>
             /\ assets' = IF InFlight(status.media) THEN Abandoned(assets) ELSE assets
    <2> DEFINE f == Finalized
    <2>1. f \in {"none", "awaiting", "upload_pending", "quarantined", "validated", "rejected", "unavailable"}
        BY <1>1 DEF Finalized, Status
    <2> HIDE DEF f
    <2>2. status' = [next EXCEPT !.media = f]
        BY <1>2 DEF Ends, f
    <2>3. /\ status' \in Status /\ status'.media = f /\ status'.case = next.case /\ status'.consent = next.consent
          /\ status'.analysis = next.analysis /\ status'.packet = next.packet /\ status'.delivery = next.delivery
          /\ status'.deletion = next.deletion
        BY <2>1, <2>2 DEF Status
    <2>. QED  BY <1>2, <2>3 DEF Ends, AfterActivity, f
<1>3. CASE ConsentDeclined
    <2>1. PICK t \in Times : times' = [times EXCEPT !.completed = t]
        BY <1>3 DEF ConsentDeclined
    <2> DEFINE a == [status EXCEPT !.case = "cancelled"]
    <2>2. status' = [a EXCEPT !.consent = "declined"] /\ status.case = "created" /\ Control({"none"})
          /\ pending' = None /\ UNCHANGED <<resolved, assets, counts>>
        BY <1>3 DEF ConsentDeclined
    <2>3. /\ a \in Status /\ a.case = "cancelled" /\ a.media = status.media
          /\ a.analysis = status.analysis /\ a.packet = status.packet /\ a.delivery = status.delivery /\ a.deletion = status.deletion
        BY <1>1 DEF Status
    <2> HIDE DEF a
    <2>4. /\ status' \in Status /\ status'.case = "cancelled" /\ status'.media = status.media /\ status'.analysis = status.analysis
          /\ status'.packet = status.packet /\ status'.delivery = status.delivery /\ status'.deletion = status.deletion
        BY <2>2, <2>3 DEF Status
    <2>5. status.media = "none" /\ resolved = <<>>
        BY <2>2 DEF CaseInv, StageFits
    <2>6. ~InFlight(status.media) /\ Finalized = status.media /\ \A i \in DOMAIN resolved : t >= resolved[i].at
        BY <2>5 DEF InFlight, Finalized
    <2>. QED  BY <2>1, <2>2, <2>4, <2>6, CaseFinishes
<1>4. CASE ConsentWithdrawn
    <2> DEFINE a == [status EXCEPT !.case = "cancelled"]
               b == [a EXCEPT !.consent = "withdrawn"]
    <2>1. PICK t \in Times : Ends([status EXCEPT !.case = "cancelled", !.consent = "withdrawn"], t) /\ times' = [times EXCEPT !.completed = t]
        BY <1>4 DEF ConsentWithdrawn
    <2>2. Ends(b, t) /\ status.case = "active" /\ Control({"none"})
        BY <1>4, <2>1 DEF ConsentWithdrawn, Active
    <2>3. /\ a \in Status /\ a.case = "cancelled"
          /\ a.analysis = status.analysis /\ a.packet = status.packet /\ a.delivery = status.delivery /\ a.deletion = status.deletion
        BY <1>1 DEF Status
    <2> HIDE DEF a
    <2>4. /\ b \in Status /\ b.case = "cancelled"
          /\ b.analysis = status.analysis /\ b.packet = status.packet /\ b.delivery = status.delivery /\ b.deletion = status.deletion
        BY <2>3 DEF Status
    <2> HIDE DEF b
    <2>. QED  BY <1>2, <2>1, <2>2, <2>4, CaseFinishes
<1>5. ASSUME NEW outcome \in {"cancelled", "expired"}, CaseEnds(outcome) PROVE CaseInv'
    <2> DEFINE a == [status EXCEPT !.case = outcome]
    <2>1. PICK t \in Times : Ends(a, t) /\ times' = [times EXCEPT !.completed = t]
        BY <1>5 DEF CaseEnds
    <2>2. /\ a \in Status /\ a.case = outcome
          /\ a.analysis = status.analysis /\ a.packet = status.packet /\ a.delivery = status.delivery /\ a.deletion = status.deletion
        BY <1>1 DEF Status
    <2>3. status.case \in {"created", "active"} /\ Control({"none"})
        BY <1>5 DEF CaseEnds
    <2> HIDE DEF a
    <2>. QED  BY <1>2, <2>1, <2>2, <2>3, CaseFinishes
<1>6. CASE CaseClosed
    <2>1. PICK t \in Times : AfterActivity(t) /\ times' = [times EXCEPT !.completed = t]
        BY <1>6 DEF CaseClosed
    <2>2. /\ status' = [status EXCEPT !.case = "closed"] /\ status.case = "active" /\ Control({"none"}) /\ ~InFlight(status.media)
          /\ pending' = None /\ UNCHANGED <<resolved, assets, counts>>
        BY <1>6 DEF CaseClosed, Active
    <2>3. /\ status' \in Status /\ status'.case = "closed" /\ status'.media = status.media /\ status'.analysis = status.analysis
          /\ status'.packet = status.packet /\ status'.delivery = status.delivery /\ status'.deletion = status.deletion
        BY <1>1, <2>2 DEF Status
    <2>4. Finalized = status.media /\ \A i \in DOMAIN resolved : t >= resolved[i].at
        BY <2>1, <2>2 DEF Finalized, AfterActivity
    <2>. QED  BY <2>1, <2>2, <2>3, <2>4, CaseFinishes
<1>7. CASE DeletionRequested
    <2> DEFINE a == [status EXCEPT !.deletion = "pending"]
    <2>1. PICK t \in Times : Ends(a, t) /\ times' = [times EXCEPT !.asked = t]
        BY <1>7 DEF DeletionRequested
    <2>2. /\ a \in Status /\ a.case = status.case /\ a.consent = status.consent /\ a.deletion = "pending"
          /\ a.analysis = status.analysis /\ a.packet = status.packet /\ a.delivery = status.delivery
        BY <1>1 DEF Status
    <2>3. status.case # "none" /\ Control({"none"})
        BY <1>7 DEF DeletionRequested
    <2> HIDE DEF a
    <2>. QED  BY <1>2, <2>1, <2>2, <2>3, CaseFinishes
<1>. QED  BY <1>3, <1>4, <1>5, <1>6, <1>7

\* The deletion itself touches its count, its time and its own status.
LEMMA DeletionSteps ==
    ASSUME CaseInv, DeletionRetryRecorded \/ DeletionVerified
    PROVE  CaseInv'
<1>1. /\ status.deletion = "pending" /\ receipts' \in [ordinary : 0..OrdinaryCap, control : 0..ControlCap]
      /\ receipts'.control = receipts.control + 1 /\ receipts'.ordinary = receipts.ordinary
    BY ControlCounts DEF DeletionRetryRecorded, DeletionVerified
<1>2. UNCHANGED <<pending, resolved, assets>> /\ CaseTypes /\ StageFits /\ ActionFits /\ AssetsFit
    BY DEF DeletionRetryRecorded, DeletionVerified, CaseInv
<1>3. CASE DeletionRetryRecorded
    <2>1. counts' = [counts EXCEPT !.deletion = counts.deletion + 1] /\ counts.deletion < Deletions /\ UNCHANGED <<status, times>>
        BY <1>3 DEF DeletionRetryRecorded, DeletionRetryAllowed
    <2>2. counts.deletion + 1 \in 0..Deletions
        BY <2>1, CaseGiven, CaseConstants
    <2>3. /\ counts' \in [question : 0..Questions, plate : 0..1, recapture : 0..1, analysis : 0..Retries, deletion : 0..Deletions]
          /\ counts'.question = counts.question /\ counts'.plate = counts.plate /\ counts'.recapture = counts.recapture
          /\ counts'.analysis = counts.analysis /\ counts'.deletion = counts.deletion + 1
        BY <1>2, <2>1, <2>2 DEF CaseTypes
    <2>4. pending = None
        BY <1>1 DEF CaseInv, EndedCaseHoldsNothing, Over
    <2>5. CaseTypes' /\ StageFits'
        BY <1>1, <1>2, <2>1, <2>3 DEF CaseTypes, StageFits, NoOutput, Analysed, IsEnded
    <2>6. ActionFits'
        BY <1>2, <2>1, <2>4 DEF ActionFits, AsksQuestion, Wants, InFlight
    <2>7. AssetsFit'
        BY <1>2, <2>1, <2>3, AssetsGiven, AssetsStay DEF CaseTypes, AssetRecords
    <2>8. BudgetsFit'
        <3>1. Left' = Left /\ Granted' = Granted
            BY <1>2, <2>1, <2>3 DEF Left, Granted, SetupLeft, WorkLeft, UploadLeft, OutLeft, IsWanting, Wants, InFlight
        <3>2. receipts.ordinary + Left <= Granted
            BY DEF CaseInv, BudgetsFit
        <3>3. receipts'.control <= counts'.deletion + (IF IsEnded THEN 1 ELSE 0) + 1
            BY <1>1, <2>3, CaseGiven DEF CaseInv, BudgetsFit
        <3>. QED  BY <1>1, <2>1, <3>1, <3>2, <3>3 DEF BudgetsFit, IsEnded
    <2>9. AnalysisHasEvidence' /\ EndedCaseHoldsNothing' /\ Chronology'
        BY <1>2, <2>1 DEF CaseInv, AnalysisHasEvidence, EndedCaseHoldsNothing, Chronology, Over, InFlight, Evidence, Validated
    <2>. QED  BY <2>5, <2>6, <2>7, <2>8, <2>9 DEF CaseInv
<1>4. CASE DeletionVerified
    <2>1. PICK t \in Times : AfterActivity(t) /\ times' = [times EXCEPT !.deleted = t]
        BY <1>4 DEF DeletionVerified
    <2>2. status' = [status EXCEPT !.deletion = "verified"] /\ counts' = counts
        BY <1>4 DEF DeletionVerified
    <2>3. /\ status' \in Status /\ status'.deletion = "verified" /\ status'.case = status.case /\ status'.consent = status.consent
          /\ status'.media = status.media /\ status'.analysis = status.analysis /\ status'.packet = status.packet
          /\ status'.delivery = status.delivery
        BY <2>2, CaseGiven DEF Status
    <2>4. /\ times' \in [created : Moments, completed : Moments, asked : Moments, deleted : Moments]
          /\ times'.created = times.created /\ times'.completed = times.completed /\ times'.asked = times.asked /\ times'.deleted = t
        BY <1>2, <2>1 DEF CaseTypes, Moments
    <2>5. CaseTypes'
        BY <1>1, <1>2, <2>2, <2>3, <2>4 DEF CaseTypes
    <2>6. StageFits'
        BY <1>1, <1>2, <2>3, <2>4 DEF StageFits, NoOutput, Analysed, IsEnded
    <2>7. ActionFits'
        BY <1>2, <2>2, <2>3 DEF ActionFits, AsksQuestion, Wants, InFlight, Evidence, Validated
    <2>8. AssetsFit'
        BY <1>2, <2>2, <2>3, AssetsGiven, AssetsStay DEF CaseTypes, AssetRecords
    <2>9. BudgetsFit'
        <3>1. Left' = Left /\ Granted' = Granted
            BY <1>2, <2>2, <2>3 DEF Left, Granted, SetupLeft, WorkLeft, UploadLeft, OutLeft, IsWanting, Wants, InFlight
        <3>2. receipts.ordinary + Left <= Granted
            BY DEF CaseInv, BudgetsFit
        <3>3. receipts'.control <= counts.deletion + (IF IsEnded THEN 1 ELSE 0) + 2
            BY <1>1, CaseGiven DEF CaseInv, BudgetsFit
        <3>. QED  BY <1>1, <2>2, <2>3, <3>1, <3>2, <3>3 DEF BudgetsFit, IsEnded
    <2>10. AnalysisHasEvidence' /\ EndedCaseHoldsNothing'
        BY <1>1, <1>2, <2>3 DEF CaseInv, AnalysisHasEvidence, EndedCaseHoldsNothing, Over, InFlight, Evidence, Validated
    <2>11. Chronology'
        BY <1>2, <2>1, <2>4, AssetsGiven, CaseConstants DEF CaseInv, ActionFits, Chronology, AfterActivity
    <2>. QED  BY <2>5, <2>6, <2>7, <2>8, <2>9, <2>10, <2>11 DEF CaseInv
<1>. QED  BY <1>3, <1>4

-----------------------------------------------------------------------------
\* An ordinary event of an active case that leaves the output alone pays for itself.
LEMMA ActiveBudget ==
    ASSUME CaseInv, Active, Ordinary, status'.case = status.case, status'.packet = status.packet,
           status'.delivery = status.delivery, status'.deletion = status.deletion, counts'.deletion = counts.deletion,
           WorkLeft' \in Nat, Granted' \in Nat, WorkLeft' + 1 + Granted <= WorkLeft + Granted'
    PROVE  BudgetsFit'
<1>1. /\ receipts'.ordinary = receipts.ordinary + 1 /\ receipts'.control = receipts.control
    BY OrdinaryCounts
<1>2. SetupLeft = 0 /\ SetupLeft' = 0
    BY DEF SetupLeft, Active
<1>3. /\ OutLeft(status'.packet, "ready") = OutLeft(status.packet, "ready") /\ OutLeft(status'.delivery, "policy") = OutLeft(status.delivery, "policy")
      /\ OutLeft(status.packet, "ready") \in Nat /\ OutLeft(status.delivery, "policy") \in Nat
    BY CaseGiven
<1>4. PICK o \in Nat, d \in Nat : o = OutLeft(status.packet, "ready") /\ d = OutLeft(status.delivery, "policy")
    BY <1>3
<1>5. Left = WorkLeft + o + d /\ Left' = WorkLeft' + o + d
    <2>1. Left = WorkLeft + o + d
        BY <1>2, <1>4, CaseGiven DEF Left
    <2>2. Left' = WorkLeft' + o + d
        BY <1>2, <1>3, <1>4 DEF Left
    <2>. QED  BY <2>1, <2>2
<1>6. Granted \in Nat /\ WorkLeft \in Nat /\ receipts.ordinary \in Nat
    BY GrantedIs, CaseGiven
<1>7. receipts.ordinary + (WorkLeft + o + d) <= Granted
    <2>1. receipts.ordinary + Left <= Granted
        BY DEF CaseInv, BudgetsFit
    <2>. QED  BY <1>5, <2>1
<1>8. \A r, w, g, x, h \in Nat : r + (w + o + d) <= g /\ x + 1 + g <= w + h => r + 1 + (x + o + d) <= h
    OBVIOUS
<1>9. receipts'.ordinary + Left' <= Granted'
    <2>1. receipts.ordinary + 1 + (WorkLeft' + o + d) <= Granted'
        BY <1>6, <1>7, <1>8, Zenon
    <2>. QED  BY <1>1, <1>5, <2>1
<1>10. receipts.control <= counts.deletion + (IF IsEnded THEN 1 ELSE 0)
                           + (IF status.deletion = "none" THEN 0 ELSE IF status.deletion = "pending" THEN 1 ELSE 2)
    BY DEF CaseInv, BudgetsFit
<1>. QED  BY <1>1, <1>9, <1>10 DEF BudgetsFit, IsEnded

LEMMA ActiveGiven ==
    ASSUME CaseInv, Active, Ordinary
    PROVE  /\ status.case = "active" /\ status.deletion = "none" /\ ~IsEnded
           /\ times.completed = None /\ times.asked = None /\ times.deleted = None /\ times.created # None
           /\ pending # None => status.analysis = "awaiting_customer" /\ NoOutput
           /\ status.media \in {"none", "awaiting"} => assets = <<>> /\ status.analysis = "not_started"
           /\ CaseTypes /\ StageFits /\ ActionFits /\ AssetsFit /\ AnalysisHasEvidence /\ Chronology
           /\ assets \in Seq(AssetRecords) /\ resolved \in Seq(Resolutions)
<1>1. status.case = "active" /\ status.deletion = "none" /\ ~IsEnded
    BY OrdinaryCounts DEF Active, IsEnded
<1>. QED  BY <1>1 DEF CaseInv, CaseTypes, StageFits, ActionFits, NoOutput, Analysed

LEMMA IssueFits ==
    ASSUME CaseInv, Active, pending = None, NoOutput, Ordinary, NEW kind \in {"question", "plate", "recapture"},
           NEW t \in Times, Issued(kind, t), UNCHANGED <<resolved, assets, times>>,
           counts' = [counts EXCEPT ![kind] = counts[kind] + 1],
           kind = "question" => Analysed /\ counts.question < Questions,
           kind = "plate" => PlateAllowed, kind = "recapture" => RecaptureAllowed
    PROVE  CaseInv'
<1>1. /\ status.case = "active" /\ status.deletion = "none" /\ ~IsEnded /\ times.completed = None /\ times.asked = None
      /\ times.deleted = None /\ times.created # None
      /\ CaseTypes /\ StageFits /\ ActionFits /\ AssetsFit /\ AnalysisHasEvidence /\ Chronology
    BY ActiveGiven
<1>2. /\ pending' \in Action /\ pending'.kind = kind /\ pending'.status = "issued" /\ pending'.issued = t
      /\ pending' # None /\ \A i \in DOMAIN resolved : resolved[i].at <= t
    <2>1. PICK e \in {None} \cup {x \in Times : x > t} : pending' = [kind |-> kind, status |-> "issued", issued |-> t, expires |-> e]
        BY DEF Issued
    <2>2. pending' \in Action /\ pending'.kind = kind /\ pending'.status = "issued" /\ pending'.issued = t
        BY <2>1 DEF Action
    <2>3. \A i \in DOMAIN resolved : resolved[i].at \in Times /\ t >= resolved[i].at
        BY AssetsGiven DEF Issued, Resolutions
    <2>. QED  BY <2>2, <2>3, CaseConstants DEF Times
<1>3. /\ status' \in Status /\ status'.case = status.case /\ status'.consent = status.consent /\ status'.media = status.media
      /\ status'.analysis = "awaiting_customer" /\ status'.packet = status.packet /\ status'.delivery = status.delivery
      /\ status'.deletion = status.deletion
    BY CaseGiven DEF Issued, Status
<1>4. /\ counts' \in [question : 0..Questions, plate : 0..1, recapture : 0..1, analysis : 0..Retries, deletion : 0..Deletions]
      /\ counts'.question = counts.question + (IF kind = "question" THEN 1 ELSE 0)
      /\ counts'.plate = counts.plate + (IF kind = "plate" THEN 1 ELSE 0)
      /\ counts'.recapture = counts.recapture + (IF kind = "recapture" THEN 1 ELSE 0)
      /\ counts'.analysis = counts.analysis /\ counts'.deletion = counts.deletion
      /\ kind # "question" => counts[kind] = 0 /\ counts'[kind] = 1
    <2>1. counts \in [question : 0..Questions, plate : 0..1, recapture : 0..1, analysis : 0..Retries, deletion : 0..Deletions]
        BY <1>1 DEF CaseTypes
    <2>2. CASE kind = "question"
        <3>1. counts.question + 1 \in 0..Questions
            BY <2>1, <2>2, CaseConstants
        <3>2. counts' = [counts EXCEPT !.question = counts.question + 1]
            BY <2>2
        <3>. QED  BY <2>1, <2>2, <3>1, <3>2
    <2>3. CASE kind = "plate"
        <3>1. counts.plate = 0
            BY <2>1, <2>3 DEF PlateAllowed
        <3>2. counts' = [counts EXCEPT !.plate = counts.plate + 1]
            BY <2>3
        <3>3. counts.plate + 1 \in 0..1
            BY <3>1
        <3>. QED  BY <2>1, <2>3, <3>1, <3>2, <3>3
    <2>4. CASE kind = "recapture"
        <3>1. counts.recapture = 0
            BY <2>1, <2>4 DEF RecaptureAllowed
        <3>2. counts' = [counts EXCEPT !.recapture = counts.recapture + 1]
            BY <2>4
        <3>3. counts.recapture + 1 \in 0..1
            BY <3>1
        <3>. QED  BY <2>1, <2>4, <3>1, <3>2, <3>3
    <2>. QED  BY <2>2, <2>3, <2>4
<1>5. status.media \notin {"none", "awaiting"} /\ ~InFlight(status.media)
    <2>1. CASE Analysed
        BY <1>1, <2>1 DEF Analysed, StageFits, ActionFits
    <2>2. CASE ~Analysed
        BY <2>2 DEF PlateAllowed, RecaptureAllowed, InFlight
    <2>. QED  BY <2>1, <2>2
<1>6. CaseTypes'
    BY <1>1, <1>2, <1>3, <1>4, OrdinaryCounts DEF CaseTypes
<1>7. StageFits'
    BY <1>1, <1>3, <1>5 DEF StageFits, NoOutput, IsEnded
<1>8. Evidence(assets) \/ kind # "plate"
    BY DEF PlateAllowed, Evidence
<1>9. ActionFits'
    BY <1>1, <1>2, <1>3, <1>4, <1>5, <1>8 DEF ActionFits, AsksQuestion, Wants, InFlight, Evidence, Validated
<1>10. AssetsFit'
    <2>1. \A i \in DOMAIN assets : assets[i].role \in Roles /\ assets[i].role # kind
        BY <1>1, <1>4, AssetsGiven DEF AssetRecords, Roles, AssetsFit
    <2>2. \A i \in DOMAIN assets : assets[i].role # "symptom_video" => counts'[assets[i].role] = 1
        BY <1>1, <1>4, <2>1, CaseGiven DEF Roles, AssetsFit
    <2>3. (IsWanting' <=> kind # "question") /\ ~(Wants' /\ ~IsWanting') /\ ~IsWanting
        BY <1>2 DEF IsWanting, Wants
    <2>4. Len(assets) <= 1 + counts.plate + counts.recapture
        BY <1>1, <1>5, <2>3, CaseGiven, AssetsGiven DEF AssetsFit
    <2>5. Len(assets) <= 1 + counts'.plate + counts'.recapture - (IF IsWanting' THEN 1 ELSE 0)
        BY <1>4, <2>3, <2>4, CaseGiven, AssetsGiven
    <2>. QED  BY <1>1, <1>2, <1>3, <1>5, <2>1, <2>2, <2>3, <2>5 DEF AssetsFit
<1>11. BudgetsFit'
    <2>1. status.analysis \notin {"ready", "processing"}
        BY <1>1 DEF Analysed, AnalysisHasEvidence, PlateAllowed, RecaptureAllowed
    <2>2. WorkLeft = 0
        BY <1>5, <2>1 DEF WorkLeft
    <2>3. WorkLeft' = IF kind = "question" THEN 3 ELSE 6
        BY <1>2, <1>3, <1>5 DEF WorkLeft, UploadLeft, IsWanting, Wants, InFlight
    <2>4. Granted' = Granted + (IF kind = "question" THEN 4 ELSE 7) /\ Granted \in Nat
        <3>1. /\ counts.question \in Nat /\ counts.plate \in Nat /\ counts.recapture \in Nat /\ counts.analysis \in Nat
            BY CaseGiven
        <3>2. CASE kind = "question"
            <4>1. /\ counts'.question = counts.question + 1 /\ counts'.plate = counts.plate /\ counts'.recapture = counts.recapture
                  /\ counts'.analysis = counts.analysis
                BY <1>4, <3>1, <3>2
            <4>2. \A p, r, q, a \in Nat : 14 + 7 * (p + r) + 4 * (q + 1) + 3 * a = (14 + 7 * (p + r) + 4 * q + 3 * a) + 4
                OBVIOUS
            <4>3. Granted' = 14 + 7 * (counts.plate + counts.recapture) + 4 * (counts.question + 1) + 3 * counts.analysis
                BY <4>1, Zenon DEF Granted
            <4>4. Granted = 14 + 7 * (counts.plate + counts.recapture) + 4 * counts.question + 3 * counts.analysis
                BY DEF Granted
            <4>5. Granted' = Granted + 4 /\ Granted \in Nat
                BY <3>1, <4>2, <4>3, <4>4
            <4>. QED  BY <3>2, <4>5
        <3>3. CASE kind # "question"
            <4>1. /\ counts'.question = counts.question /\ counts'.plate + counts'.recapture = counts.plate + counts.recapture + 1
                  /\ counts'.analysis = counts.analysis
                BY <1>4, <3>1, <3>3
            <4>. QED  BY <3>1, <3>3, <4>1 DEF Granted
        <3>. QED  BY <3>2, <3>3
    <2>5. WorkLeft' \in Nat /\ Granted' \in Nat /\ WorkLeft' + 1 + Granted <= WorkLeft + Granted'
        BY <2>2, <2>3, <2>4
    <2>. QED  BY <1>3, <1>4, <2>5, ActiveBudget
<1>12. AnalysisHasEvidence' /\ EndedCaseHoldsNothing' /\ Chronology'
    BY <1>1, <1>3 DEF AnalysisHasEvidence, EndedCaseHoldsNothing, Over, Chronology, Evidence, Validated
<1>. QED  BY <1>6, <1>7, <1>9, <1>10, <1>11, <1>12 DEF CaseInv

LEMMA IssueSteps ==
    ASSUME CaseInv, DiagnosticQuestionIssued \/ \E kind \in {"plate", "recapture"} : MediaActionIssued(kind)
    PROVE  CaseInv'
<1>1. CASE DiagnosticQuestionIssued
    <2>1. PICK t \in Times : Issued("question", t)
        BY <1>1 DEF DiagnosticQuestionIssued
    <2>. QED  BY <1>1, <2>1, IssueFits DEF DiagnosticQuestionIssued
<1>2. ASSUME NEW kind \in {"plate", "recapture"}, MediaActionIssued(kind) PROVE CaseInv'
    <2>1. PICK t \in Times : Issued(kind, t)
        BY <1>2 DEF MediaActionIssued
    <2>. QED  BY <1>2, <2>1, IssueFits DEF MediaActionIssued
<1>. QED  BY <1>1, <1>2

-----------------------------------------------------------------------------
\* The window of the resolved actions moves on, in order.
LEMMA ResolutionFits ==
    ASSUME CaseInv, pending # None, NEW t \in Times, t >= pending.issued,
           NEW outcome \in {"answered", "fulfilled", "declined", "expired", "cancelled"}, Resolve(outcome, t)
    PROVE  /\ resolved' \in Seq(Resolutions) /\ Len(resolved') <= 4
           /\ \A i \in DOMAIN resolved' : resolved'[i].issued <= resolved'[i].at
           /\ \A i, j \in DOMAIN resolved' : i < j => resolved'[i].at <= resolved'[j].issued
<1> DEFINE r == [kind |-> pending.kind, status |-> outcome, issued |-> pending.issued, at |-> t]
           s == Append(resolved, r)
<1>1. r \in Resolutions /\ r.issued = pending.issued /\ r.at = t /\ r.issued <= r.at
    BY CaseGiven DEF Action, Resolutions
<1>2. resolved \in Seq(Resolutions)
    BY DEF CaseInv, CaseTypes
<1>3. PICK n \in Nat : n = Len(resolved) /\ DOMAIN resolved = 1..n /\ n <= 4
    BY AssetsGiven DEF CaseInv, CaseTypes
<1> HIDE DEF r
<1>4. /\ s \in Seq(Resolutions) /\ Len(s) = n + 1 /\ s[n + 1] = r /\ \A i \in 1..n : s[i] = resolved[i]
    BY <1>1, <1>2, <1>3, AppendProperties
<1> HIDE DEF s
<1>5. \A i \in 1..n+1 : s[i] \in Resolutions
    BY <1>4, ElementOfSeq
<1>6. /\ \A i \in 1..n : resolved[i].issued <= resolved[i].at /\ resolved[i].at <= pending.issued
      /\ \A i, j \in 1..n : i < j => resolved[i].at <= resolved[j].issued
    BY <1>3 DEF CaseInv, ActionFits, Chronology
<1>7. \A i \in 1..n+1 : s[i].issued <= s[i].at
    <2> SUFFICES ASSUME NEW i \in 1..n+1 PROVE s[i].issued <= s[i].at
        OBVIOUS
    <2>1. CASE i = n + 1
        BY <1>1, <1>4, <2>1
    <2>2. CASE i # n + 1
        <3>1. i \in 1..n
            BY <2>2
        <3>. QED  BY <1>4, <1>6, <3>1
    <2>. QED  BY <2>1, <2>2
<1>8. \A i, j \in 1..n+1 : i < j => s[i].at <= s[j].issued
    <2> SUFFICES ASSUME NEW i \in 1..n+1, NEW j \in 1..n+1, i < j PROVE s[i].at <= s[j].issued
        OBVIOUS
    <2>1. i \in 1..n /\ s[i] = resolved[i]
        BY <1>4
    <2>2. CASE j = n + 1
        BY <1>1, <1>4, <1>6, <2>1, <2>2
    <2>3. CASE j # n + 1
        <3>1. j \in 1..n /\ s[j] = resolved[j]
            BY <1>4, <2>3
        <3>. QED  BY <1>6, <2>1, <3>1
    <2>. QED  BY <2>2, <2>3
<1>9. PICK m \in 1..2 : m = (IF n + 1 > 4 THEN n + 1 - 3 ELSE 1)
    BY <1>3
<1>10. resolved' = SubSeq(s, m, n + 1)
    <2>1. resolved' = SubSeq(s, IF Len(s) > 4 THEN Len(s) - 3 ELSE 1, Len(s))
        BY DEF Resolve, s, r
    <2>. QED  BY <1>4, <1>9, <2>1
<1>11. /\ resolved' \in Seq(Resolutions) /\ Len(resolved') = (IF m <= n + 1 THEN n + 1 - m + 1 ELSE 0)
       /\ \A i \in 1..(n + 1 - m + 1) : resolved'[i] = s[m + i - 1]
    BY <1>5, <1>10, SubSeqProperties
<1>12. m <= n + 1 /\ n + 1 - m + 1 <= 4
    BY <1>3, <1>9
<1>13. DOMAIN resolved' = 1..(n + 1 - m + 1)
    BY <1>11, <1>12, LenProperties
<1>14. \A i \in 1..(n + 1 - m + 1) : m + i - 1 \in 1..n+1
    BY <1>12
<1>15. \A i \in DOMAIN resolved' : resolved'[i].issued <= resolved'[i].at
    BY <1>7, <1>11, <1>13, <1>14
<1>16. \A i, j \in DOMAIN resolved' : i < j => resolved'[i].at <= resolved'[j].issued
    <2> SUFFICES ASSUME NEW i \in 1..(n + 1 - m + 1), NEW j \in 1..(n + 1 - m + 1), i < j
                 PROVE  resolved'[i].at <= resolved'[j].issued
        BY <1>13
    <2>1. m + i - 1 < m + j - 1
        OBVIOUS
    <2>. QED  BY <1>8, <1>11, <1>14, <2>1
<1>. QED  BY <1>11, <1>12, <1>15, <1>16

\* What the answer to the open action makes of the case.
LEMMA AnswerFits ==
    ASSUME CaseInv, Active, Ordinary, pending # None, pending' = None, UNCHANGED <<counts, times>>,
           NEW t \in Times, t >= pending.issued,
           NEW outcome \in {"answered", "fulfilled", "declined", "expired", "cancelled"}, Resolve(outcome, t),
           assets' \in Seq(AssetRecords), Len(assets') = Len(assets), DOMAIN assets' = DOMAIN assets,
           \A i \in DOMAIN assets : assets'[i].role = assets[i].role /\ assets'[i].validation # "pending",
           Evidence(assets') <=> Evidence(assets),
           status' \in Status, status'.case = status.case, status'.consent = status.consent, status'.packet = status.packet,
           status'.delivery = status.delivery, status'.deletion = status.deletion,
           status'.media = IF InFlight(status.media) THEN IF Evidence(assets) THEN "validated" ELSE "rejected" ELSE status.media,
           status'.analysis = "abstained" \/ (status'.analysis = "ready" /\ Evidence(assets))
    PROVE  CaseInv'
<1>1. /\ status.case = "active" /\ status.deletion = "none" /\ ~IsEnded /\ times.completed = None /\ times.asked = None
      /\ times.deleted = None /\ times.created # None /\ status.analysis = "awaiting_customer" /\ NoOutput
      /\ status.media \notin {"none", "awaiting"}
      /\ CaseTypes /\ StageFits /\ ActionFits /\ AssetsFit /\ AnalysisHasEvidence /\ Chronology
    BY ActiveGiven
<1>2. /\ resolved' \in Seq(Resolutions) /\ Len(resolved') <= 4
      /\ \A i \in DOMAIN resolved' : resolved'[i].issued <= resolved'[i].at
      /\ \A i, j \in DOMAIN resolved' : i < j => resolved'[i].at <= resolved'[j].issued
    BY ResolutionFits
<1>3. CaseTypes'
    BY <1>1, <1>2, OrdinaryCounts DEF CaseTypes
<1>4. ~InFlight(status'.media) /\ status'.media \notin {"none", "awaiting"}
    BY <1>1 DEF InFlight
<1>5. StageFits'
    BY <1>1, <1>4 DEF StageFits, NoOutput, IsEnded
<1>6. ActionFits'
    BY <1>2, <1>4 DEF ActionFits, AsksQuestion, Wants
<1>7. AssetsFit'
    <2>1. \A i \in DOMAIN assets' : assets'[i].validation = "pending" <=> InFlight(status'.media) /\ i = Len(assets')
        BY <1>4
    <2>2. \A i, j \in DOMAIN assets' : assets'[i].role = assets'[j].role => i = j
        BY <1>1 DEF AssetsFit
    <2>3. \A i \in DOMAIN assets' : assets'[i].role # "symptom_video" => counts'[assets'[i].role] = 1
        BY <1>1 DEF AssetsFit
    <2>4. ~Wants' /\ ~IsWanting'
        BY DEF Wants, IsWanting
    <2>5. Len(assets') <= 1 + counts'.plate + counts'.recapture
        BY <1>1, AssetsGiven, CaseGiven DEF AssetsFit
    <2>. QED  BY <1>4, <2>1, <2>2, <2>3, <2>4, <2>5, CaseGiven DEF AssetsFit
<1>8. BudgetsFit'
    <2>1. WorkLeft' <= 2 /\ WorkLeft' \in Nat
        BY <1>4 DEF WorkLeft
    <2>2. WorkLeft >= 3
        BY CaseGiven DEF WorkLeft
    <2>3. Granted' = Granted
        BY DEF Granted
    <2>4. Granted \in Nat
        BY GrantedIs
    <2>5. WorkLeft' + 1 + Granted <= WorkLeft + Granted'
        BY <2>1, <2>2, <2>3, <2>4, CaseGiven
    <2>. QED  BY <2>1, <2>3, <2>4, <2>5, ActiveBudget
<1>9. AnalysisHasEvidence'
    <2>1. status.media \in {"upload_pending", "quarantined", "validated", "rejected", "unavailable"}
        BY <1>1, CaseGiven DEF Status
    <2>2. status'.media = "validated" => Evidence(assets')
        BY <1>1 DEF AnalysisHasEvidence, InFlight
    <2>3. status'.media \in {"rejected", "unavailable"} => ~Evidence(assets')
        BY <1>1 DEF AnalysisHasEvidence, InFlight
    <2>4. Evidence(assets) => status'.media = "validated"
        BY <1>1, <2>1 DEF AnalysisHasEvidence, InFlight
    <2>. QED  BY <2>2, <2>3, <2>4 DEF AnalysisHasEvidence
<1>10. EndedCaseHoldsNothing' /\ Chronology'
    BY <1>1, <1>2 DEF EndedCaseHoldsNothing, Over, Chronology
<1>. QED  BY <1>3, <1>5, <1>6, <1>7, <1>8, <1>9, <1>10 DEF CaseInv

LEMMA QuestionAnswered ==
    ASSUME CaseInv, NEW outcome \in {"answered", "declined", "expired", "cancelled"}, CustomerActionResolved(outcome)
    PROVE  CaseInv'
<1>1. /\ Active /\ Ordinary /\ pending # None /\ pending.kind = "question" /\ pending' = None /\ UNCHANGED <<assets, counts, times>>
    BY DEF CustomerActionResolved
<1>2. PICK t \in Times : t >= pending.issued /\ Resolve(outcome, t)
    BY DEF CustomerActionResolved
<1>3. PICK a \in {"ready", "abstained"} : status' = [status EXCEPT !.analysis = a] /\ (a = "ready" => Evidence(assets))
    BY DEF CustomerActionResolved
<1>4. /\ status' \in Status /\ status'.analysis = a /\ status'.case = status.case /\ status'.consent = status.consent
      /\ status'.media = status.media /\ status'.packet = status.packet /\ status'.delivery = status.delivery
      /\ status'.deletion = status.deletion
    BY <1>3, CaseGiven DEF Status
<1>5. ~InFlight(status.media)
    BY <1>1 DEF CaseInv, ActionFits, AsksQuestion
<1>6. \A i \in DOMAIN assets : assets[i].validation # "pending"
    BY <1>5 DEF CaseInv, AssetsFit
<1>7. assets \in Seq(AssetRecords)
    BY DEF CaseInv, CaseTypes
<1>8. /\ assets' = assets /\ assets' \in Seq(AssetRecords) /\ Len(assets') = Len(assets) /\ DOMAIN assets' = DOMAIN assets
      /\ Evidence(assets') <=> Evidence(assets)
      /\ \A i \in DOMAIN assets : assets'[i].role = assets[i].role /\ assets'[i].validation # "pending"
    BY <1>1, <1>6, <1>7
<1>9. status'.media = IF InFlight(status.media) THEN IF Evidence(assets) THEN "validated" ELSE "rejected" ELSE status.media
    BY <1>4, <1>5
<1>10. status'.analysis = "abstained" \/ (status'.analysis = "ready" /\ Evidence(assets))
    BY <1>3, <1>4
<1>. QED  BY <1>1, <1>2, <1>4, <1>8, <1>9, <1>10, AnswerFits

\* The last asset is the one that an open media action waits for.
LEMMA LastIsMeant ==
    ASSUME CaseInv, Wants, ~IsWanting, NEW i \in DOMAIN assets, assets[i].role = pending.kind
    PROVE  i = Len(assets) /\ i \in 1 .. Len(assets) /\ (assets[i].validation = "pending" <=> InFlight(status.media))
<1>1. Len(assets) > 0 /\ assets[Len(assets)].role = pending.kind /\ AssetsFit
    BY DEF CaseInv, AssetsFit
<1>2. Len(assets) \in DOMAIN assets
    BY <1>1, AssetsGiven
<1>3. i = Len(assets)
    BY <1>1, <1>2 DEF AssetsFit
<1>. QED  BY <1>1, <1>3, AssetsGiven DEF AssetsFit

\* The verdict on one asset.
LEMMA VerdictFits ==
    ASSUME NEW as \in Seq(AssetRecords), NEW i \in 1 .. Len(as), NEW v \in {"pending", "validated", "rejected", "unavailable"},
           NEW bs, bs = [as EXCEPT ![i].validation = v]
    PROVE  /\ bs \in Seq(AssetRecords) /\ Len(bs) = Len(as) /\ DOMAIN bs = DOMAIN as
           /\ bs[i].validation = v /\ \A j \in DOMAIN as : bs[j].role = as[j].role /\ (j # i => bs[j] = as[j])
<1>1. as[i] \in AssetRecords /\ DOMAIN as = 1 .. Len(as)
    BY LenProperties, ElementOfSeq
<1> DEFINE e == [as[i] EXCEPT !.validation = v]
<1>2. e \in AssetRecords /\ e.role = as[i].role /\ e.validation = v
    BY <1>1 DEF AssetRecords
<1>3. bs = [as EXCEPT ![i] = e]
    OBVIOUS
<1> HIDE DEF e
<1>4. Len(as) \in Nat /\ as \in [1 .. Len(as) -> AssetRecords]
    BY LenProperties
<1>5. /\ bs \in [1 .. Len(as) -> AssetRecords] /\ DOMAIN bs = 1 .. Len(as)
      /\ \A j \in 1 .. Len(as) : bs[j] = IF j = i THEN e ELSE as[j]
    BY <1>2, <1>3, <1>4
<1>6. bs \in Seq(AssetRecords)
    <2>1. [1 .. Len(as) -> AssetRecords] \in {[1 .. n -> AssetRecords] : n \in Nat}
        BY <1>4
    <2>2. [1 .. Len(as) -> AssetRecords] \subseteq Seq(AssetRecords)
        BY <2>1, SeqDef
    <2>. QED  BY <1>5, <2>2
<1>7. Len(bs) = Len(as)
    BY <1>1, <1>5, <1>6, SameLength
<1>. QED  BY <1>1, <1>2, <1>5, <1>6, <1>7

LEMMA MediaAnswered ==
    ASSUME CaseInv, NEW outcome \in {"fulfilled", "declined", "expired", "cancelled"}, MediaActionResolved(outcome)
    PROVE  CaseInv'
<1>1. /\ Active /\ Ordinary /\ pending # None /\ pending.kind # "question" /\ pending' = None /\ UNCHANGED <<counts, times>>
    BY DEF MediaActionResolved
<1>2. PICK t \in Times : t >= pending.issued /\ Resolve(outcome, t)
    BY DEF MediaActionResolved
<1>3. Wants /\ pending \in Action /\ pending.kind \in {"plate", "recapture"} /\ (IsWanting <=> pending.status = "issued")
    BY <1>1, CaseGiven DEF Wants, IsWanting, Action
<1>4. assets \in Seq(AssetRecords) /\ status \in Status /\ ActionFits /\ AssetsFit
    BY DEF CaseInv, CaseTypes
<1>5. /\ assets' \in Seq(AssetRecords) /\ Len(assets') = Len(assets) /\ DOMAIN assets' = DOMAIN assets
      /\ \A i \in DOMAIN assets : assets'[i].role = assets[i].role /\ assets'[i].validation # "pending"
      /\ Evidence(assets') <=> Evidence(assets)
      /\ InFlight(status.media) => outcome \in {"expired", "cancelled"}
      /\ outcome = "fulfilled" => Evidence(assets)
    <2>1. CASE pending.status = "issued"
        <3>1. outcome # "fulfilled" /\ UNCHANGED assets
            BY <2>1 DEF MediaActionResolved
        <3>2. ~InFlight(status.media)
            BY <1>3, <1>4, <2>1 DEF ActionFits, InFlight
        <3>3. \A i \in DOMAIN assets : assets[i].validation # "pending"
            BY <1>4, <3>2 DEF AssetsFit
        <3>. QED  BY <1>4, <3>1, <3>2, <3>3
    <2>2. CASE pending.status # "issued"
        <3>1. PICK i \in DOMAIN assets : Answers(i, outcome)
            BY <2>2 DEF MediaActionResolved
        <3>2. assets[i].role = pending.kind
            BY <3>1 DEF Answers
        <3>3. /\ i = Len(assets) /\ i \in 1 .. Len(assets) /\ (assets[i].validation = "pending" <=> InFlight(status.media))
            BY <1>3, <2>2, <3>2, LastIsMeant
        <3>4. CASE /\ outcome \in {"expired", "cancelled"}
                   /\ pending.status = "uploading" \/ assets[i].validation = "pending"
                   /\ assets' = [assets EXCEPT ![i].validation = "unavailable"]
            <4>1. assets[i].validation = "pending" /\ InFlight(status.media)
                BY <1>3, <1>4, <3>3, <3>4 DEF ActionFits, InFlight
            <4>2. /\ assets' \in Seq(AssetRecords) /\ Len(assets') = Len(assets) /\ DOMAIN assets' = DOMAIN assets
                  /\ assets'[i].validation = "unavailable"
                  /\ \A j \in DOMAIN assets : assets'[j].role = assets[j].role /\ (j # i => assets'[j] = assets[j])
                <5>1. assets' = [assets EXCEPT ![i].validation = "unavailable"] /\ assets \in Seq(AssetRecords) /\ i \in 1 .. Len(assets)
                    BY <1>4, <3>3, <3>4
                <5>. QED  BY <5>1, VerdictFits, SMTT(30)
            <4>3. \A j \in DOMAIN assets : assets'[j].validation # "pending"
                BY <1>4, <3>3, <4>2 DEF AssetsFit
            <4>4. \A j \in DOMAIN assets : assets[j].validation = "validated" <=> assets'[j].validation = "validated"
                BY <4>1, <4>2
            <4>5. Evidence(assets') <=> Evidence(assets)
                BY <1>4, <4>2, <4>4, EvidenceSame
            <4>. QED  BY <3>4, <4>2, <4>3, <4>5
        <3>5. CASE /\ pending.status = "submitted" /\ assets[i].validation # "pending"
                   /\ outcome = "fulfilled" => assets[i].validation = "validated"
                   /\ UNCHANGED assets
            <4>1. ~InFlight(status.media)
                BY <3>3, <3>5
            <4>2. \A j \in DOMAIN assets : assets[j].validation # "pending"
                BY <1>4, <4>1 DEF AssetsFit
            <4>3. outcome = "fulfilled" => Evidence(assets)
                <5>1. pending.kind = "plate" => Evidence(assets)
                    BY <1>3, <1>4 DEF ActionFits
                <5>2. pending.kind = "recapture" /\ outcome = "fulfilled" => Evidence(assets)
                    BY <1>4, <3>2, <3>5, EvidenceIs
                <5>. QED  BY <1>3, <5>1, <5>2
            <4>. QED  BY <1>4, <3>5, <4>1, <4>2, <4>3
        <3>. QED  BY <3>1, <3>4, <3>5 DEF Answers
    <2>. QED  BY <2>1, <2>2
<1> DEFINE m == IF InFlight(status.media) THEN IF Evidence(assets) THEN "validated" ELSE "rejected" ELSE status.media
           a == IF Evidence(assets) THEN "ready" ELSE "abstained"
           s == [status EXCEPT !.media = m]
<1>6. m \in {"none", "awaiting", "upload_pending", "quarantined", "validated", "rejected", "unavailable"}
    BY <1>4 DEF Status
<1>7. status' = [status EXCEPT !.media = IF outcome \in {"expired", "cancelled"} /\ InFlight(status.media)
                                         THEN IF Evidence(assets') THEN "validated" ELSE "rejected" ELSE status.media,
                               !.analysis = IF outcome = "fulfilled" \/ Evidence(assets') THEN "ready" ELSE "abstained"]
    BY DEF MediaActionResolved
<1>8. /\ (IF outcome \in {"expired", "cancelled"} /\ InFlight(status.media)
          THEN IF Evidence(assets') THEN "validated" ELSE "rejected" ELSE status.media) = m
      /\ (IF outcome = "fulfilled" \/ Evidence(assets') THEN "ready" ELSE "abstained") = a
    BY <1>5
<1> HIDE DEF m
<1>9. status' = [s EXCEPT !.analysis = a]
    BY <1>7, <1>8
<1>10. /\ s \in Status /\ s.media = m /\ s.case = status.case /\ s.consent = status.consent /\ s.packet = status.packet
       /\ s.delivery = status.delivery /\ s.deletion = status.deletion
    BY <1>4, <1>6 DEF Status
<1> HIDE DEF s
<1>11. /\ status' \in Status /\ status'.media = m /\ status'.analysis = a /\ status'.case = status.case /\ status'.consent = status.consent
       /\ status'.packet = status.packet /\ status'.delivery = status.delivery /\ status'.deletion = status.deletion
    BY <1>9, <1>10 DEF Status
<1>12. outcome \in {"answered", "fulfilled", "declined", "expired", "cancelled"}
    OBVIOUS
<1>. QED  BY <1>1, <1>2, <1>5, <1>11, <1>12, AnswerFits DEF m

-----------------------------------------------------------------------------
\* A new asset is the last one, and none before it has its role.
LEMMA UploadBegun ==
    ASSUME CaseInv, UploadStarted
    PROVE  CaseInv'
<1>1. /\ status.case = "active" /\ status.deletion = "none" /\ ~IsEnded /\ times.completed = None /\ times.asked = None
      /\ times.deleted = None /\ times.created # None /\ Active /\ Ordinary
      /\ pending # None => status.analysis = "awaiting_customer" /\ NoOutput
      /\ status.media \in {"none", "awaiting"} => assets = <<>> /\ status.analysis = "not_started"
      /\ CaseTypes /\ StageFits /\ ActionFits /\ AssetsFit /\ AnalysisHasEvidence /\ Chronology
      /\ assets \in Seq(AssetRecords) /\ UNCHANGED <<resolved, counts, times>>
    BY ActiveGiven DEF UploadStarted
<1>2. /\ pending = None => status.media = "awaiting"
      /\ pending # None => IsWanting /\ pending \in Action /\ pending.kind \in {"plate", "recapture"}
      /\ pending' = IF pending = None THEN None ELSE [pending EXCEPT !.status = "uploading"]
    BY CaseGiven DEF UploadStarted, IsWanting, Wants, Action
<1>3. /\ status' \in Status /\ status'.media = "upload_pending" /\ status'.case = status.case /\ status'.consent = status.consent
      /\ status'.analysis = status.analysis /\ status'.packet = status.packet /\ status'.delivery = status.delivery
      /\ status'.deletion = status.deletion
    BY CaseGiven DEF UploadStarted, Status
<1> DEFINE r == [role |-> UploadRole, validation |-> "pending"]
<1>4. r \in AssetRecords /\ r.role = UploadRole /\ r.validation = "pending" /\ UploadRole \in Roles
    BY <1>2 DEF UploadRole, AssetRecords, Roles
<1>5. PICK n \in Nat : n = Len(assets) /\ DOMAIN assets = 1..n /\ \A i \in 1..n : assets[i] \in AssetRecords
    BY <1>1, LenProperties, ElementOfSeq
<1> HIDE DEF r
<1>6. assets' = Append(assets, r)
    BY DEF UploadStarted, r
<1>7. /\ assets' \in Seq(AssetRecords) /\ Len(assets') = n + 1 /\ assets'[n + 1] = r /\ \A i \in 1..n : assets'[i] = assets[i]
    BY <1>1, <1>4, <1>5, <1>6, AppendProperties
<1>8. DOMAIN assets' = 1..n+1
    BY <1>7, LenProperties
<1>9. ~InFlight(status.media) /\ (pending # None => status.media \notin {"none", "awaiting"}) /\ (pending = None => n = 0)
    <2>1. CASE pending = None
        BY <1>1, <1>2, <1>5, <2>1, EmptySeq DEF InFlight
    <2>2. CASE pending # None
        BY <1>1, <1>2, <2>2 DEF InFlight, ActionFits, IsWanting, Wants
    <2>. QED  BY <2>1, <2>2
<1>10. \A i \in 1..n : assets[i].role # UploadRole /\ assets[i].validation # "pending"
    <2>1. \A i \in 1..n : assets[i].validation # "pending"
        BY <1>1, <1>5, <1>9 DEF AssetsFit
    <2>2. CASE pending = None
        BY <1>9, <2>1, <2>2
    <2>3. CASE pending # None
        BY <1>1, <1>2, <1>5, <2>1, <2>3 DEF AssetsFit, UploadRole
    <2>. QED  BY <2>2, <2>3
<1>11. /\ pending # None => /\ pending' \in Action /\ pending' # None /\ pending'.kind = pending.kind
                            /\ pending'.issued = pending.issued /\ pending'.status = "uploading"
       /\ pending = None => pending' = None
    BY <1>2, CaseConstants DEF Action
<1>12. CaseTypes'
    <2>1. pending' \in Action \cup {None} /\ receipts' \in [ordinary : 0..OrdinaryCap, control : 0..ControlCap]
        BY <1>11, OrdinaryCounts, <1>1
    <2>. QED  BY <1>1, <1>3, <1>7, <2>1 DEF CaseTypes
<1>13. StageFits'
    BY <1>1, <1>3 DEF StageFits, NoOutput, IsEnded, Analysed
<1>14. Evidence(assets) => Evidence(assets')
    <2>1. \A i \in DOMAIN assets : i \in DOMAIN assets' /\ assets'[i] = assets[i]
        BY <1>5, <1>7, <1>8
    <2>. QED  BY <1>1, <1>7, <2>1, EvidenceIs
<1>15. ~Evidence(assets) => ~Evidence(assets')
    <2> SUFFICES ASSUME Evidence(assets') PROVE Evidence(assets)
        OBVIOUS
    <2>1. PICK i \in 1..n+1 : assets'[i].role \in {"symptom_video", "recapture"} /\ assets'[i].validation = "validated"
        BY <1>7, <1>8, EvidenceIs
    <2>2. i # n + 1
        BY <1>4, <1>7, <2>1
    <2>3. i \in DOMAIN assets /\ assets'[i] = assets[i]
        BY <1>5, <1>7, <2>2
    <2>. QED  BY <1>1, <2>1, <2>3, EvidenceIs
<1>16. ActionFits'
    <2>1. InFlight(status'.media)
        BY <1>3 DEF InFlight
    <2>2. CASE pending = None
        <3>1. Len(assets') = 1 /\ assets'[1].role = "symptom_video" /\ status'.analysis = "not_started"
            BY <1>1, <1>2, <1>3, <1>4, <1>7, <1>9, <2>2 DEF UploadRole
        <3>. QED  BY <1>1, <1>11, <2>2, <3>1 DEF ActionFits, AsksQuestion, Wants
    <2>3. CASE pending # None
        BY <1>1, <1>2, <1>3, <1>11, <1>14, <2>3 DEF ActionFits, AsksQuestion, Wants, IsWanting
    <2>. QED  BY <2>2, <2>3
<1>17. AssetsFit'
    <2>1. InFlight(status'.media) /\ ~IsWanting' /\ (Wants' <=> pending # None)
        BY <1>2, <1>3, <1>11 DEF InFlight, IsWanting, Wants
    <2>2. \A i \in DOMAIN assets' : assets'[i].validation = "pending" <=> InFlight(status'.media) /\ i = Len(assets')
        <3> SUFFICES ASSUME NEW i \in 1..n+1 PROVE assets'[i].validation = "pending" <=> i = n + 1
            BY <1>7, <1>8, <2>1
        <3>1. CASE i = n + 1
            BY <1>4, <1>7, <3>1
        <3>2. CASE i # n + 1
            <4>1. i \in 1..n
                BY <3>2
            <4>. QED  BY <1>7, <1>10, <3>2, <4>1
        <3>. QED  BY <3>1, <3>2
    <2>3. \A i, j \in DOMAIN assets' : assets'[i].role = assets'[j].role => i = j
        <3> SUFFICES ASSUME NEW i \in 1..n+1, NEW j \in 1..n+1, assets'[i].role = assets'[j].role PROVE i = j
            BY <1>8
        <3>1. \A k \in 1..n+1 : k = n + 1 \/ k \in 1..n
            OBVIOUS
        <3>2. assets'[n + 1].role = UploadRole /\ \A k \in 1..n : assets'[k].role = assets[k].role /\ assets'[k].role # UploadRole
            BY <1>4, <1>7, <1>10
        <3>3. \A k, l \in 1..n : assets[k].role = assets[l].role => k = l
            BY <1>1, <1>5 DEF AssetsFit
        <3>. QED  BY <3>1, <3>2, <3>3
    <2>4. \A i \in DOMAIN assets' : assets'[i].role # "symptom_video" => counts'[assets'[i].role] = 1
        <3> SUFFICES ASSUME NEW i \in 1..n+1, assets'[i].role # "symptom_video" PROVE counts[assets'[i].role] = 1
            BY <1>1, <1>8
        <3>1. CASE i = n + 1
            <4>1. pending # None /\ assets'[i].role = pending.kind
                BY <1>4, <1>7, <3>1 DEF UploadRole
            <4>2. counts[pending.kind] = 1
                BY <1>1, <1>2, <4>1 DEF ActionFits, IsWanting
            <4>. QED  BY <4>1, <4>2
        <3>2. CASE i # n + 1
            <4>1. i \in 1..n /\ assets'[i] = assets[i]
                BY <1>7, <3>2
            <4>. QED  BY <1>1, <1>5, <4>1 DEF AssetsFit
        <3>. QED  BY <3>1, <3>2
    <2>5. Len(assets') <= 1 + counts'.plate + counts'.recapture
        <3>1. CASE pending = None
            BY <1>1, <1>7, <1>9, <3>1, CaseGiven
        <3>2. CASE pending # None
            <4>1. n <= 1 + counts.plate + counts.recapture - 1
                BY <1>1, <1>2, <1>5, <1>9, <3>2 DEF AssetsFit
            <4>. QED  BY <1>1, <1>7, <4>1, CaseGiven
        <3>. QED  BY <3>1, <3>2
    <2>6. Wants' => assets'[Len(assets')].role = pending'.kind
        BY <1>4, <1>7, <1>11, <2>1 DEF UploadRole
    <2>7. Len(assets') > 0
        BY <1>7
    <2>8. Len(assets') <= (IF status'.media \in {"none", "awaiting"} THEN 0 ELSE 1) + counts'.plate + counts'.recapture
                          - (IF IsWanting' THEN 1 ELSE 0)
        <3>1. counts'.plate \in Nat /\ counts'.recapture \in Nat /\ Len(assets') \in Nat
            BY <1>1, <1>7, CaseGiven
        <3>. QED  BY <1>3, <2>1, <2>5, <3>1
    <2>. QED  BY <2>1, <2>2, <2>3, <2>4, <2>6, <2>7, <2>8 DEF AssetsFit
<1>18. BudgetsFit'
    <2>1. WorkLeft' = IF pending = None THEN 4 ELSE 5
        BY <1>2, <1>3, <1>11 DEF WorkLeft, UploadLeft, IsWanting, Wants, InFlight
    <2>2. WorkLeft = IF pending = None THEN 5 ELSE 6
        BY <1>2, <1>9 DEF WorkLeft, UploadLeft, InFlight
    <2>3. Granted' = Granted
        BY <1>1 DEF Granted
    <2>4. Granted \in Nat
        BY GrantedIs
    <2>5. WorkLeft' + 1 + Granted <= WorkLeft + Granted' /\ WorkLeft' \in Nat
        BY <2>1, <2>2, <2>3, <2>4
    <2>. QED  BY <1>1, <1>3, <2>3, <2>4, <2>5, ActiveBudget
<1>19. AnalysisHasEvidence'
    BY <1>1, <1>2, <1>3 DEF AnalysisHasEvidence
<1>20. EndedCaseHoldsNothing' /\ Chronology'
    BY <1>1, <1>3 DEF EndedCaseHoldsNothing, Over, Chronology
<1>. QED  BY <1>12, <1>13, <1>16, <1>17, <1>18, <1>19, <1>20 DEF CaseInv

LEMMA UploadEnded ==
    ASSUME CaseInv, NEW i \in DOMAIN assets, UploadFinalized(i)
    PROVE  CaseInv'
<1>1. /\ status.case = "active" /\ status.deletion = "none" /\ ~IsEnded /\ times.completed = None /\ times.asked = None
      /\ times.deleted = None /\ times.created # None /\ Active /\ Ordinary
      /\ CaseTypes /\ StageFits /\ ActionFits /\ AssetsFit /\ AnalysisHasEvidence /\ Chronology
      /\ UNCHANGED <<resolved, assets, counts, times>>
    BY ActiveGiven DEF UploadFinalized
<1>2. /\ status.media = "upload_pending" /\ (pending # None => pending.status = "uploading" /\ pending \in Action)
      /\ pending' = IF pending = None THEN None ELSE [pending EXCEPT !.status = "submitted"]
    BY CaseGiven DEF UploadFinalized
<1>3. /\ status' \in Status /\ status'.media = "quarantined" /\ status'.case = status.case /\ status'.consent = status.consent
      /\ status'.analysis = status.analysis /\ status'.packet = status.packet /\ status'.delivery = status.delivery
      /\ status'.deletion = status.deletion
    BY CaseGiven DEF UploadFinalized, Status
<1>4. /\ pending # None => /\ pending' \in Action /\ pending' # None /\ pending'.kind = pending.kind
                           /\ pending'.issued = pending.issued /\ pending'.status = "submitted"
      /\ pending = None => pending' = None
    BY <1>2, CaseConstants DEF Action
<1>5. /\ InFlight(status.media) /\ InFlight(status'.media) /\ ~IsWanting /\ ~IsWanting' /\ (Wants' <=> Wants) /\ (Wants <=> pending # None)
      /\ ~AsksQuestion /\ ~AsksQuestion'
    BY <1>1, <1>2, <1>3, <1>4 DEF InFlight, IsWanting, Wants, AsksQuestion, ActionFits
<1>6. CaseTypes'
    <2>1. pending' \in Action \cup {None} /\ receipts' \in [ordinary : 0..OrdinaryCap, control : 0..ControlCap]
        BY <1>1, <1>4, OrdinaryCounts
    <2>. QED  BY <1>1, <1>3, <2>1 DEF CaseTypes
<1>7. StageFits'
    BY <1>1, <1>3 DEF StageFits, NoOutput, IsEnded, Analysed
<1>8. ActionFits'
    BY <1>1, <1>2, <1>3, <1>4, <1>5 DEF ActionFits, Evidence, Validated
<1>9. AssetsFit'
    <2>1. status.media \notin {"none", "awaiting"} /\ status'.media \notin {"none", "awaiting"}
        BY <1>2, <1>3
    <2>. QED  BY <1>1, <1>4, <1>5, <2>1 DEF AssetsFit
<1>10. BudgetsFit'
    <2>1. WorkLeft = IF pending = None THEN 4 ELSE 5
        BY <1>2, <1>5 DEF WorkLeft, UploadLeft
    <2>2. WorkLeft' = IF pending = None THEN 3 ELSE 4
        BY <1>3, <1>4, <1>5 DEF WorkLeft, UploadLeft
    <2>3. Granted' = Granted
        BY <1>1 DEF Granted
    <2>4. Granted \in Nat
        BY GrantedIs
    <2>5. WorkLeft' + 1 + Granted <= WorkLeft + Granted' /\ WorkLeft' \in Nat
        BY <2>1, <2>2, <2>3, <2>4
    <2>. QED  BY <1>1, <1>3, <2>3, <2>4, <2>5, ActiveBudget
<1>11. AnalysisHasEvidence'
    BY <1>1, <1>2, <1>3 DEF AnalysisHasEvidence
<1>12. EndedCaseHoldsNothing' /\ Chronology'
    BY <1>1, <1>3 DEF EndedCaseHoldsNothing, Over, Chronology
<1>. QED  BY <1>6, <1>7, <1>8, <1>9, <1>10, <1>11, <1>12 DEF CaseInv

\* The verdict on the last asset settles the status of the media as the evidence has it.
LEMMA VerdictGiven ==
    ASSUME CaseInv, NEW i \in DOMAIN assets, NEW v \in {"validated", "rejected", "unavailable"}, MediaValidated(i, v)
    PROVE  CaseInv'
<1>1. /\ status.case = "active" /\ status.deletion = "none" /\ ~IsEnded /\ times.completed = None /\ times.asked = None
      /\ times.deleted = None /\ times.created # None /\ Active /\ Ordinary /\ status \in Status
      /\ pending # None => status.analysis = "awaiting_customer" /\ NoOutput
      /\ CaseTypes /\ StageFits /\ ActionFits /\ AssetsFit /\ AnalysisHasEvidence /\ Chronology
      /\ assets \in Seq(AssetRecords) /\ UNCHANGED <<pending, resolved, counts, times>>
    BY ActiveGiven, CaseGiven DEF MediaValidated
<1>2. status.media = "quarantined" /\ assets[i].validation = "pending" /\ assets' = [assets EXCEPT ![i].validation = v]
    BY DEF MediaValidated
<1>3. InFlight(status.media) /\ i = Len(assets) /\ i \in 1 .. Len(assets)
    BY <1>1, <1>2, AssetsGiven DEF AssetsFit, InFlight
<1>4. /\ assets' \in Seq(AssetRecords) /\ Len(assets') = Len(assets) /\ DOMAIN assets' = DOMAIN assets /\ assets'[i].validation = v
      /\ \A j \in DOMAIN assets : assets'[j].role = assets[j].role /\ (j # i => assets'[j] = assets[j])
    <2>1. assets[i] \in AssetRecords /\ assets \in [1 .. Len(assets) -> AssetRecords] /\ Len(assets) \in Nat
        BY <1>1, <1>3, AssetsGiven, LenProperties
    <2> DEFINE e == [assets[i] EXCEPT !.validation = v]
    <2>2. e \in AssetRecords /\ e.role = assets[i].role /\ e.validation = v
        BY <2>1 DEF AssetRecords
    <2>3. assets' = [assets EXCEPT ![i] = e]
        BY <1>2
    <2> HIDE DEF e
    <2>4. /\ assets' \in [1 .. Len(assets) -> AssetRecords] /\ DOMAIN assets' = DOMAIN assets
          /\ \A j \in DOMAIN assets : assets'[j] = IF j = i THEN e ELSE assets[j]
        BY <1>3, <2>1, <2>2, <2>3
    <2>5. assets' \in Seq(AssetRecords)
        <3>1. PICK n \in Nat : assets' \in [1 .. n -> AssetRecords]
            BY <2>1, <2>4
        <3>. QED  BY <3>1, SeqDef
    <2>6. Len(assets') = Len(assets)
        BY <1>1, <2>4, <2>5, SameLength
    <2>. QED  BY <1>3, <2>2, <2>4, <2>5, <2>6
<1>5. \A j \in DOMAIN assets : assets'[j].validation # "pending"
    BY <1>1, <1>3, <1>4 DEF AssetsFit
<1>6. /\ pending # None => Wants /\ ~IsWanting /\ pending.status = "submitted" /\ pending.kind \in {"plate", "recapture"} /\ assets[i].role = pending.kind
      /\ pending = None => assets[i].role = "symptom_video" /\ Len(assets) = 1
    <2>1. CASE pending = None
        BY <1>1, <1>3, <2>1 DEF ActionFits
    <2>2. CASE pending # None
        <3>1. Wants /\ pending.kind \in {"plate", "recapture"} /\ pending.status = "submitted" /\ ~IsWanting
            BY <1>1, <1>2, <1>3, <2>2, CaseGiven DEF ActionFits, AsksQuestion, Wants, IsWanting, Action
        <3>. QED  BY <1>1, <1>3, <2>2, <3>1 DEF AssetsFit
    <2>. QED  BY <2>1, <2>2
<1>7. Evidence(assets) => Evidence(assets')
    <2> SUFFICES ASSUME Evidence(assets) PROVE Evidence(assets')
        OBVIOUS
    <2>1. PICK j \in DOMAIN assets : assets[j].role \in {"symptom_video", "recapture"} /\ assets[j].validation = "validated"
        BY <1>1, EvidenceIs
    <2>2. j # i /\ assets'[j] = assets[j] /\ j \in DOMAIN assets'
        BY <1>2, <1>4, <2>1
    <2>. QED  BY <1>4, <2>1, <2>2, EvidenceIs
<1>8. v = "validated" /\ assets[i].role \in {"symptom_video", "recapture"} => Evidence(assets')
    BY <1>4, EvidenceIs
<1>9. Evidence(assets') => Evidence(assets) \/ v = "validated"
    <2> SUFFICES ASSUME Evidence(assets'), v # "validated" PROVE Evidence(assets)
        OBVIOUS
    <2>1. PICK j \in DOMAIN assets' : assets'[j].role \in {"symptom_video", "recapture"} /\ assets'[j].validation = "validated"
        BY <1>4, EvidenceIs
    <2>2. j # i /\ assets'[j] = assets[j] /\ j \in DOMAIN assets
        BY <1>4, <2>1
    <2>. QED  BY <1>1, <2>1, <2>2, EvidenceIs
<1> DEFINE m == MediaAfter(assets[i], v, assets')
           a == IF pending # None THEN "awaiting_customer" ELSE IF v = "validated" THEN "ready" ELSE "abstained"
           s == [status EXCEPT !.media = m]
<1>10. /\ m \in {"validated", "rejected", "unavailable"}
       /\ m = "validated" <=> Evidence(assets')
       /\ pending = None => m = v
    <2>1. CASE pending = None
        <3>1. m = v
            BY <1>6, <2>1 DEF MediaAfter
        <3>2. ~Evidence(assets)
            <4> SUFFICES ASSUME Evidence(assets) PROVE FALSE
                OBVIOUS
            <4>1. PICK j \in DOMAIN assets : assets[j].validation = "validated"
                BY <1>1, EvidenceIs
            <4>2. j = i
                BY <1>3, <1>6, <2>1, AssetsGiven
            <4>. QED  BY <1>2, <4>1, <4>2
        <3>. QED  BY <1>6, <1>8, <1>9, <2>1, <3>1, <3>2
    <2>2. CASE pending # None
        <3>1. assets[i].role # "symptom_video"
            BY <1>6, <2>2
        <3>2. m = IF Evidence(assets') THEN "validated" ELSE v
            BY <3>1 DEF MediaAfter
        <3>3. v = "validated" => Evidence(assets')
            <4>1. pending.kind = "plate" => Evidence(assets)
                BY <1>1, <1>6, <2>2 DEF ActionFits
            <4>. QED  BY <1>6, <1>7, <1>8, <2>2, <4>1
        <3>. QED  BY <2>2, <3>2, <3>3
    <2>. QED  BY <2>1, <2>2
<1>11. status' = [s EXCEPT !.analysis = a]
    BY DEF MediaValidated
<1> HIDE DEF m
<1>12. /\ s \in Status /\ s.media = m /\ s.case = status.case /\ s.consent = status.consent /\ s.packet = status.packet
       /\ s.delivery = status.delivery /\ s.deletion = status.deletion
    BY <1>1, <1>10 DEF Status
<1> HIDE DEF s
<1>13. /\ status' \in Status /\ status'.media = m /\ status'.analysis = a /\ status'.case = status.case /\ status'.consent = status.consent
       /\ status'.packet = status.packet /\ status'.delivery = status.delivery /\ status'.deletion = status.deletion
    BY <1>11, <1>12 DEF Status
<1>14. /\ ~InFlight(status'.media) /\ status'.media \notin {"none", "awaiting"} /\ (Wants' <=> Wants) /\ ~IsWanting' /\ ~AsksQuestion' /\ ~IsWanting
       /\ pending \in Action \cup {None}
    BY <1>1, <1>6, <1>10, <1>13, CaseGiven DEF InFlight, Wants, IsWanting, AsksQuestion
<1>15. CaseTypes'
    <2>1. receipts' \in [ordinary : 0..OrdinaryCap, control : 0..ControlCap]
        BY <1>1, OrdinaryCounts
    <2>. QED  BY <1>1, <1>4, <1>13, <2>1, AssetsGiven DEF CaseTypes
<1>16. StageFits'
    <2>1. ~NoOutput' => Analysed'
        <3>1. CASE pending # None
            BY <1>1, <1>13, <3>1 DEF NoOutput
        <3>2. CASE pending = None
            BY <1>1, <1>3, <1>13, <3>2 DEF StageFits, ActionFits, NoOutput, Analysed
        <3>. QED  BY <3>1, <3>2
    <2>. QED  BY <1>1, <1>13, <1>14, <2>1 DEF StageFits, IsEnded
<1>17. ActionFits'
    <2>1. pending' # None => status'.analysis = "awaiting_customer" /\ \A j \in DOMAIN resolved' : resolved'[j].at <= pending'.issued
        BY <1>1, <1>13 DEF ActionFits
    <2>2. Wants' => counts'[pending'.kind] = 1 /\ (pending'.status = "uploading" <=> status'.media = "upload_pending")
        BY <1>1, <1>6, <1>10, <1>13, <1>14 DEF ActionFits, Wants
    <2>3. Wants' /\ pending'.kind = "plate" => Evidence(assets')
        BY <1>1, <1>7, <1>14 DEF ActionFits
    <2>4. \A j \in DOMAIN resolved' : resolved'[j].issued <= resolved'[j].at
        BY <1>1 DEF ActionFits
    <2>. QED  BY <1>10, <1>13, <1>14, <2>1, <2>2, <2>3, <2>4 DEF ActionFits
<1>18. AssetsFit'
    <2>1. \A j \in DOMAIN assets' : assets'[j].validation = "pending" <=> InFlight(status'.media) /\ j = Len(assets')
        BY <1>4, <1>5, <1>14
    <2>2. \A j, k \in DOMAIN assets' : assets'[j].role = assets'[k].role => j = k
        BY <1>1, <1>4 DEF AssetsFit
    <2>3. \A j \in DOMAIN assets' : assets'[j].role # "symptom_video" => counts'[assets'[j].role] = 1
        BY <1>1, <1>4 DEF AssetsFit
    <2>4. Wants' => Len(assets') > 0 /\ assets'[Len(assets')].role = pending'.kind
        BY <1>1, <1>3, <1>4, <1>14 DEF AssetsFit
    <2>5. Len(assets') <= (IF status'.media \in {"none", "awaiting"} THEN 0 ELSE 1) + counts'.plate + counts'.recapture
                          - (IF IsWanting' THEN 1 ELSE 0)
        <3>1. Len(assets) <= 1 + counts.plate + counts.recapture - 0
            BY <1>1, <1>2, <1>14 DEF AssetsFit
        <3>. QED  BY <1>1, <1>4, <1>14, <3>1, CaseGiven
    <2>. QED  BY <1>14, <2>1, <2>2, <2>3, <2>4, <2>5 DEF AssetsFit
<1>19. BudgetsFit'
    <2>1. WorkLeft = IF pending = None THEN 3 ELSE 4
        BY <1>2, <1>3, <1>14 DEF WorkLeft, UploadLeft
    <2>2. WorkLeft' = IF pending # None THEN 3 ELSE IF v = "validated" THEN 2 ELSE 0
        <3>1. UploadLeft' = 0
            BY <1>14 DEF UploadLeft, InFlight
        <3>. QED  BY <1>1, <1>13, <1>14, <3>1 DEF WorkLeft
    <2>3. Granted' = Granted
        BY <1>1 DEF Granted
    <2>4. Granted \in Nat
        BY GrantedIs
    <2>5. WorkLeft' \in Nat
        BY <1>14 DEF WorkLeft, UploadLeft, InFlight
    <2>6. WorkLeft' + 1 + Granted <= WorkLeft + Granted'
        BY <2>1, <2>2, <2>3, <2>4
    <2>. QED  BY <1>1, <1>13, <2>3, <2>4, <2>5, <2>6, ActiveBudget
<1>20. AnalysisHasEvidence'
    BY <1>10, <1>13 DEF AnalysisHasEvidence
<1>21. EndedCaseHoldsNothing' /\ Chronology'
    BY <1>1, <1>13 DEF EndedCaseHoldsNothing, Over, Chronology
<1>. QED  BY <1>15, <1>16, <1>17, <1>18, <1>19, <1>20, <1>21 DEF CaseInv

LEMMA CaseStep == CaseInv /\ TriageNext => CaseInv'
    BY BeginSteps, FinishSteps, DeletionSteps, IssueSteps, QuestionAnswered, MediaAnswered, UploadBegun, UploadEnded, VerdictGiven,
       AnalysisSteps, OutputSteps DEF TriageNext

-----------------------------------------------------------------------------
\* An output that was prepared has an analysis that is over: every event that would follow it is refused.
LEMMA OutputStays == CaseInv /\ (TriageNext \/ UNCHANGED triage) /\ ~NoOutput => UNCHANGED <<status.analysis, resolved, assets>>
<1> SUFFICES ASSUME CaseInv, TriageNext, ~NoOutput PROVE UNCHANGED <<status.analysis, resolved, assets>>
    BY DEF triage
<1>1. status \in Status /\ status.analysis \in {"complete", "abstained"}
    BY CaseGiven DEF CaseInv, StageFits, Analysed
<1>2. pending = None /\ ~InFlight(status.media) /\ status.media \notin {"none", "awaiting"} /\ status.case \notin {"none", "created"}
    BY <1>1 DEF CaseInv, StageFits, ActionFits
<1>3. ~(CaseCreated \/ ConsentRequested \/ ConsentGranted \/ ConsentDeclined)
    BY <1>2 DEF CaseCreated, ConsentRequested, ConsentGranted, ConsentDeclined
<1>4. ~DiagnosticQuestionIssued /\ \A k : ~MediaActionIssued(k) /\ ~CustomerActionResolved(k) /\ ~MediaActionResolved(k)
    BY <1>2 DEF DiagnosticQuestionIssued, MediaActionIssued, CustomerActionResolved, MediaActionResolved
<1>5. ~UploadStarted /\ \A i, v : ~UploadFinalized(i) /\ ~MediaValidated(i, v)
    BY <1>2 DEF UploadStarted, UploadFinalized, MediaValidated, InFlight
<1>6. ~AnalysisStarted /\ ~AnalysisRetryRecorded /\ \A o : ~AnalysisCompleted(o) /\ ~AnalysisFailed(o)
    BY <1>1 DEF AnalysisStarted, AnalysisRetryRecorded, AnalysisCompleted, AnalysisFailed
<1>7. ASSUME NEW next \in Status, NEW t, Ends(next, t), next.analysis = status.analysis PROVE UNCHANGED <<status.analysis, resolved, assets>>
    <2>1. status' = [next EXCEPT !.media = Finalized] /\ UNCHANGED <<resolved, assets>>
        BY <1>2, <1>7 DEF Ends
    <2>. QED  BY <1>7, <2>1 DEF Status
<1>8. CASE ConsentWithdrawn
    <2> DEFINE a == [status EXCEPT !.case = "cancelled"]
               b == [a EXCEPT !.consent = "withdrawn"]
    <2>1. PICK t : Ends([status EXCEPT !.case = "cancelled", !.consent = "withdrawn"], t)
        BY <1>8 DEF ConsentWithdrawn
    <2>2. Ends(b, t)
        BY <2>1
    <2>3. a \in Status /\ a.analysis = status.analysis
        BY <1>1 DEF Status
    <2> HIDE DEF a
    <2>4. b \in Status /\ b.analysis = status.analysis
        BY <2>3 DEF Status
    <2>. QED  BY <1>7, <2>2, <2>4
<1>9. ASSUME NEW outcome \in {"cancelled", "expired"}, CaseEnds(outcome) PROVE UNCHANGED <<status.analysis, resolved, assets>>
    <2> DEFINE a == [status EXCEPT !.case = outcome]
    <2>1. PICK t : Ends(a, t)
        BY <1>9 DEF CaseEnds
    <2>2. a \in Status /\ a.analysis = status.analysis
        BY <1>1 DEF Status
    <2>. QED  BY <1>7, <2>1, <2>2
<1>10. CASE DeletionRequested
    <2> DEFINE a == [status EXCEPT !.deletion = "pending"]
    <2>1. PICK t : Ends(a, t)
        BY <1>10 DEF DeletionRequested
    <2>2. a \in Status /\ a.analysis = status.analysis
        BY <1>1 DEF Status
    <2>. QED  BY <1>7, <2>1, <2>2
<1>11. CASE CaseClosed \/ DeletionVerified \/ DeletionRetryRecorded
    BY <1>1, <1>11 DEF CaseClosed, DeletionVerified, DeletionRetryRecorded, Status
<1>12. CASE PacketReady \/ PacketDeliveryStarted \/ DeliveryPolicyReceipt \/ CustomerDeliveryStarted
    BY <1>1, <1>12 DEF PacketReady, PacketDeliveryStarted, DeliveryPolicyReceipt, CustomerDeliveryStarted, Status
<1>13. ASSUME NEW o, PacketDeliveryReceipt(o) \/ CustomerDeliveryReceipt(o) PROVE UNCHANGED <<status.analysis, resolved, assets>>
    BY <1>1, <1>13 DEF PacketDeliveryReceipt, CustomerDeliveryReceipt, Status
<1>. QED  BY <1>3, <1>4, <1>5, <1>6, <1>8, <1>9, <1>10, <1>11, <1>12, <1>13 DEF TriageNext

-----------------------------------------------------------------------------
(* The bakeoff: what a call takes back stays taken back.                    *)

CycleFields == {"phase", "rev", "question", "turn", "id", "delivered", "used", "clock", "timer", "resolved", "issued", "made"}
ActFields == {"kind", "turn", "slot", "owns", "of", "authorized", "cancelled", "audio", "playout", "ordinal", "line"}
AdapterFields == {"permitted", "confirmed", "retired", "revoked", "open", "closed", "revision"}

\* What a step of the silence cycle leaves alone: its end, and which questions and intents it knows.
CycleGoesOn(c, d) ==
    /\ DOMAIN d = CycleFields
    /\ c.phase = "terminated" => d.phase = "terminated"
    /\ \A i \in d.issued : i \in c.issued \/ i.kind # "none"
    /\ d.question \in {c.question, 0}

LEMMA CycleTwice ==
    ASSUME NEW c, NEW d, NEW e, CycleGoesOn(c, d), CycleGoesOn(d, e)
    PROVE  CycleGoesOn(c, e)
    BY DEF CycleGoesOn

LEMMA CycleIssues ==
    ASSUME NEW c, DOMAIN c = CycleFields, c.phase # "terminated", NEW k \in SilenceActs \cup {"end"}
    PROVE  CycleGoesOn(c, Issue(c, k))
    BY DEF CycleGoesOn, Issue, CycleFields, SilenceActs

LEMMA CycleArms == ASSUME NEW c, DOMAIN c = CycleFields, c.phase # "terminated", NEW p PROVE CycleGoesOn(c, Arm(c, p))
    BY DEF CycleGoesOn, Arm, CycleFields

LEMMA CycleClears ==
    ASSUME NEW c, DOMAIN c = CycleFields
    PROVE  /\ DOMAIN Cleared(c) = CycleFields /\ Cleared(c).phase = c.phase
           /\ Cleared(c).issued = {} /\ Cleared(c).question = 0 /\ Cleared(c).clock = "none" /\ Cleared(c).resolved = {}
    BY DEF Cleared, NewCycle, CycleFields

LEMMA CycleSealed == ASSUME NEW c, DOMAIN c = CycleFields PROVE CycleGoesOn(c, Sealed(c)) /\ Sealed(c).phase = "terminated"
<1>1. CASE c.phase = "terminated"
    BY <1>1 DEF Sealed, CycleGoesOn
<1>2. CASE c.phase # "terminated"
    <2> DEFINE d == Cleared(c)
    <2>1. Sealed(c) = [d EXCEPT !.phase = "terminated", !.rev = @ + 1]
        BY <1>2 DEF Sealed
    <2>2. DOMAIN d = CycleFields /\ d.issued = {} /\ d.question = 0
        BY CycleClears
    <2> HIDE DEF d
    <2>. QED  BY <2>1, <2>2 DEF CycleGoesOn, CycleFields
<1>. QED  BY <1>1, <1>2

LEMMA CycleIdles ==
    ASSUME NEW c, DOMAIN c = CycleFields, c.phase # "terminated" PROVE CycleGoesOn(c, BackToIdle(c))
<1> DEFINE d == Cleared(c)
<1>1. BackToIdle(c) = [d EXCEPT !.phase = "idle", !.rev = @ + 1]
    BY DEF BackToIdle
<1>2. DOMAIN d = CycleFields /\ d.issued = {} /\ d.question = 0
    BY CycleClears
<1> HIDE DEF d
<1>. QED  BY <1>1, <1>2 DEF CycleGoesOn, CycleFields

LEMMA CycleCancelled ==
    ASSUME NEW c, DOMAIN c = CycleFields PROVE CycleGoesOn(c, Cancelled(c)) /\ CycleGoesOn(c, CancelCall(c))
    BY CycleIdles DEF Cancelled, CancelCall, CancelRefused, CycleGoesOn

LEMMA CycleRolledBack ==
    ASSUME NEW c, DOMAIN c = CycleFields, NEW a PROVE CycleGoesOn(c, QuestionRolledBack(c, a))
<1> DEFINE d == Cleared(c)
<1>1. QuestionRolledBack(c, a) = c \/ (c.phase = "question_reserved" /\ QuestionRolledBack(c, a) = [d EXCEPT !.phase = "idle"])
    BY DEF QuestionRolledBack
<1>2. DOMAIN d = CycleFields /\ d.issued = {} /\ d.question = 0
    BY CycleClears
<1> HIDE DEF d
<1>. QED  BY <1>1, <1>2 DEF CycleGoesOn, CycleFields

LEMMA CycleTransported ==
    ASSUME NEW c, DOMAIN c = CycleFields, NEW a PROVE CycleGoesOn(c, TransportResolved(c, a))
    BY DEF TransportResolved, CycleGoesOn, CycleFields

LEMMA AwaitsGoesOn == ASSUME NEW c, NEW a, Awaits(c, a) PROVE c.phase # "terminated"
    BY DEF Awaits, PendingPhase, SilenceActs

LEMMA CycleHeard ==
    ASSUME NEW c, DOMAIN c = CycleFields, c.phase # "terminated", NEW a PROVE CycleGoesOn(c, Heard(c, a))
<1> DEFINE made == c.made \ {a}
           ids == [k \in SilenceActs |-> IF c.id[k] = a THEN 0 ELSE c.id[k]]
           d == [c EXCEPT !.made = made]
           done == [d EXCEPT !.id = ids]
           e == [done EXCEPT !.delivered = TRUE]
           f == [done EXCEPT !.phase = "terminal_eligible"]
<1>1. CycleGoesOn(c, d) /\ d.phase = c.phase
    BY DEF CycleGoesOn, CycleFields
<1> HIDE DEF d
<1>2. CycleGoesOn(c, done) /\ done.phase = c.phase
    BY <1>1 DEF CycleGoesOn, CycleFields
<1>3. done = [c EXCEPT !.made = @ \ {a}, !.id = [k \in SilenceActs |-> IF @[k] = a THEN 0 ELSE @[k]]]
    BY DEF d
<1>4. Heard(c, a) \in {Arm(c, "first_armed"), Arm(e, "second_armed"), Arm(done, "more_armed"), Issue(f, "end"), BackToIdle(c)}
    BY <1>3 DEF Heard
<1> HIDE DEF done
<1>5. CycleGoesOn(c, e) /\ e.phase = c.phase /\ CycleGoesOn(c, f) /\ f.phase = "terminal_eligible"
    BY <1>2 DEF CycleGoesOn, CycleFields
<1> HIDE DEF e, f
<1>6. CycleGoesOn(c, Arm(c, "first_armed")) /\ CycleGoesOn(c, BackToIdle(c))
    BY CycleArms, CycleIdles
<1>7. CycleGoesOn(c, Arm(e, "second_armed")) /\ CycleGoesOn(c, Arm(done, "more_armed"))
    BY <1>2, <1>5, CycleArms, CycleTwice DEF CycleGoesOn
<1>8. CycleGoesOn(c, Issue(f, "end"))
    <2>1. CycleGoesOn(f, Issue(f, "end"))
        BY <1>5, CycleIssues DEF CycleGoesOn
    <2>. QED  BY <1>5, <2>1, CycleTwice
<1>. QED  BY <1>4, <1>6, <1>7, <1>8

LEMMA CyclePlayed ==
    ASSUME NEW c, DOMAIN c = CycleFields, NEW a
    PROVE  CycleGoesOn(c, PlaybackObserved(c, a)) /\ CycleGoesOn(c, PlaybackInferred(c, a))
<1> DEFINE d == [c EXCEPT !.resolved = @ \ {a}]
<1>1. CycleGoesOn(c, d) /\ d.phase = c.phase
    BY DEF CycleGoesOn, CycleFields
<1>2. CycleGoesOn(c, c)
    BY DEF CycleGoesOn
<1>3. PlaybackObserved(c, a) = c \/ (Awaits(c, a) /\ PlaybackObserved(c, a) = Heard(c, a))
    BY DEF PlaybackObserved
<1>4. PlaybackInferred(c, a) = c \/ (Awaits(c, a) /\ PlaybackInferred(c, a) = Heard(d, a))
    BY DEF PlaybackInferred
<1> HIDE DEF d
<1>5. Awaits(c, a) => CycleGoesOn(c, Heard(c, a)) /\ CycleGoesOn(d, Heard(d, a))
    BY <1>1, AwaitsGoesOn, CycleHeard DEF CycleGoesOn
<1>. QED  BY <1>1, <1>2, <1>3, <1>4, <1>5, CycleTwice

LEMMA CycleTimed ==
    ASSUME NEW c, DOMAIN c = CycleFields, NEW r PROVE CycleGoesOn(c, TimerFired(c, r))
<1>1. c.phase = "terminated" => TimerFired(c, r) = c
    BY DEF TimerFired, ArmedPhases
<1>2. TimerFired(c, r) \in {c, AsksPresence(c), AsksClosing(c)}
    BY DEF TimerFired
<1>3. c.phase # "terminated" => CycleGoesOn(c, AsksPresence(c))
    <2> DEFINE d == [c EXCEPT !.question = 0, !.resolved = @ \ {c.question}, !.rev = @ + 1, !.clock = "none",
                              !.timer = NoTimer, !.phase = "presence_pending", !.id.presence = Asked]
    <2>1. d.phase = "presence_pending" /\ d.question = 0 /\ d.issued = c.issued /\ DOMAIN d = CycleFields
        BY DEF CycleFields
    <2>2. c.phase # "terminated" => CycleGoesOn(c, d)
        BY <2>1 DEF CycleGoesOn
    <2>3. AsksPresence(c) = Issue(d, "presence")
        BY DEF AsksPresence
    <2> HIDE DEF d
    <2>. QED  BY <2>1, <2>2, <2>3, CycleIssues, CycleTwice DEF SilenceActs
<1>4. c.phase # "terminated" => CycleGoesOn(c, AsksClosing(c))
    <2> DEFINE d == [c EXCEPT !.clock = "none", !.timer = NoTimer, !.phase = "closing_pending", !.id.closing = Asked]
    <2>1. d.phase = "closing_pending" /\ d.question = c.question /\ d.issued = c.issued /\ DOMAIN d = CycleFields
        BY DEF CycleFields
    <2>2. c.phase # "terminated" => CycleGoesOn(c, d)
        BY <2>1 DEF CycleGoesOn
    <2>3. AsksClosing(c) = Issue(d, "closing")
        BY DEF AsksClosing
    <2> HIDE DEF d
    <2>. QED  BY <2>1, <2>2, <2>3, CycleIssues, CycleTwice DEF SilenceActs
<1>. QED  BY <1>1, <1>2, <1>3, <1>4 DEF CycleGoesOn

LEMMA CycleAsked ==
    ASSUME NEW c, DOMAIN c = CycleFields, NEW t
    PROVE  CycleGoesOn(c, MoreTimeAsked(c)) /\ CycleGoesOn(c, FallbackAsked(c, t))
<1> DEFINE d == [c EXCEPT !.clock = "none", !.timer = NoTimer, !.used = TRUE, !.phase = "more_pending", !.id.more = Asked]
           idle == BackToIdle(c)
           e == [idle EXCEPT !.turn = t, !.phase = "fallback_pending", !.id.fallback = Asked]
<1>1. MoreTimeAsked(c) = c \/ (c.phase # "terminated" /\ MoreTimeAsked(c) = Issue(d, "more"))
    BY DEF MoreTimeAsked, ArmedPhases
<1>2. FallbackAsked(c, t) = c \/ (c.phase # "terminated" /\ FallbackAsked(c, t) = Issue(e, "fallback"))
    BY DEF FallbackAsked, ArmedPhases
<1>3. d.phase = "more_pending" /\ d.question = c.question /\ d.issued = c.issued /\ DOMAIN d = CycleFields
    BY DEF CycleFields
<1>4. c.phase # "terminated" => CycleGoesOn(c, Issue(d, "more"))
    <2>1. c.phase # "terminated" => CycleGoesOn(c, d)
        BY <1>3 DEF CycleGoesOn
    <2> HIDE DEF d
    <2>. QED  BY <1>3, <2>1, CycleIssues, CycleTwice DEF SilenceActs
<1>5. c.phase # "terminated" => CycleGoesOn(c, idle)
    BY CycleIdles
<1>6. c.phase # "terminated" => CycleGoesOn(c, Issue(e, "fallback"))
    <2> HIDE DEF idle
    <2>1. c.phase # "terminated" =>
              e.phase = "fallback_pending" /\ e.question = idle.question /\ e.issued = idle.issued /\ DOMAIN e = CycleFields
        BY <1>5 DEF CycleGoesOn, CycleFields
    <2>2. c.phase # "terminated" => CycleGoesOn(c, e)
        BY <1>5, <2>1 DEF CycleGoesOn
    <2> HIDE DEF e
    <2>. QED  BY <2>1, <2>2, CycleIssues, CycleTwice DEF SilenceActs
<1>. QED  BY <1>1, <1>2, <1>4, <1>6 DEF CycleGoesOn

LEMMA CycleConsumed ==
    ASSUME NEW c, DOMAIN c = CycleFields, NEW i, NEW a
    PROVE  CycleGoesOn(c, IntentConsumed(c, i, a)) /\ CycleGoesOn(c, Terminalized(c, i))
<1>1. CycleGoesOn(c, c) /\ CycleGoesOn(c, Sealed(c))
    BY CycleSealed DEF CycleGoesOn
<1>2. IntentFits(c, i) => c.phase # "terminated"
    BY DEF IntentFits, PendingPhase, SilenceActs
<1>3. IntentFits(c, i) => CycleGoesOn(c, [c EXCEPT !.issued = @ \ {i}, !.id[i.kind] = a, !.made = @ \cup {a}])
    BY <1>2 DEF CycleGoesOn, CycleFields
<1>. QED  BY <1>1, <1>3 DEF IntentConsumed, Terminalized

-----------------------------------------------------------------------------
Shaped(v) ==
    /\ DOMAIN v = {"acts", "batches", "slots", "adapter", "calls"}
    /\ DOMAIN v.adapter = AdapterFields /\ DOMAIN v.calls = CycleFields
    /\ DOMAIN v.acts = Acts /\ \A a \in Acts : DOMAIN v.acts[a] = ActFields

\* A closed adapter admits nobody, one that admits nobody holds no permit, and a silenced act holds none; an act
\* that was authorized, silenced or permitted was reserved, and acts are reserved in their order.
SpeechFits(v) ==
    /\ v.adapter.closed => ~v.adapter.open
    /\ ~v.adapter.open => v.adapter.permitted = {}
    /\ \A a \in Acts : v.acts[a].cancelled => a \notin v.adapter.permitted
    /\ \A a \in Acts : v.acts[a].authorized \/ v.acts[a].cancelled \/ a \in v.adapter.permitted \/ a = v.calls.question
                           => v.acts[a].kind # "none"
    /\ \A a \in Acts : v.acts[a].ordinal \in 0..(MaxActs + 1)
    /\ \A i \in v.calls.issued : i.kind # "none"
    /\ \E n \in 0..MaxActs : Allocated(v) = 1..n

SpeechInv(v) == Shaped(v) /\ SpeechFits(v)

\* What was taken back between v and w is taken back, as AuthorityIsNotRegained says it of a step.
Takes(v, w) ==
    /\ v.adapter.closed => w.adapter.closed
    /\ v.calls.phase = "terminated" => w.calls.phase = "terminated"
    /\ \A a \in Acts : v.acts[a].cancelled =>
           w.acts[a].cancelled /\ w.acts[a].audio = v.acts[a].audio /\ w.acts[a].playout = v.acts[a].playout
           /\ w.acts[a].ordinal = v.acts[a].ordinal

\* w is a later speech of the same acts, and permits no other.
Later(v, w) ==
    SpeechInv(w) /\ Takes(v, w) /\ Allocated(w) = Allocated(v) /\ w.adapter.permitted \subseteq v.adapter.permitted

LEMMA TakesTwice == ASSUME NEW v, NEW w, NEW x, Takes(v, w), Takes(w, x) PROVE Takes(v, x)
    BY DEF Takes
LEMMA LaterTwice == ASSUME NEW v, NEW w, NEW x, Later(v, w), Later(w, x) PROVE Later(v, x)
    BY TakesTwice DEF Later
LEMMA LaterSame == ASSUME NEW v, SpeechInv(v) PROVE Later(v, v)
    BY DEF Later, Takes

LEMMA ActsMove ==
    ASSUME NEW v, SpeechInv(v), NEW w, Shaped(w), w.adapter = v.adapter, w.calls = v.calls,
           \A a \in Acts : /\ w.acts[a].kind = v.acts[a].kind
                           /\ w.acts[a].ordinal \in 0..(MaxActs + 1)
                           /\ w.acts[a].cancelled => v.acts[a].kind # "none" /\ a \notin v.adapter.permitted
                           /\ w.acts[a].authorized => v.acts[a].kind # "none"
                           /\ v.acts[a].cancelled => /\ w.acts[a].cancelled /\ w.acts[a].audio = v.acts[a].audio
                                                     /\ w.acts[a].playout = v.acts[a].playout
                                                     /\ w.acts[a].ordinal = v.acts[a].ordinal
    PROVE  Later(v, w)
<1>1. Allocated(w) = Allocated(v)
    BY DEF Allocated
<1>. QED  BY <1>1 DEF Later, Takes, SpeechInv, SpeechFits

LEMMA AdapterMoves ==
    ASSUME NEW v, SpeechInv(v), NEW w, Shaped(w), w.acts = v.acts, w.calls = v.calls,
           v.adapter.closed => w.adapter.closed, w.adapter.closed => ~w.adapter.open,
           ~w.adapter.open => w.adapter.permitted = {}, w.adapter.permitted \subseteq v.adapter.permitted
    PROVE  Later(v, w)
<1>1. Allocated(w) = Allocated(v)
    BY DEF Allocated
<1>. QED  BY <1>1 DEF Later, Takes, SpeechInv, SpeechFits

LEMMA CallsMove ==
    ASSUME NEW v, SpeechInv(v), NEW d, CycleGoesOn(v.calls, d)
    PROVE  Later(v, [v EXCEPT !.calls = d]) /\ [v EXCEPT !.calls = d].calls = d
                /\ [v EXCEPT !.calls = d].acts = v.acts /\ [v EXCEPT !.calls = d].adapter = v.adapter
<1> DEFINE w == [v EXCEPT !.calls = d]
<1>1. Shaped(w) /\ w.acts = v.acts /\ w.adapter = v.adapter /\ w.calls = d
    BY DEF SpeechInv, Shaped, CycleGoesOn
<1> HIDE DEF w
<1>2. Allocated(w) = Allocated(v)
    BY <1>1 DEF Allocated
<1>3. 0 \notin Acts
    BY DEF Acts
<1>4. SpeechFits(w)
    BY <1>1, <1>2, <1>3 DEF SpeechInv, SpeechFits, CycleGoesOn
<1>5. Later(v, w)
    BY <1>1, <1>2, <1>4 DEF Later, Takes, SpeechInv, CycleGoesOn
<1>. QED  BY <1>1, <1>5 DEF w

LEMMA LaterSilenced ==
    ASSUME NEW v, SpeechInv(v), NEW gone, \A a \in gone \cap Acts : v.acts[a].kind # "none" /\ a \notin v.adapter.permitted
    PROVE  Later(v, Silence(v, gone)) /\ Silence(v, gone).adapter = v.adapter /\ Silence(v, gone).calls = v.calls
<1> DEFINE w == Silence(v, gone)
<1>1. /\ Shaped(w) /\ w.adapter = v.adapter /\ w.calls = v.calls
      /\ \A a \in Acts : w.acts[a] = IF a \in gone THEN [v.acts[a] EXCEPT !.cancelled = TRUE] ELSE v.acts[a]
    BY DEF Silence, SpeechInv, Shaped
<1> HIDE DEF w
<1>2. ASSUME NEW a \in Acts
      PROVE  /\ w.acts[a].kind = v.acts[a].kind /\ w.acts[a].ordinal = v.acts[a].ordinal
             /\ w.acts[a].audio = v.acts[a].audio /\ w.acts[a].playout = v.acts[a].playout
             /\ w.acts[a].authorized = v.acts[a].authorized
             /\ w.acts[a].cancelled = IF a \in gone THEN TRUE ELSE v.acts[a].cancelled
    BY <1>1 DEF SpeechInv, Shaped, ActFields
<1>3. Later(v, w)
    BY <1>1, <1>2, ActsMove DEF SpeechInv, SpeechFits
<1>. QED  BY <1>1, <1>3 DEF w

\* An act whose line moves is the same act.
LEMMA LaterLines ==
    ASSUME NEW v, SpeechInv(v), NEW w, Shaped(w), w.adapter = v.adapter, w.calls = v.calls, NEW e,
           \A a \in Acts : w.acts[a] \in {v.acts[a], [v.acts[a] EXCEPT !.line = e]}
    PROVE  Later(v, w) /\ \A a \in Acts : w.acts[a].cancelled = v.acts[a].cancelled /\ w.acts[a].ordinal = v.acts[a].ordinal
                                          /\ w.acts[a].kind = v.acts[a].kind /\ w.acts[a].authorized = v.acts[a].authorized
<1>1. ASSUME NEW a \in Acts
      PROVE  /\ w.acts[a].kind = v.acts[a].kind /\ w.acts[a].ordinal = v.acts[a].ordinal
             /\ w.acts[a].audio = v.acts[a].audio /\ w.acts[a].playout = v.acts[a].playout
             /\ w.acts[a].authorized = v.acts[a].authorized /\ w.acts[a].cancelled = v.acts[a].cancelled
    BY DEF SpeechInv, Shaped, ActFields
<1>2. Later(v, w)
    BY <1>1, ActsMove DEF SpeechInv, SpeechFits
<1>. QED  BY <1>1, <1>2

LEMMA IngestIs ==
    ASSUME NEW v, Shaped(v), NEW b, NEW e
    PROVE  /\ Shaped(Ingest(v, b, e)) /\ Ingest(v, b, e).adapter = v.adapter /\ Ingest(v, b, e).calls = v.calls
           /\ \A a \in Acts : Ingest(v, b, e).acts[a] \in {v.acts[a], [v.acts[a] EXCEPT !.line = e]}
    BY DEF Shaped, Ingest

LEMMA LaterIngested ==
    ASSUME NEW v, SpeechInv(v), NEW b, NEW e
    PROVE  /\ Later(v, Ingest(v, b, e))
           /\ Ingest(v, b, e).adapter = v.adapter /\ Ingest(v, b, e).calls = v.calls
    BY IngestIs, LaterLines DEF SpeechInv

LEMMA LaterIngestedAll ==
    ASSUME NEW v, SpeechInv(v), NEW batch, NEW e
    PROVE  /\ Later(v, IngestAll(v, batch, e))
           /\ IngestAll(v, batch, e).adapter = v.adapter /\ IngestAll(v, batch, e).calls = v.calls
<1> DEFINE w == IngestAll(v, batch, e)
           moved == [a \in Acts |-> Ingest(v, a, e).acts[a]]
<1>1. \A a \in Acts : moved[a] \in {v.acts[a], [v.acts[a] EXCEPT !.line = e]}
    BY IngestIs DEF SpeechInv
<1>2. w = [v EXCEPT !.acts = [a \in Acts |-> IF a \in ActsOf(batch) THEN moved[a] ELSE v.acts[a]]]
    BY DEF IngestAll
<1> HIDE DEF w, moved
<1>3. w.adapter = v.adapter /\ w.calls = v.calls /\ DOMAIN w = DOMAIN v /\ DOMAIN w.acts = Acts
      /\ \A a \in Acts : w.acts[a] \in {v.acts[a], [v.acts[a] EXCEPT !.line = e]}
    BY <1>1, <1>2 DEF SpeechInv, Shaped
<1>4. Shaped(w)
    BY <1>3 DEF SpeechInv, Shaped
<1>5. Later(v, w)
    BY <1>3, <1>4, LaterLines
<1>. QED  BY <1>3, <1>5 DEF w

LEMMA LaterFailed ==
    ASSUME NEW v, SpeechInv(v), NEW gone
    PROVE  /\ Later(v, FailAll(v, gone))
           /\ FailAll(v, gone).adapter = v.adapter /\ FailAll(v, gone).calls = v.calls
<1> DEFINE w == FailAll(v, gone)
           moved == [a \in Acts |-> Ingest(v, a, "failed").acts[a]]
<1>1. \A a \in Acts : moved[a] \in {v.acts[a], [v.acts[a] EXCEPT !.line = "failed"]}
    BY IngestIs DEF SpeechInv
<1>2. w = [v EXCEPT !.acts = [a \in Acts |-> IF a \in gone THEN moved[a] ELSE v.acts[a]]]
    BY DEF FailAll
<1> HIDE DEF w, moved
<1>3. w.adapter = v.adapter /\ w.calls = v.calls /\ DOMAIN w = DOMAIN v /\ DOMAIN w.acts = Acts
      /\ \A a \in Acts : w.acts[a] \in {v.acts[a], [v.acts[a] EXCEPT !.line = "failed"]}
    BY <1>1, <1>2 DEF SpeechInv, Shaped
<1>4. Shaped(w)
    BY <1>3 DEF SpeechInv, Shaped
<1>5. Later(v, w)
    BY <1>3, <1>4, LaterLines
<1>. QED  BY <1>3, <1>5 DEF w

LEMMA LaterAuthorized ==
    ASSUME NEW v, SpeechInv(v), NEW batch, \A a \in ActsOf(batch) \cap Acts : v.acts[a].kind # "none"
    PROVE  /\ Later(v, AuthorizeText(v, batch))
           /\ AuthorizeText(v, batch).adapter = v.adapter /\ AuthorizeText(v, batch).calls = v.calls
<1> DEFINE w == AuthorizeText(v, batch)
<1>1. /\ Shaped(w) /\ w.adapter = v.adapter /\ w.calls = v.calls
      /\ \A a \in Acts : w.acts[a] = IF a \in ActsOf(batch) THEN [v.acts[a] EXCEPT !.authorized = TRUE] ELSE v.acts[a]
    BY DEF AuthorizeText, SpeechInv, Shaped
<1> HIDE DEF w
<1>2. ASSUME NEW a \in Acts
      PROVE  /\ w.acts[a].kind = v.acts[a].kind /\ w.acts[a].ordinal = v.acts[a].ordinal
             /\ w.acts[a].audio = v.acts[a].audio /\ w.acts[a].playout = v.acts[a].playout
             /\ w.acts[a].cancelled = v.acts[a].cancelled
             /\ w.acts[a].authorized = IF a \in ActsOf(batch) THEN TRUE ELSE v.acts[a].authorized
    BY <1>1 DEF SpeechInv, Shaped, ActFields
<1>3. Later(v, w)
    BY <1>1, <1>2, ActsMove, ZenonT(60) DEF SpeechInv, SpeechFits
<1>. QED  BY <1>1, <1>3 DEF w

\* What an act that is not silenced comes to be bound to.
LEMMA LaterBound ==
    ASSUME NEW v, SpeechInv(v), NEW b, ~v.acts[b].cancelled
    PROVE  Later(v, [v EXCEPT !.acts[b].audio = TRUE]) /\ Later(v, [v EXCEPT !.acts[b].playout = TRUE])
<1>1. ASSUME NEW w, Shaped(w), w.adapter = v.adapter, w.calls = v.calls,
             \A a \in Acts : w.acts[a] \in {v.acts[a], [v.acts[a] EXCEPT !.audio = TRUE], [v.acts[a] EXCEPT !.playout = TRUE]},
             \A a \in Acts : w.acts[a] = v.acts[a] \/ a = b
      PROVE  Later(v, w)
    <2>1. ASSUME NEW a \in Acts
          PROVE  /\ w.acts[a].kind = v.acts[a].kind /\ w.acts[a].ordinal = v.acts[a].ordinal
                 /\ w.acts[a].cancelled = v.acts[a].cancelled /\ w.acts[a].authorized = v.acts[a].authorized
                 /\ a # b => w.acts[a] = v.acts[a]
        BY <1>1 DEF SpeechInv, Shaped, ActFields
    <2>. QED  BY <1>1, <2>1, ActsMove DEF SpeechInv, SpeechFits
<1> DEFINE w == [v EXCEPT !.acts[b].audio = TRUE]
           x == [v EXCEPT !.acts[b].playout = TRUE]
<1>2. /\ Shaped(w) /\ w.adapter = v.adapter /\ w.calls = v.calls
      /\ \A a \in Acts : w.acts[a] = v.acts[a] \/ (a = b /\ w.acts[a] = [v.acts[a] EXCEPT !.audio = TRUE])
    BY DEF SpeechInv, Shaped
<1>3. /\ Shaped(x) /\ x.adapter = v.adapter /\ x.calls = v.calls
      /\ \A a \in Acts : x.acts[a] = v.acts[a] \/ (a = b /\ x.acts[a] = [v.acts[a] EXCEPT !.playout = TRUE])
    BY DEF SpeechInv, Shaped
<1> HIDE DEF w, x
<1>4. Later(v, w)
    BY <1>1, <1>2
<1>5. Later(v, x)
    BY <1>1, <1>3
<1>. QED  BY <1>4, <1>5 DEF w, x

LEMMA LaterOnRecord ==
    ASSUME NEW v, SpeechInv(v), NEW b, ~v.acts[b].cancelled
    PROVE  Later(v, RecordHeard(v, b)) /\ RecordHeard(v, b).adapter = v.adapter
<1> DEFINE n == 1 + Cardinality({c \in Acts : v.acts[c].ordinal > 0})
           w == [v EXCEPT !.acts[b].ordinal = n]
<1>1. n \in 0..(MaxActs + 1)
    <2> DEFINE S == {c \in Acts : v.acts[c].ordinal > 0}
    <2>1. IsFiniteSet(1..MaxActs) /\ Cardinality(1..MaxActs) = MaxActs
        BY FS_Interval, SpeechAssumption
    <2>2. S \in SUBSET (1..MaxActs)
        BY DEF Acts
    <2> HIDE DEF S
    <2>3. IsFiniteSet(S) /\ Cardinality(S) <= MaxActs
        BY <2>1, <2>2, FS_Subset
    <2>4. Cardinality(S) \in Nat
        BY <2>3, FS_CardinalityType
    <2>5. n = 1 + Cardinality(S)
        BY DEF S
    <2>. QED  BY <2>3, <2>4, <2>5, SpeechAssumption
<1>2. RecordHeard(v, b) = w
    BY DEF RecordHeard
<1> HIDE DEF n
<1>3. /\ Shaped(w) /\ w.adapter = v.adapter /\ w.calls = v.calls
      /\ \A a \in Acts : w.acts[a] = v.acts[a] \/ (a = b /\ w.acts[a] = [v.acts[a] EXCEPT !.ordinal = n])
    BY DEF SpeechInv, Shaped
<1> HIDE DEF w
<1>4. ASSUME NEW a \in Acts
      PROVE  /\ w.acts[a].kind = v.acts[a].kind /\ w.acts[a].ordinal \in {v.acts[a].ordinal, n}
             /\ w.acts[a].cancelled = v.acts[a].cancelled /\ w.acts[a].authorized = v.acts[a].authorized
             /\ a # b => w.acts[a] = v.acts[a]
    BY <1>3 DEF SpeechInv, Shaped, ActFields
<1>5. Later(v, w)
    BY <1>1, <1>3, <1>4, ActsMove DEF SpeechInv, SpeechFits
<1>. QED  BY <1>2, <1>3, <1>5

-----------------------------------------------------------------------------
LEMMA LaterAdapters ==
    ASSUME NEW v, SpeechInv(v)
    PROVE  /\ Later(v, CloseAdapter(v)) /\ CloseAdapter(v).adapter.permitted = {} /\ CloseAdapter(v).acts = v.acts
                /\ CloseAdapter(v).calls = v.calls
           /\ Later(v, RevokePermits(v))
           /\ ~v.adapter.closed /\ ~v.adapter.open => Later(v, Reopened(v))
<1>1. Later(v, CloseAdapter(v)) /\ CloseAdapter(v).adapter.permitted = {} /\ CloseAdapter(v).acts = v.acts
          /\ CloseAdapter(v).calls = v.calls
    <2> DEFINE w == CloseAdapter(v)
               fresh == [NewAdapter EXCEPT !.open = FALSE, !.closed = TRUE, !.revision = v.adapter.revision]
    <2>1. DOMAIN fresh = AdapterFields /\ fresh.permitted = {} /\ fresh.open = FALSE /\ fresh.closed = TRUE
        BY DEF NewAdapter, AdapterFields
    <2>2. w = [v EXCEPT !.adapter = fresh]
        BY DEF CloseAdapter
    <2> HIDE DEF w, fresh
    <2>3. Shaped(w) /\ w.acts = v.acts /\ w.calls = v.calls /\ w.adapter = fresh
        BY <2>1, <2>2 DEF SpeechInv, Shaped
    <2>4. Later(v, w)
        BY <2>1, <2>3, AdapterMoves
    <2>. QED  BY <2>1, <2>3, <2>4 DEF w
<1>2. Later(v, RevokePermits(v))
    <2> DEFINE w == RevokePermits(v)
    <2>1. /\ Shaped(w) /\ w.acts = v.acts /\ w.calls = v.calls
          /\ w.adapter.permitted = {} /\ w.adapter.open = FALSE /\ w.adapter.closed = v.adapter.closed
        BY DEF RevokePermits, SpeechInv, Shaped, AdapterFields
    <2> HIDE DEF w
    <2>2. Later(v, w)
        BY <2>1, AdapterMoves DEF SpeechInv, SpeechFits
    <2>. QED  BY <2>2 DEF w
<1>3. ASSUME ~v.adapter.closed, ~v.adapter.open PROVE Later(v, Reopened(v))
    <2> DEFINE w == Reopened(v)
    <2>1. /\ Shaped(w) /\ w.acts = v.acts /\ w.calls = v.calls
          /\ w.adapter.permitted = v.adapter.permitted /\ w.adapter.open = TRUE /\ w.adapter.closed = v.adapter.closed
        BY DEF Reopened, SpeechInv, Shaped, AdapterFields
    <2> HIDE DEF w
    <2>2. Later(v, w)
        BY <1>3, <2>1, AdapterMoves
    <2>. QED  BY <2>2 DEF w
<1>. QED  BY <1>1, <1>2, <1>3

LEMMA LaterRetired ==
    ASSUME NEW v, SpeechInv(v), NEW gone
    PROVE  Later(v, RetireAll(v, gone)) /\ RetireAll(v, gone).adapter.permitted = v.adapter.permitted \ gone
                /\ RetireAll(v, gone).acts = v.acts
<1> DEFINE w == RetireAll(v, gone)
<1>1. /\ Shaped(w) /\ w.acts = v.acts /\ w.calls = v.calls /\ w.adapter.permitted = v.adapter.permitted \ gone
      /\ w.adapter.open = v.adapter.open /\ w.adapter.closed = v.adapter.closed
    BY DEF RetireAll, SpeechInv, Shaped, AdapterFields
<1> HIDE DEF w
<1>2. Later(v, w)
    BY <1>1, AdapterMoves DEF SpeechInv, SpeechFits
<1>. QED  BY <1>1, <1>2 DEF w

LEMMA LaterPermitRetired ==
    ASSUME NEW v, SpeechInv(v), NEW b
    PROVE  Later(v, RetirePermit(v, b)) /\ RetirePermit(v, b).adapter.permitted = v.adapter.permitted \ {b}
                /\ RetirePermit(v, b).acts = v.acts
<1> DEFINE w == RetirePermit(v, b)
<1>1. /\ Shaped(w) /\ w.acts = v.acts /\ w.calls = v.calls /\ w.adapter.permitted = v.adapter.permitted \ {b}
      /\ w.adapter.open = v.adapter.open /\ w.adapter.closed = v.adapter.closed
    BY DEF RetirePermit, SpeechInv, Shaped, AdapterFields
<1> HIDE DEF w
<1>2. Later(v, w)
    BY <1>1, AdapterMoves DEF SpeechInv, SpeechFits
<1>. QED  BY <1>1, <1>2 DEF w

LEMMA LaterConfirmed ==
    ASSUME NEW v, SpeechInv(v), NEW gone PROVE Later(v, [v EXCEPT !.adapter.confirmed = gone])
<1> DEFINE w == [v EXCEPT !.adapter.confirmed = gone]
<1>1. Shaped(w) /\ w.acts = v.acts /\ w.calls = v.calls /\ w.adapter.permitted = v.adapter.permitted
          /\ w.adapter.open = v.adapter.open /\ w.adapter.closed = v.adapter.closed
    BY DEF SpeechInv, Shaped, AdapterFields
<1> HIDE DEF w
<1>2. Later(v, w)
    BY <1>1, AdapterMoves DEF SpeechInv, SpeechFits
<1>. QED  BY <1>2 DEF w

LEMMA LaterUntracked ==
    ASSUME NEW v, SpeechInv(v), NEW batch
    PROVE  Later(v, Retire(v, batch)) /\ Retire(v, batch).adapter = v.adapter /\ Retire(v, batch).acts = v.acts
<1> DEFINE w == Retire(v, batch)
<1>1. Shaped(w) /\ w.acts = v.acts /\ w.calls = v.calls /\ w.adapter = v.adapter
    BY DEF SpeechInv, Shaped, Retire
<1> HIDE DEF w
<1>2. Later(v, w)
    BY <1>1, AdapterMoves DEF SpeechInv, SpeechFits
<1>. QED  BY <1>1, <1>2 DEF w

LEMMA LaterSealed ==
    ASSUME NEW v, SpeechInv(v)
    PROVE  /\ Later(v, [v EXCEPT !.calls = Sealed(@)]) /\ Later(v, [v EXCEPT !.calls = Cancelled(@)])
           /\ Later(v, [v EXCEPT !.calls = CancelCall(@)])
           /\ [v EXCEPT !.calls = Sealed(@)].adapter = v.adapter /\ [v EXCEPT !.calls = Sealed(@)].acts = v.acts
           /\ [v EXCEPT !.calls = CancelCall(@)].adapter = v.adapter /\ [v EXCEPT !.calls = CancelCall(@)].acts = v.acts
<1>1. CycleGoesOn(v.calls, Sealed(v.calls)) /\ CycleGoesOn(v.calls, Cancelled(v.calls)) /\ CycleGoesOn(v.calls, CancelCall(v.calls))
    BY CycleSealed, CycleCancelled DEF SpeechInv, Shaped
<1>. QED  BY <1>1, CallsMove

\* Everything may be silenced when nothing is permitted.
LEMMA LaterSilencedAll ==
    ASSUME NEW v, SpeechInv(v), v.adapter.permitted = {}
    PROVE  Later(v, SilenceAll(v)) /\ SilenceAll(v).adapter = v.adapter
    BY LaterSilenced DEF SilenceAll, Allocated

LEMMA LaterVoiceSealed ==
    ASSUME NEW v, SpeechInv(v) PROVE Later(v, SealVoice(v))
<1> DEFINE w == CloseAdapter(v)
           x == SilenceAll(w)
           y == [x EXCEPT !.calls = Sealed(@)]
<1>1. Later(v, w) /\ w.adapter.permitted = {}
    BY LaterAdapters
<1>2. SealVoice(v) = y
    BY Zenon DEF SealVoice
<1> HIDE DEF w
<1>3. Later(w, x)
    BY <1>1, LaterSilencedAll DEF Later
<1> HIDE DEF x
<1>4. Later(x, y)
    BY <1>3, LaterSealed DEF Later
<1>. QED  BY <1>1, <1>2, <1>3, <1>4, LaterTwice

\* The response that is waited for was reserved, and what is permitted of it is on its record.
PendFits(v, p) ==
    /\ DOMAIN p = {"turn", "version", "batch", "permitted", "stage", "observed", "retired", "of"}
    /\ p.retired = p.observed
    /\ \A a \in ActsOf(p.batch) \cap Acts : v.acts[a].kind # "none"
    /\ v.adapter.permitted \cap ActsOf(p.batch) \subseteq p.permitted

LEMMA PendStays ==
    ASSUME NEW v, NEW w, NEW p, SpeechInv(v), PendFits(v, p), Later(v, w) PROVE PendFits(w, p)
    BY DEF PendFits, Later, Allocated

LEMMA NoPendFits == ASSUME NEW v PROVE PendFits(v, NoPend)
    BY DEF PendFits, NoPend, ActsOf

LEMMA LaterHardSealed ==
    ASSUME NEW v, SpeechInv(v), NEW p, \A a \in ActsOf(p.batch) \cap Acts : v.acts[a].kind # "none"
    PROVE  Later(v, HardSeal(v, p))
<1> DEFINE w == CloseAdapter(v)
           x == [w EXCEPT !.calls = Sealed(@)]
           y == Silence(x, ActsOf(p.batch))
           z == IngestAll(y, p.batch, "failed")
<1>1. Later(v, w) /\ w.adapter.permitted = {} /\ w.acts = v.acts
    BY LaterAdapters
<1>2. HardSeal(v, p) = Retire(z, p.batch)
    BY DEF HardSeal
<1> HIDE DEF w
<1>3. Later(w, x) /\ x.adapter.permitted = {} /\ x.acts = v.acts
    BY <1>1, LaterSealed DEF Later
<1> HIDE DEF x
<1>4. Later(x, y)
    BY <1>3, LaterSilenced DEF Later
<1> HIDE DEF y
<1>5. Later(y, z)
    BY <1>4, LaterIngestedAll DEF Later
<1> HIDE DEF z
<1>6. Later(z, Retire(z, p.batch))
    BY <1>5, LaterUntracked DEF Later
<1>. QED  BY <1>1, <1>2, <1>3, <1>4, <1>5, <1>6, LaterTwice

\* A response is superseded once every permit of what was not heard of it is retired.
LEMMA LaterSuperseded ==
    ASSUME NEW v, SpeechInv(v), NEW p, PendFits(v, p) PROVE Later(v, Superseded(v, p))
<1>1. CASE p = NoPend
    BY <1>1, LaterSame DEF Superseded
<1>2. CASE p # NoPend
    <2> DEFINE w == [v EXCEPT !.calls = CancelCall(@)]
               x == RetireAll(w, Unretired(p))
               y == Silence(x, Unheard(p))
               z == FailAll(y, Unheard(p))
    <2>1. Superseded(v, p) = Retire(z, p.batch)
        BY <1>2 DEF Superseded
    <2>2. Later(v, w) /\ w.adapter = v.adapter /\ w.acts = v.acts
        BY LaterSealed
    <2> HIDE DEF w
    <2>3. Later(w, x) /\ x.adapter.permitted = v.adapter.permitted \ Unretired(p) /\ x.acts = v.acts
        BY <2>2, LaterRetired DEF Later
    <2> HIDE DEF x
    <2>4. \A a \in Unheard(p) \cap Acts : x.acts[a].kind # "none" /\ a \notin x.adapter.permitted
        BY <2>3 DEF PendFits, Unheard, Unretired
    <2>5. Later(x, y)
        BY <2>3, <2>4, LaterSilenced DEF Later
    <2> HIDE DEF y
    <2>6. Later(y, z)
        BY <2>5, LaterFailed DEF Later
    <2> HIDE DEF z
    <2>7. Later(z, Retire(z, p.batch))
        BY <2>6, LaterUntracked DEF Later
    <2>. QED  BY <2>1, <2>2, <2>3, <2>5, <2>6, <2>7, LaterTwice
<1>. QED  BY <1>1, <1>2

LEMMA PermitGiven ==
    ASSUME NEW v, SpeechInv(v), NEW b, CanPermit(v, b),
           b \in Acts => ~v.acts[b].cancelled /\ v.acts[b].kind # "none"
    PROVE  /\ SpeechInv(Permit(v, b)) /\ Takes(v, Permit(v, b)) /\ Permit(v, b).acts = v.acts
           /\ Permit(v, b).adapter.permitted = v.adapter.permitted \cup {b}
<1> DEFINE w == Permit(v, b)
<1>1. Shaped(w) /\ w.acts = v.acts /\ w.calls = v.calls /\ w.adapter.permitted = v.adapter.permitted \cup {b}
          /\ w.adapter.open = v.adapter.open /\ w.adapter.closed = v.adapter.closed
    BY DEF SpeechInv, Shaped, AdapterFields, Permit
<1>2. v.adapter.open /\ ~v.adapter.closed
    BY DEF CanPermit
<1> HIDE DEF w
<1>3. Allocated(w) = Allocated(v)
    BY <1>1 DEF Allocated
<1>4. SpeechInv(w) /\ Takes(v, w)
    BY <1>1, <1>2, <1>3 DEF SpeechInv, SpeechFits, Takes
<1>. QED  BY <1>1, <1>4 DEF w

-----------------------------------------------------------------------------
LEMMA BatchIs ==
    ASSUME NEW v, SpeechInv(v), NEW k \in Nat \ {0}, Cardinality(Allocated(v)) + k <= MaxActs
    PROVE  /\ \A a \in ActsOf(NewBatch(v, k)) : a \in Acts /\ v.acts[a].kind = "none" /\ a - NewBatch(v, k)[1] + 1 \in 1..k
           /\ NewBatch(v, k)[1] \in ActsOf(NewBatch(v, k))
           /\ \E n \in 0..MaxActs : Allocated(v) \cup ActsOf(NewBatch(v, k)) = 1..n
           /\ Allocated(v) \cap ActsOf(NewBatch(v, k)) = {}
<1>1. PICK n \in 0..MaxActs : Allocated(v) = 1..n
    BY DEF SpeechInv, SpeechFits
<1>2. Cardinality(Allocated(v)) = n
    BY <1>1, FS_Interval, SpeechAssumption
<1> DEFINE batch == NewBatch(v, k)
<1>3. batch = [i \in 1..k |-> n + i]
    BY <1>2 DEF NewBatch
<1> HIDE DEF batch
<1>4. ActsOf(batch) = (n + 1)..(n + k) /\ batch[1] = n + 1
    <2>1. n \in Int /\ k \in Int /\ 1 \in 1..k
        BY <1>1
    <2>2. ActsOf(batch) = {n + i : i \in 1..k}
        BY <1>3 DEF ActsOf
    <2>3. ASSUME NEW a \in (n + 1)..(n + k) PROVE a \in {n + i : i \in 1..k}
        <3>1. a - n \in 1..k /\ a = n + (a - n)
            BY <2>1
        <3>. QED  BY <3>1
    <2>4. {n + i : i \in 1..k} \subseteq (n + 1)..(n + k)
        BY <2>1
    <2>5. batch[1] = n + 1
        BY <1>3, <2>1
    <2>. QED  BY <2>2, <2>3, <2>4, <2>5
<1>5. n + k \in 0..MaxActs /\ n \in Nat
    BY <1>1, <1>2, SpeechAssumption
<1>6. \A a \in ActsOf(batch) : a \in Acts /\ a \notin Allocated(v) /\ a - batch[1] + 1 \in 1..k
    <2>1. ASSUME NEW a \in (n + 1)..(n + k) PROVE a \in 1..MaxActs /\ a \notin 1..n /\ a - (n + 1) + 1 \in 1..k
        BY <1>5, SpeechAssumption
    <2>. QED  BY <1>1, <1>4, <2>1 DEF Acts
<1>7. \A a \in ActsOf(batch) : v.acts[a].kind = "none"
    BY <1>6 DEF Allocated
<1>8. Allocated(v) \cup ActsOf(batch) = 1..(n + k)
    BY <1>1, <1>4, <1>5
<1>9. Allocated(v) \cap ActsOf(batch) = {}
    BY <1>6
<1>10. batch[1] \in ActsOf(batch)
    BY <1>4, <1>5
<1>11. \E m \in 0..MaxActs : Allocated(v) \cup ActsOf(batch) = 1..m
    BY <1>5, <1>8
<1>. QED  BY <1>6, <1>7, <1>9, <1>10, <1>11 DEF batch

\* Speech that is reserved anew.
Reserves(v, w, batch) ==
    /\ SpeechInv(w) /\ Takes(v, w) /\ w.adapter = v.adapter
    /\ \A a \in ActsOf(batch) : w.acts[a].kind # "none" /\ ~w.acts[a].cancelled
    /\ Allocated(v) \subseteq Allocated(w)

LEMMA SpeechReserved ==
    ASSUME NEW v, SpeechInv(v), NEW kinds, NEW t, NEW slot, NEW of, Len(kinds) \in Nat \ {0},
           Cardinality(Allocated(v)) + Len(kinds) <= MaxActs, \A i \in 1..Len(kinds) : kinds[i] # "none"
    PROVE  Reserves(v, Reserve(v, kinds, t, slot, of), NewBatch(v, Len(kinds))) /\ Reserve(v, kinds, t, slot, of).calls = v.calls
<1> DEFINE batch == NewBatch(v, Len(kinds))
           w == Reserve(v, kinds, t, slot, of)
           Entry(a) == [NoAct EXCEPT !.kind = kinds[a - batch[1] + 1], !.turn = t, !.of = of,
                            !.slot = IF kinds[a - batch[1] + 1] = "question" THEN slot ELSE 0,
                            !.owns = kinds[a - batch[1] + 1] = "question" /\ of = 0]
<1>1. /\ \A a \in ActsOf(batch) : a \in Acts /\ v.acts[a].kind = "none" /\ a - batch[1] + 1 \in 1..Len(kinds)
      /\ \E n \in 0..MaxActs : Allocated(v) \cup ActsOf(batch) = 1..n
    BY BatchIs
<1>2. ASSUME NEW a
      PROVE  /\ DOMAIN Entry(a) = ActFields /\ Entry(a).kind = kinds[a - batch[1] + 1]
             /\ Entry(a).cancelled = FALSE /\ Entry(a).authorized = FALSE /\ Entry(a).ordinal = 0
    BY DEF NoAct, ActFields
<1>3. /\ w.adapter = v.adapter /\ w.calls = v.calls /\ DOMAIN w = DOMAIN v /\ DOMAIN w.acts = Acts
      /\ \A a \in Acts : w.acts[a] = IF a \in ActsOf(batch) THEN Entry(a) ELSE v.acts[a]
    BY DEF Reserve, SpeechInv, Shaped
<1> HIDE DEF batch, w, Entry
<1>4. \A a \in ActsOf(batch) : /\ a \in Acts /\ v.acts[a].kind = "none" /\ w.acts[a].kind # "none" /\ w.acts[a].cancelled = FALSE
                               /\ w.acts[a].authorized = FALSE /\ w.acts[a].ordinal = 0 /\ DOMAIN w.acts[a] = ActFields
    <2> SUFFICES ASSUME NEW a \in ActsOf(batch)
                 PROVE  /\ a \in Acts /\ v.acts[a].kind = "none" /\ w.acts[a].kind # "none" /\ w.acts[a].cancelled = FALSE
                        /\ w.acts[a].authorized = FALSE /\ w.acts[a].ordinal = 0 /\ DOMAIN w.acts[a] = ActFields
        OBVIOUS
    <2>1. a \in Acts /\ v.acts[a].kind = "none" /\ kinds[a - batch[1] + 1] # "none"
        BY <1>1
    <2>2. w.acts[a] = Entry(a)
        BY <1>3, <2>1
    <2>. QED  BY <1>2, <2>1, <2>2
<1>5. Shaped(w)
    BY <1>3, <1>4 DEF SpeechInv, Shaped
<1>6. Allocated(w) = Allocated(v) \cup ActsOf(batch)
    BY <1>3, <1>4 DEF Allocated
<1>7. SpeechFits(w)
    BY <1>1, <1>3, <1>4, <1>6, SpeechAssumption DEF SpeechInv, SpeechFits
<1>8. Takes(v, w)
    BY <1>3, <1>4 DEF Takes, SpeechInv, SpeechFits
<1>. QED  BY <1>3, <1>4, <1>5, <1>6, <1>7, <1>8 DEF Reserves, SpeechInv, batch, w

LEMMA BatchReserved ==
    ASSUME NEW v, SpeechInv(v), NEW kinds, NEW t, NEW slot, NEW of, Len(kinds) \in Nat \ {0},
           Cardinality(Allocated(v)) + Len(kinds) <= MaxActs, \A i \in 1..Len(kinds) : kinds[i] # "none"
    PROVE  Reserves(v, ReserveBatch(v, kinds, t, slot, of), NewBatch(v, Len(kinds)))
<1> DEFINE batch == NewBatch(v, Len(kinds))
           w == Reserve(v, kinds, t, slot, of)
           q == QuestionOf(w, batch)
           b == CHOOSE a \in q : TRUE
           d == QuestionReserved(w.calls, b, t)
           x == [w EXCEPT !.calls = d]
<1>1. Reserves(v, w, batch)
    BY SpeechReserved
<1>2. ReserveBatch(v, kinds, t, slot, of) = IF q = {} THEN w ELSE x
    BY DEF ReserveBatch
<1>3. CASE q = {}
    BY <1>1, <1>2, <1>3
<1>4. CASE q # {}
    <2>1. b \in ActsOf(batch)
        BY <1>4 DEF QuestionOf
    <2>2. DOMAIN d = CycleFields /\ (w.calls.phase = "terminated" => d.phase = "terminated") /\ d.issued = w.calls.issued
          /\ d.question \in {w.calls.question, b}
        <3> HIDE DEF w, b
        <3>1. w.calls.phase # "idle" => d = w.calls
            BY DEF QuestionReserved
        <3>2. w.calls.phase = "idle" => DOMAIN d = CycleFields /\ d.issued = w.calls.issued /\ d.question = b
            BY <1>1 DEF QuestionReserved, Reserves, SpeechInv, Shaped, CycleFields
        <3>. QED  BY <1>1, <3>1, <3>2 DEF Reserves, SpeechInv, Shaped
    <2> HIDE DEF d, w, b
    <2>3. Shaped(x) /\ x.acts = w.acts /\ x.adapter = w.adapter /\ x.calls = d
        BY <1>1, <2>2 DEF Reserves, SpeechInv, Shaped
    <2> HIDE DEF x
    <2>4. Allocated(x) = Allocated(w)
        BY <2>3 DEF Allocated
    <2>5. SpeechFits(x)
        BY <1>1, <2>1, <2>2, <2>3, <2>4 DEF Reserves, SpeechInv, SpeechFits
    <2>6. Takes(v, x)
        BY <1>1, <2>2, <2>3 DEF Reserves, Takes
    <2>. QED  BY <1>1, <1>2, <1>4, <2>3, <2>4, <2>5, <2>6 DEF Reserves, SpeechInv
<1>. QED  BY <1>3, <1>4

\* What becomes of a speech and of the response that is waited for.
Gives(v, made) == SpeechInv(made.voice) /\ Takes(v, made.voice) /\ PendFits(made.voice, made.pend)

LEMMA GivesNothing == ASSUME NEW v, NEW w, SpeechInv(w), Takes(v, w) PROVE Gives(v, Unoffered(w))
    BY NoPendFits DEF Gives, Unoffered

LEMMA ResponseOffered ==
    ASSUME NEW v, SpeechInv(v), NEW t, NEW version, NEW kinds, NEW slot, NEW of, Len(kinds) \in Nat \ {0},
           Cardinality(Allocated(v)) + Len(kinds) <= MaxActs, \A i \in 1..Len(kinds) : kinds[i] # "none"
    PROVE  Gives(v, Offered(v, t, version, kinds, slot, of))
<1> DEFINE batch == NewBatch(v, Len(kinds))
           r == ReserveBatch(v, kinds, t, slot, of)
           said == AuthorizeText(r, batch)
           b == batch[1]
           ready == Ingest(said, b, "authorized")
           spoken == IngestAll(Permit(ready, b), batch, "authorized")
           p == [NoPend EXCEPT !.turn = t, !.version = version, !.batch = batch, !.of = of, !.permitted = {b}, !.stage = "permitted"]
           dropped == QuestionDropped(ready, batch)
           silent == Silence(dropped, ActsOf(batch))
           failed == FailAll(silent, {b})
           made == Offered(v, t, version, kinds, slot, of)
<1>1. Reserves(v, r, batch)
    BY BatchReserved
<1>2. /\ \A a \in ActsOf(batch) : a \in Acts /\ v.acts[a].kind = "none"
      /\ b \in ActsOf(batch)
    BY BatchIs
<1>3. made = IF CanPermit(ready, b) THEN [voice |-> spoken, pend |-> p] ELSE Unoffered(Retire(failed, batch))
    BY DEF Offered
<1>4. /\ DOMAIN p = {"turn", "version", "batch", "permitted", "stage", "observed", "retired", "of"}
      /\ p.retired = {} /\ p.observed = {} /\ p.batch = batch /\ p.permitted = {b}
    BY DEF NoPend
<1> HIDE DEF batch, r, p, b, made
<1>5. Later(r, said) /\ said.adapter = v.adapter
    BY <1>1, LaterAuthorized DEF Reserves
<1> HIDE DEF said
<1>6. Later(said, ready) /\ ready.adapter = v.adapter
    BY <1>5, LaterIngested DEF Later
<1>7. \A a \in ActsOf(batch) : ~ready.acts[a].cancelled
    <2>1. \A a \in Acts : said.acts[a].cancelled = r.acts[a].cancelled
        <3>1. ASSUME NEW a \in Acts PROVE said.acts[a] \in {r.acts[a], [r.acts[a] EXCEPT !.authorized = TRUE]}
            BY <1>1, <3>1 DEF said, AuthorizeText, Reserves, SpeechInv, Shaped
        <3>. QED  BY <1>1, <3>1 DEF Reserves, SpeechInv, Shaped, ActFields
    <2>2. Shaped(said)
        BY <1>5 DEF Later, SpeechInv
    <2>3. \A a \in Acts : ready.acts[a] \in {said.acts[a], [said.acts[a] EXCEPT !.line = "authorized"]}
        BY <2>2, IngestIs
    <2>4. \A a \in Acts : ready.acts[a].cancelled = said.acts[a].cancelled
        BY <2>2, <2>3 DEF Shaped, ActFields
    <2>. QED  BY <1>1, <1>2, <2>1, <2>4 DEF Reserves
<1> HIDE DEF ready
<1>8. Later(r, ready)
    BY <1>5, <1>6, LaterTwice
<1>9. SpeechInv(ready) /\ Takes(v, ready) /\ \A a \in ActsOf(batch) : a \in Acts /\ ready.acts[a].kind # "none"
    BY <1>1, <1>2, <1>8, TakesTwice DEF Reserves, Later, Allocated
<1>10. \A a \in ActsOf(batch) : a \notin v.adapter.permitted
    BY <1>2 DEF SpeechInv, SpeechFits
<1>11. CASE CanPermit(ready, b)
    <2>1. SpeechInv(Permit(ready, b)) /\ Takes(ready, Permit(ready, b)) /\ Permit(ready, b).acts = ready.acts
          /\ Permit(ready, b).adapter.permitted = v.adapter.permitted \cup {b}
        BY <1>2, <1>6, <1>7, <1>9, <1>11, PermitGiven
    <2>2. Later(Permit(ready, b), spoken)
        BY <2>1, LaterIngestedAll
    <2> HIDE DEF spoken
    <2>3. SpeechInv(spoken) /\ Takes(v, spoken) /\ \A a \in ActsOf(batch) : spoken.acts[a].kind # "none"
        <3>1. Takes(v, Permit(ready, b))
            BY <1>9, <2>1, TakesTwice
        <3>2. Takes(v, spoken)
            BY <2>2, <3>1, TakesTwice DEF Later
        <3>. QED  BY <1>9, <2>1, <2>2, <3>2 DEF Later, Allocated
    <2>4. PendFits(spoken, p)
        BY <1>4, <1>10, <2>1, <2>2, <2>3 DEF PendFits, Later
    <2>. QED  BY <1>3, <1>11, <2>3, <2>4 DEF Gives, made
<1>12. CASE ~CanPermit(ready, b)
    <2>1. Later(ready, dropped) /\ dropped.adapter = v.adapter /\ dropped.acts = ready.acts
        <3> DEFINE a == CHOOSE c \in QuestionOf(ready, batch) : TRUE
                   d == QuestionRolledBack(ready.calls, a)
        <3>1. dropped = IF QuestionOf(ready, batch) = {} THEN ready ELSE [ready EXCEPT !.calls = d]
            BY DEF QuestionDropped
        <3>2. CycleGoesOn(ready.calls, d)
            BY <1>9, CycleRolledBack DEF SpeechInv, Shaped
        <3> HIDE DEF d, dropped
        <3>. QED  BY <1>6, <1>9, <3>1, <3>2, CallsMove, LaterSame
    <2> HIDE DEF dropped
    <2>2. Later(dropped, silent)
        BY <1>9, <1>10, <2>1, LaterSilenced DEF Later
    <2> HIDE DEF silent
    <2>3. Later(silent, failed)
        BY <2>2, LaterFailed DEF Later
    <2> HIDE DEF failed
    <2>4. Later(failed, Retire(failed, batch))
        BY <2>3, LaterUntracked DEF Later
    <2>5. Later(ready, Retire(failed, batch))
        BY <2>1, <2>2, <2>3, <2>4, LaterTwice
    <2>. QED  BY <1>3, <1>9, <1>12, <2>5, TakesTwice, GivesNothing DEF Later, made
<1>. QED  BY <1>11, <1>12

LEMMA ResponseHeeded ==
    ASSUME NEW v, SpeechInv(v), PendFits(v, pend), NEW a, NEW version PROVE Gives(v, Heeded(v, a, version))
<1> DEFINE p1 == [pend EXCEPT !.observed = @ \cup {a}]
           p2 == [p1 EXCEPT !.retired = @ \cup {a}]
           p == [p2 EXCEPT !.version = version]
           w == RetirePermit(v, a)
           next == NextAct(p)
           q1 == [p EXCEPT !.permitted = @ \cup {next}]
           q == [q1 EXCEPT !.stage = "permitted"]
           made == Heeded(v, a, version)
<1>1. p = [pend EXCEPT !.observed = @ \cup {a}, !.retired = @ \cup {a}, !.version = version]
    OBVIOUS
<1>2. made = IF ~CanRetirePermit(v, a) THEN Unoffered(HardSeal(v, p))
             ELSE IF next = 0
             THEN IF CanComplete(w, p.batch) THEN Unoffered(Retire(w, p.batch)) ELSE Unoffered(HardSeal(w, p))
             ELSE IF Live(w, next) /\ CanPermit(w, next) THEN [voice |-> Permit(w, next), pend |-> q]
             ELSE Unoffered(HardSeal(w, p))
    BY <1>1 DEF Heeded
<1>3. p.batch = pend.batch /\ p.permitted = pend.permitted /\ p.observed = pend.observed \cup {a} /\ p.retired = pend.retired \cup {a}
      /\ DOMAIN p = DOMAIN pend
    BY DEF PendFits
<1>4. PendFits(v, p)
    BY <1>3 DEF PendFits
<1>5. Later(v, w)
    BY LaterPermitRetired
<1> HIDE DEF p, w, made
<1>6. SpeechInv(w) /\ PendFits(w, p)
    BY <1>4, <1>5, PendStays DEF Later
<1>7. Gives(v, Unoffered(HardSeal(v, p)))
    BY <1>4, LaterHardSealed, GivesNothing DEF PendFits, Later
<1>8. Gives(v, Unoffered(HardSeal(w, p))) /\ Gives(v, Unoffered(Retire(w, p.batch)))
    BY <1>5, <1>6, LaterHardSealed, LaterUntracked, LaterTwice, GivesNothing DEF PendFits, Later
<1>9. ASSUME Live(w, next), CanPermit(w, next) PROVE Gives(v, [voice |-> Permit(w, next), pend |-> q])
    <2>1. q.batch = p.batch /\ q.permitted = p.permitted \cup {next} /\ q.observed = p.observed /\ q.retired = p.retired
          /\ DOMAIN q = DOMAIN p
        BY <1>6 DEF PendFits
    <2> HIDE DEF next, q
    <2>2. SpeechInv(Permit(w, next)) /\ Takes(w, Permit(w, next)) /\ Permit(w, next).acts = w.acts
          /\ Permit(w, next).adapter.permitted = w.adapter.permitted \cup {next}
        BY <1>6, <1>9, PermitGiven DEF Live, SpeechInv, SpeechFits
    <2>3. PendFits(Permit(w, next), q)
        BY <1>6, <2>1, <2>2 DEF PendFits
    <2>4. Takes(v, Permit(w, next))
        BY <1>5, <2>2, TakesTwice DEF Later
    <2>. QED  BY <2>2, <2>3, <2>4 DEF Gives
<1>. QED  BY <1>2, <1>7, <1>8, <1>9 DEF made

LEMMA LatestExists ==
    ASSUME NEW T, T # {}, NEW f, NEW N \in Nat, \A t \in T : f[t] \in 0..N
    PROVE  \E x \in T : \A y \in T : f[y] <= f[x]
<1> DEFINE S == {N - f[t] : t \in T}
<1>1. S \subseteq Nat /\ S # {}
    OBVIOUS
<1>2. \E m \in S : \A n \in S : ~(<<n, m>> \in OpToRel(<, Nat))
    <2> HIDE DEF S
    <2>. QED BY <1>1, WFMin, NatLessThanWellFounded
<1>3. PICK m \in S : \A n \in S : ~(n < m)
    BY <1>1, <1>2 DEF OpToRel
<1>4. PICK x \in T : m = N - f[x]
    BY <1>3
<1>5. ASSUME NEW y \in T PROVE f[y] <= f[x]
    <2>1. N - f[y] \in S /\ f[y] \in 0..N /\ f[x] \in 0..N
        BY <1>5
    <2> HIDE DEF S
    <2>2. ~(N - f[y] < N - f[x])
        BY <2>1, <1>3, <1>4
    <2>. QED  BY <2>1, <2>2
<1>. QED  BY <1>4, <1>5

LEMMA SourceExists ==
    ASSUME NEW v, SpeechInv(v), ReplaySources(v) # {} PROVE v.acts[LatestSource(v)].kind # "none"
<1> DEFINE f == [a \in Acts |-> v.acts[a].ordinal]
           T == ReplaySources(v)
<1>1. T \subseteq Acts /\ \A a \in T : v.acts[a].kind # "none"
    BY DEF ReplaySources, Allocated
<1>2. \A a \in T : f[a] \in 0..(MaxActs + 1)
    BY <1>1 DEF SpeechInv, SpeechFits
<1>3. MaxActs + 1 \in Nat
    BY SpeechAssumption
<1> HIDE DEF T
<1>4. \E x \in T : \A y \in T : f[y] <= f[x]
    <2> HIDE DEF f
    <2>. QED  BY <1>2, <1>3, LatestExists DEF T
<1>5. \E x \in T : \A y \in T : v.acts[y].ordinal <= v.acts[x].ordinal
    BY <1>1, <1>4
<1>6. LatestSource(v) \in T
    BY <1>5 DEF LatestSource, T
<1>. QED  BY <1>1, <1>6

-----------------------------------------------------------------------------
AuthorityInv == SpeechInv(voice) /\ PendFits(voice, pend) /\ \A i \in inbox : i.kind # "none"

LEMMA AuthorityStarts == BakeoffInit => AuthorityInv
<1> SUFFICES ASSUME BakeoffInit PROVE AuthorityInv
    OBVIOUS
<1>1. Shaped(voice)
    BY DEF BakeoffInit, NewVoice, NewAdapter, NewCycle, NoAct, Shaped, AdapterFields, CycleFields, ActFields
<1>2. /\ voice.adapter.permitted = {} /\ ~voice.adapter.closed /\ voice.calls.issued = {} /\ voice.calls.question = 0
      /\ voice.adapter.open
      /\ \A a \in Acts : voice.acts[a].ordinal = 0 /\ ~voice.acts[a].cancelled /\ ~voice.acts[a].authorized
                         /\ voice.acts[a].kind = "none"
    BY DEF BakeoffInit, NewVoice, NewAdapter, NewCycle, NoAct
<1>3. Allocated(voice) = 1..0
    BY <1>2 DEF Allocated
<1>4. SpeechFits(voice)
    BY <1>2, <1>3, SpeechAssumption DEF SpeechFits, Acts
<1>. QED  BY <1>1, <1>4, NoPendFits DEF AuthorityInv, SpeechInv, BakeoffInit

LEMMA AuthorityGiven ==
    ASSUME AuthorityInv, NEW made, Gives(voice, made), voice' = made.voice, pend' = made.pend, UNCHANGED inbox
    PROVE  AuthorityInv' /\ Takes(voice, voice')
    BY DEF AuthorityInv, Gives

LEMMA AuthorityLater ==
    ASSUME AuthorityInv, Later(voice, voice'),
           pend' = pend \/ pend' = NoPend \/ \E x : pend' = [pend EXCEPT !.stage = x], UNCHANGED inbox
    PROVE  AuthorityInv' /\ Takes(voice, voice')
<1>1. PendFits(voice', pend)
    BY PendStays DEF AuthorityInv
<1>2. PendFits(voice', NoPend)
    BY NoPendFits
<1>3. ASSUME NEW x PROVE PendFits(voice', [pend EXCEPT !.stage = x])
    <2> DEFINE p == [pend EXCEPT !.stage = x]
    <2>1. DOMAIN p = DOMAIN pend /\ p.batch = pend.batch /\ p.permitted = pend.permitted /\ p.observed = pend.observed
          /\ p.retired = pend.retired
        BY <1>1 DEF PendFits
    <2> HIDE DEF p
    <2>2. PendFits(voice', p)
        BY <1>1, <2>1 DEF PendFits
    <2>. QED  BY <2>2 DEF p
<1>. QED  BY <1>1, <1>2, <1>3 DEF AuthorityInv, Later

\* An answer to a turn begins by superseding the one that is pending.
LEMMA TurnGiven ==
    ASSUME AuthorityInv, NEW t, NEW version, NEW kinds, NEW slot, NEW of, Len(kinds) \in Nat \ {0}, HasRoom(Len(kinds)),
           \A i \in 1..Len(kinds) : kinds[i] # "none"
    PROVE  /\ Gives(voice, Offered(Superseded(voice, pend), t, version, kinds, slot, of))
           /\ Gives(voice, Unoffered(Superseded(voice, pend)))
<1> DEFINE v == Superseded(voice, pend)
<1>1. Later(voice, v)
    BY LaterSuperseded DEF AuthorityInv
<1> HIDE DEF v
<1>2. SpeechInv(v) /\ Takes(voice, v) /\ Cardinality(Allocated(v)) + Len(kinds) <= MaxActs
    BY <1>1 DEF Later, HasRoom
<1>3. Gives(v, Offered(v, t, version, kinds, slot, of))
    BY <1>2, ResponseOffered
<1>4. Gives(voice, Offered(v, t, version, kinds, slot, of))
    BY <1>2, <1>3, TakesTwice DEF Gives
<1>. QED  BY <1>2, <1>4, GivesNothing DEF v

LEMMA AuthorityOfTurns ==
    ASSUME AuthorityInv, NEW r,
           SupersedeFails(r) \/ TurnRepaired(r) \/ TurnReplayed(r) \/ (\E understood : TurnSaysNothing(r, understood))
           \/ (\E plan \in Plans, slot \in Slots \cup {0} : TurnPlanned(r, plan, slot))
    PROVE  AuthorityInv' /\ Takes(voice, voice')
<1> DEFINE v == Superseded(voice, pend)
<1>1. Later(voice, v) /\ SpeechInv(v)
    BY LaterSuperseded DEF AuthorityInv, Later
<1>2. CASE SupersedeFails(r)
    <2>1. voice' = HardSeal(voice, pend) /\ pend' = NoPend /\ inbox' = inbox
        BY <1>2 DEF SupersedeFails, Admitted, Consumed
    <2>2. Later(voice, voice')
        BY <2>1, LaterHardSealed DEF AuthorityInv, PendFits
    <2>. QED  BY <2>1, <2>2, AuthorityLater
<1>3. ASSUME NEW understood, TurnSaysNothing(r, understood) PROVE AuthorityInv' /\ Takes(voice, voice')
    <2>1. voice' = v /\ pend' = NoPend /\ inbox' = inbox
        BY <1>3 DEF TurnSaysNothing, Admitted, Consumed
    <2> HIDE DEF v
    <2>. QED  BY <1>1, <2>1, AuthorityLater
<1>4. CASE TurnRepaired(r)
    <2> DEFINE kinds == <<"repair">>
               o == Offered(v, r.turn, intake.version, kinds, 0, 0)
               made == IF MayReserveBatch(v, kinds, r.turn, 0) THEN o ELSE Unoffered(v)
    <2>1. voice' = made.voice /\ pend' = made.pend /\ inbox' = inbox /\ HasRoom(1)
        BY <1>4 DEF TurnRepaired, Admitted, Consumed
    <2>2. Len(kinds) \in Nat \ {0} /\ HasRoom(Len(kinds)) /\ \A i \in 1..Len(kinds) : kinds[i] # "none"
        BY <2>1
    <2> HIDE DEF kinds
    <2>3. Gives(voice, o) /\ Gives(voice, Unoffered(v))
        BY <2>1, <2>2, TurnGiven
    <2> HIDE DEF o, v
    <2>4. Gives(voice, made)
        BY <2>3
    <2> HIDE DEF made
    <2>. QED  BY <2>1, <2>4, AuthorityGiven
<1>5. ASSUME NEW kinds \in Plans, NEW slot \in Slots \cup {0}, TurnPlanned(r, kinds, slot) PROVE AuthorityInv' /\ Takes(voice, voice')
    <2> DEFINE o == Offered(v, r.turn, intake.version + 1, kinds, slot, 0)
               made == IF MayReserveBatch(v, kinds, r.turn, slot) THEN o ELSE Unoffered(v)
    <2>1. voice' = made.voice /\ pend' = made.pend /\ inbox' = inbox /\ HasRoom(Len(kinds))
        BY <1>5 DEF TurnPlanned, Admitted, Consumed
    <2>2. Len(kinds) \in Nat \ {0} /\ \A i \in 1..Len(kinds) : kinds[i] # "none"
        BY <1>5 DEF Plans
    <2>3. Gives(voice, o) /\ Gives(voice, Unoffered(v))
        BY <2>1, <2>2, TurnGiven
    <2> HIDE DEF o, v
    <2>4. Gives(voice, made)
        BY <2>3
    <2> HIDE DEF made
    <2>. QED  BY <2>1, <2>4, AuthorityGiven
<1>6. CASE TurnReplayed(r)
    <2> DEFINE w == [v EXCEPT !.calls = CancelCall(@)]
               kinds == <<w.acts[LatestSource(w)].kind>>
               o == Offered(w, r.turn, intake.version, kinds, w.acts[LatestSource(w)].slot, LatestSource(w))
               made == IF CannotReplay(v) THEN Unoffered(SealVoice(v)) ELSE IF ReplaySources(w) = {} THEN Unoffered(w) ELSE o
    <2>1. voice' = made.voice /\ pend' = made.pend /\ inbox' = inbox /\ HasRoom(1)
        BY <1>6 DEF TurnReplayed, Admitted, Consumed, ReplayOffered
    <2>2. Later(voice, w)
        <3> HIDE DEF v
        <3>. QED  BY <1>1, LaterSealed, LaterTwice DEF Later
    <2>3. Gives(voice, Unoffered(w))
        <3> HIDE DEF w
        <3>. QED  BY <2>2, GivesNothing DEF Later
    <2>4. Gives(voice, Unoffered(SealVoice(v)))
        <3> HIDE DEF v
        <3>. QED  BY <1>1, LaterVoiceSealed, LaterTwice, GivesNothing DEF Later
    <2>5. ASSUME ReplaySources(w) # {} PROVE Gives(voice, o)
        <3> HIDE DEF w
        <3>1. SpeechInv(w) /\ Takes(voice, w) /\ Cardinality(Allocated(w)) + 1 <= MaxActs
            BY <2>1, <2>2 DEF Later, HasRoom
        <3>2. w.acts[LatestSource(w)].kind # "none"
            BY <2>5, <3>1, SourceExists
        <3>3. /\ Len(kinds) \in Nat \ {0} /\ Cardinality(Allocated(w)) + Len(kinds) <= MaxActs
              /\ \A i \in 1..Len(kinds) : kinds[i] # "none"
            BY <3>1, <3>2
        <3> HIDE DEF kinds
        <3>4. Gives(w, o)
            BY <3>1, <3>3, ResponseOffered
        <3> HIDE DEF o
        <3>. QED  BY <3>1, <3>4, TakesTwice DEF Gives
    <2> HIDE DEF o, w, v
    <2>6. Gives(voice, made)
        BY <2>3, <2>4, <2>5
    <2> HIDE DEF made
    <2>. QED  BY <2>1, <2>6, AuthorityGiven
<1>. QED  BY <1>2, <1>3, <1>4, <1>5, <1>6

LEMMA AuthorityOfResponses ==
    ASSUME AuthorityInv, NEW a,
           ResponseConfirmed(a) \/ ResponseTransported(a) \/ ResponseHeard(a) \/ PlaybackIsInferred(a) \/ ActTimesOut(a)
           \/ (\E e \in {"tts", "playout"} : ResponseBound(a, e)) \/ (\E e \in {"partial", "reconnected"} : PlayoutBroken(a, e))
    PROVE  AuthorityInv' /\ Takes(voice, voice')
<1>1. CASE ResponseConfirmed(a)
    <2> DEFINE v == Ingest(voice, a, "confirmed")
               question == v.acts[a].kind = "question"
               x == [v EXCEPT !.adapter.confirmed = @ \cup {a}]
               d == IF question THEN QuestionConfirmed(x.calls) ELSE x.calls
               y == [x EXCEPT !.calls = d]
    <2>1. Later(voice, v)
        BY LaterIngested DEF AuthorityInv
    <2>2. Later(v, x) /\ x.calls = v.calls
        <3> HIDE DEF v
        <3>. QED  BY <2>1, LaterConfirmed DEF Later, SpeechInv, Shaped
    <2>3. /\ voice' = v \/ (voice' = y /\ (question => CanConfirmQuestion(v.calls, a)))
          /\ inbox' = inbox /\ (pend' = pend \/ pend' = [pend EXCEPT !.stage = "confirmed"])
        <3>1. y = [v EXCEPT !.adapter.confirmed = @ \cup {a}, !.calls = IF question THEN QuestionConfirmed(@) ELSE @]
            <4>1. x.calls = v.calls
                BY <2>2
            <4>. QED  BY <4>1
        <3>. QED  BY <1>1, <3>1 DEF ResponseConfirmed
    <2> HIDE DEF v
    <2>4. (question => CanConfirmQuestion(v.calls, a)) => CycleGoesOn(x.calls, d)
        <3>1. DOMAIN x.calls = CycleFields
            BY <2>2 DEF Later, SpeechInv, Shaped
        <3> HIDE DEF x
        <3>. QED  BY <2>2, <3>1 DEF CycleGoesOn, CanConfirmQuestion, QuestionConfirmed, CycleFields
    <2> HIDE DEF x, d
    <2>5. (question => CanConfirmQuestion(v.calls, a)) => Later(x, y)
        BY <2>2, <2>4, CallsMove DEF Later
    <2> HIDE DEF y, question
    <2>6. Later(voice, voice')
        BY <2>1, <2>2, <2>3, <2>5, LaterTwice
    <2>. QED  BY <2>3, <2>6, AuthorityLater
<1>2. CASE ResponseTransported(a)
    <2> DEFINE v == Ingest(voice, a, "transport")
               d == TransportResolved(v.calls, a)
    <2>1. Later(voice, v)
        BY LaterIngested DEF AuthorityInv
    <2>2. /\ voice' = v \/ voice' = [v EXCEPT !.calls = d]
          /\ inbox' = inbox /\ (pend' = pend \/ pend' = [pend EXCEPT !.stage = "transport"])
        BY <1>2 DEF ResponseTransported
    <2> HIDE DEF v
    <2>3. Later(v, [v EXCEPT !.calls = d])
        BY <2>1, CycleTransported, CallsMove DEF Later, SpeechInv, Shaped
    <2> HIDE DEF d
    <2>4. Later(voice, voice')
        BY <2>1, <2>2, <2>3, LaterTwice
    <2>. QED  BY <2>2, <2>4, AuthorityLater
<1>3. CASE ResponseHeard(a)
    <2> DEFINE v == Ingest(voice, a, "heard")
               question == v.acts[a].kind = "question"
               ready == pend.stage = "transport" /\ Speakable(v, a)
               stale == ready /\ ~Current(pend.turn, pend.version)
               arms == question => Awaits(v.calls, a)
               w == IF question THEN [v EXCEPT !.calls = PlaybackObserved(@, a)] ELSE v
               x == RecordHeard(w, a)
               made == IF stale \/ (ready /\ arms /\ ~CanRecordHeard(w, a)) THEN Unoffered(HardSeal(w, pend))
                       ELSE IF ~ready \/ ~arms THEN [voice |-> v, pend |-> pend]
                       ELSE Heeded(x, a, MarkAsked(a).version)
    <2>1. voice' = made.voice /\ pend' = made.pend /\ inbox' = inbox
        BY <1>3 DEF ResponseHeard
    <2>2. Later(voice, v)
        BY LaterIngested DEF AuthorityInv
    <2>3. Later(v, w) /\ w.acts = v.acts
        <3> HIDE DEF v
        <3>1. CycleGoesOn(v.calls, PlaybackObserved(v.calls, a))
            BY <2>2, CyclePlayed DEF Later, SpeechInv, Shaped
        <3>. QED  BY <2>2, <3>1, CallsMove, LaterSame DEF Later
    <2>4. ready => ~w.acts[a].cancelled
        BY <2>3 DEF Speakable, Live
    <2> HIDE DEF question, v, arms, stale, ready
    <2>5. Later(voice, w)
        <3> HIDE DEF w
        <3>. QED  BY <2>2, <2>3, LaterTwice
    <2> HIDE DEF w
    <2>6. Gives(voice, Unoffered(HardSeal(w, pend)))
        <3>1. PendFits(w, pend) /\ SpeechInv(w)
            BY <2>5, PendStays DEF AuthorityInv, Later
        <3>. QED  BY <2>5, <3>1, LaterHardSealed, LaterTwice, GivesNothing DEF Later, PendFits
    <2>7. Gives(voice, [voice |-> v, pend |-> pend])
        BY <2>2, PendStays DEF Gives, AuthorityInv, Later
    <2>8. ready => Gives(voice, Heeded(x, a, MarkAsked(a).version))
        <3> SUFFICES ASSUME ready PROVE Gives(voice, Heeded(x, a, MarkAsked(a).version))
            OBVIOUS
        <3>1. Later(w, x)
            BY <2>4, <2>5, LaterOnRecord DEF Later
        <3> HIDE DEF x
        <3>2. Later(voice, x)
            BY <2>5, <3>1, LaterTwice
        <3>3. Gives(x, Heeded(x, a, MarkAsked(a).version))
            BY <3>2, PendStays, ResponseHeeded DEF AuthorityInv, Later
        <3>. QED  BY <3>2, <3>3, TakesTwice DEF Gives, Later
    <2> HIDE DEF x
    <2>9. Gives(voice, made)
        BY <2>6, <2>7, <2>8
    <2> HIDE DEF made
    <2>. QED  BY <2>1, <2>9, AuthorityGiven
<1>4. CASE PlaybackIsInferred(a)
    <2> DEFINE x == [voice EXCEPT !.calls = PlaybackInferred(@, a)]
               made == Heeded(x, a, intake.version + 1)
    <2>1. voice' = made.voice /\ pend' = made.pend /\ inbox' = inbox
        BY <1>4 DEF PlaybackIsInferred
    <2>2. Later(voice, x)
        BY CyclePlayed, CallsMove DEF AuthorityInv, SpeechInv, Shaped
    <2> HIDE DEF x
    <2>3. Gives(x, made)
        BY <2>2, PendStays, ResponseHeeded DEF AuthorityInv, Later
    <2> HIDE DEF made
    <2>4. Gives(voice, made)
        BY <2>2, <2>3, TakesTwice DEF Gives, Later
    <2>. QED  BY <2>1, <2>4, AuthorityGiven
<1>5. CASE ActTimesOut(a)
    <2> DEFINE v == Ingest(voice, a, "timedout")
    <2>1. voice' = HardSeal(v, pend) /\ pend' = NoPend /\ inbox' = inbox
        BY <1>5 DEF ActTimesOut
    <2>2. Later(voice, v)
        BY LaterIngested DEF AuthorityInv
    <2> HIDE DEF v
    <2>3. Later(v, HardSeal(v, pend))
        BY <2>2, PendStays, LaterHardSealed DEF AuthorityInv, Later, PendFits
    <2>. QED  BY <2>1, <2>2, <2>3, LaterTwice, AuthorityLater
<1>6. ASSUME NEW e \in {"tts", "playout"}, ResponseBound(a, e) PROVE AuthorityInv' /\ Takes(voice, voice')
    <2> DEFINE v == Ingest(voice, a, e)
               audio == [v EXCEPT !.acts[a].audio = TRUE]
               playout == [v EXCEPT !.acts[a].playout = TRUE]
    <2>1. /\ inbox' = inbox
          /\ \/ voice' = HardSeal(v, pend) /\ pend' = NoPend
             \/ voice' \in {audio, playout} /\ Speakable(v, a) /\ pend' = [pend EXCEPT !.stage = e]
        BY <1>6 DEF ResponseBound
    <2>2. Later(voice, v)
        BY LaterIngested DEF AuthorityInv
    <2> HIDE DEF v
    <2>3. Later(v, HardSeal(v, pend))
        BY <2>2, PendStays, LaterHardSealed DEF AuthorityInv, Later, PendFits
    <2>4. Speakable(v, a) => Later(v, audio) /\ Later(v, playout)
        BY <2>2, LaterBound DEF Later, Speakable, Live
    <2> HIDE DEF audio, playout
    <2>. QED  BY <2>1, <2>2, <2>3, <2>4, LaterTwice, AuthorityLater
<1>7. ASSUME NEW e, PlayoutBroken(a, e) PROVE AuthorityInv' /\ Takes(voice, voice')
    <2>1. voice' = Ingest(voice, a, e) /\ pend' = pend /\ inbox' = inbox
        BY <1>7 DEF PlayoutBroken
    <2>2. Later(voice, voice')
        BY <2>1, LaterIngested DEF AuthorityInv
    <2>. QED  BY <2>1, <2>2, AuthorityLater
<1>. QED  BY <1>1, <1>2, <1>3, <1>4, <1>5, <1>6, <1>7

-----------------------------------------------------------------------------
LEMMA ClosedLater == ASSUME NEW v, SpeechInv(v), FailsClosed(v) PROVE Later(v, voice')
<1> DEFINE failed == IF ctl.batch = <<>> THEN v ELSE IngestAll(v, ctl.batch, "failed")
           sealed == SealVoice(failed)
<1>1. voice' = Retire(sealed, ctl.batch)
    BY DEF FailsClosed
<1>2. Later(v, failed)
    BY LaterIngestedAll, LaterSame
<1> HIDE DEF failed
<1>3. Later(failed, sealed)
    BY <1>2, LaterVoiceSealed DEF Later
<1> HIDE DEF sealed
<1>4. Later(sealed, Retire(sealed, ctl.batch))
    BY <1>3, LaterUntracked DEF Later
<1>. QED  BY <1>1, <1>2, <1>3, <1>4, LaterTwice

LEMMA AuthorityOfCycle ==
    ASSUME AuthorityInv, NEW c, CycleGoesOn(voice.calls, c), CycleMoves(c) PROVE AuthorityInv' /\ Takes(voice, voice')
<1>1. voice' = [voice EXCEPT !.calls = c] /\ pend' = pend /\ inbox' = inbox \cup NewIntents(c)
    BY DEF CycleMoves
<1>2. Later(voice, voice')
    BY <1>1, CallsMove DEF AuthorityInv
<1>3. \A i \in NewIntents(c) : i.kind # "none"
    BY DEF NewIntents, CycleGoesOn
<1>. QED  BY <1>1, <1>2, <1>3, PendStays DEF AuthorityInv, Later

LEMMA AuthorityOfSilence ==
    ASSUME AuthorityInv,
           TimePasses \/ CallerAsksForTime \/ CallerNeedsFallback \/ (\E timer \in TimerReceipts : TimerFires(timer))
    PROVE  AuthorityInv' /\ Takes(voice, voice')
<1>1. DOMAIN voice.calls = CycleFields
    BY DEF AuthorityInv, SpeechInv, Shaped
<1>2. CASE TimePasses
    <2> DEFINE x == IF voice.calls.clock = "ahead" THEN "due" ELSE "past"
               d == [voice.calls EXCEPT !.clock = x]
    <2>1. voice' = [voice EXCEPT !.calls = d] /\ pend' = pend /\ inbox' = inbox
        BY <1>2 DEF TimePasses, AuthorityInv, SpeechInv, Shaped
    <2>2. CycleGoesOn(voice.calls, d)
        BY <1>1 DEF CycleGoesOn, CycleFields
    <2> HIDE DEF d
    <2>3. Later(voice, voice')
        BY <2>1, <2>2, CallsMove DEF AuthorityInv
    <2>. QED  BY <2>1, <2>3, AuthorityLater
<1>3. CASE CallerAsksForTime
    BY <1>1, <1>3, CycleAsked, AuthorityOfCycle DEF CallerAsksForTime
<1>4. CASE CallerNeedsFallback
    BY <1>1, <1>4, CycleAsked, AuthorityOfCycle DEF CallerNeedsFallback
<1>5. ASSUME NEW timer, TimerFires(timer) PROVE AuthorityInv' /\ Takes(voice, voice')
    BY <1>1, <1>5, CycleTimed, AuthorityOfCycle DEF TimerFires
<1>. QED  BY <1>2, <1>3, <1>4, <1>5

LEMMA AuthorityOfPreparation ==
    ASSUME AuthorityInv, NEW i, PrepareAct(i) PROVE AuthorityInv' /\ Takes(voice, voice')
<1> DEFINE kinds == <<i.kind>>
           batch == NewBatch(voice, 1)
           b == batch[1]
           r == ReserveBatch(voice, kinds, i.turn, 0, 0)
           said == AuthorizeText(r, batch)
           d == IntentConsumed(said.calls, i, b)
           consumed == [said EXCEPT !.calls = d]
           ready == Ingest(consumed, b, "authorized")
           w == IF IntentFits(said.calls, i) THEN Ingest(ready, b, "failed") ELSE said
<1>1. /\ i \in inbox /\ inbox' = inbox \ {i} /\ HasRoom(1) /\ pend' = pend
      /\ \/ FailsClosed(voice)
         \/ CanPermit(ready, b) /\ voice' = Permit(ready, b)
         \/ voice' = Retire(SealVoice(w), batch)
    BY DEF PrepareAct, ActKind
<1>2. Len(kinds) = 1 /\ Len(kinds) \in Nat \ {0} /\ Cardinality(Allocated(voice)) + Len(kinds) <= MaxActs
      /\ \A n \in 1..Len(kinds) : kinds[n] # "none"
    BY <1>1 DEF AuthorityInv, HasRoom
<1>3. Reserves(voice, r, batch)
    <2> HIDE DEF kinds
    <2>. QED  BY <1>2, BatchReserved DEF AuthorityInv
<1>4. b \in ActsOf(batch) /\ \A a \in ActsOf(batch) : a \in Acts /\ voice.acts[a].kind = "none"
    <2> HIDE DEF kinds
    <2>. QED  BY <1>2, BatchIs DEF AuthorityInv
<1> HIDE DEF kinds, batch, r
<1>5. Later(r, said) /\ said.adapter = voice.adapter
    BY <1>3, LaterAuthorized DEF Reserves
<1>6. said.acts[b].cancelled = r.acts[b].cancelled
    <2>1. b \in Acts /\ Shaped(r)
        BY <1>3, <1>4 DEF Reserves, SpeechInv
    <2>2. said.acts[b] = [r.acts[b] EXCEPT !.authorized = TRUE]
        BY <1>4, <2>1 DEF AuthorizeText, Shaped
    <2>. QED  BY <2>1, <2>2 DEF Shaped, ActFields
<1> HIDE DEF said, b
<1>7. Later(said, consumed) /\ consumed.adapter = voice.adapter /\ consumed.acts = said.acts
    <2>1. CycleGoesOn(said.calls, d)
        BY <1>5, CycleConsumed DEF Later, SpeechInv, Shaped
    <2> HIDE DEF d
    <2>. QED  BY <1>5, <2>1, CallsMove DEF Later
<1> HIDE DEF consumed, d
<1>8. Later(consumed, ready) /\ ready.adapter = voice.adapter
    BY <1>7, LaterIngested DEF Later
<1>9. ready.acts[b].cancelled = said.acts[b].cancelled
    <2>1. b \in Acts /\ Shaped(consumed)
        BY <1>4, <1>7 DEF Later, SpeechInv
    <2>2. ready.acts[b] \in {consumed.acts[b], [consumed.acts[b] EXCEPT !.line = "authorized"]}
        BY <2>1, IngestIs
    <2>. QED  BY <1>7, <2>1, <2>2 DEF Shaped, ActFields
<1> HIDE DEF ready
<1>10. Later(r, ready) /\ Later(r, said)
    BY <1>5, <1>7, <1>8, LaterTwice
<1>11. PendFits(r, pend)
    BY <1>3 DEF AuthorityInv, PendFits, Reserves, Allocated
<1>12. \A j \in inbox' : j.kind # "none"
    BY <1>1 DEF AuthorityInv
<1>13. CASE FailsClosed(voice)
    <2>1. Later(voice, voice')
        BY <1>13, ClosedLater DEF AuthorityInv
    <2>. QED  BY <1>1, <1>12, <2>1, PendStays DEF AuthorityInv, Later
<1>14. CASE CanPermit(ready, b) /\ voice' = Permit(ready, b)
    <2>1. b \in Acts /\ ~ready.acts[b].cancelled /\ ready.acts[b].kind # "none"
        BY <1>3, <1>4, <1>6, <1>9, <1>10 DEF Reserves, Later, Allocated
    <2>2. SpeechInv(voice') /\ Takes(ready, voice') /\ voice'.acts = ready.acts
          /\ voice'.adapter.permitted = ready.adapter.permitted \cup {b}
        BY <1>10, <1>14, <2>1, PermitGiven DEF Later
    <2>3. Takes(voice, voice')
        BY <1>3, <1>10, <2>2, TakesTwice DEF Reserves, Later
    <2>4. PendFits(ready, pend) /\ b \notin ActsOf(pend.batch)
        BY <1>3, <1>4, <1>10, <1>11, PendStays DEF Reserves, AuthorityInv, PendFits
    <2>5. PendFits(voice', pend)
        BY <2>2, <2>4 DEF PendFits
    <2>. QED  BY <1>1, <1>12, <2>2, <2>3, <2>5 DEF AuthorityInv
<1>15. CASE voice' = Retire(SealVoice(w), batch)
    <2>1. Later(r, w)
        <3>1. Later(ready, Ingest(ready, b, "failed"))
            BY <1>10, LaterIngested DEF Later
        <3>. QED  BY <1>10, <3>1, LaterTwice
    <2> HIDE DEF w
    <2>2. Later(w, SealVoice(w))
        BY <2>1, LaterVoiceSealed DEF Later
    <2>3. Later(SealVoice(w), Retire(SealVoice(w), batch))
        BY <2>2, LaterUntracked DEF Later
    <2>4. Later(r, voice')
        BY <1>15, <2>1, <2>2, <2>3, LaterTwice
    <2>5. PendFits(voice', pend) /\ SpeechInv(voice') /\ Takes(voice, voice')
        BY <1>3, <1>11, <2>4, PendStays, TakesTwice DEF Reserves, Later
    <2>. QED  BY <1>1, <1>12, <2>5 DEF AuthorityInv
<1>. QED  BY <1>1, <1>13, <1>14, <1>15

LEMMA AuthorityOfSilenceActs ==
    ASSUME AuthorityInv,
           (\E e \in {"confirmed", "tts", "playout", "transport", "heard"} : SilenceActDrifts(e) \/ SilenceActAdvances(e))
           \/ SilenceActTransported \/ SilenceActHeard
    PROVE  AuthorityInv' /\ Takes(voice, voice')
<1> DEFINE a == SilenceAct
<1>1. ASSUME NEW e, SilenceActDrifts(e) PROVE AuthorityInv' /\ Takes(voice, voice')
    <2> DEFINE v == Ingest(voice, a, e)
    <2>1. FailsClosed(v) /\ pend' = pend /\ inbox' = inbox
        BY <1>1 DEF SilenceActDrifts
    <2>2. Later(voice, v)
        BY LaterIngested DEF AuthorityInv
    <2> HIDE DEF v
    <2>3. Later(v, voice')
        BY <2>1, <2>2, ClosedLater DEF Later
    <2>. QED  BY <2>1, <2>2, <2>3, LaterTwice, AuthorityLater
<1>2. ASSUME NEW e \in {"confirmed", "tts", "playout", "transport", "heard"}, SilenceActAdvances(e)
      PROVE  AuthorityInv' /\ Takes(voice, voice')
    <2> DEFINE v == Ingest(voice, a, e)
               confirmed == [v EXCEPT !.adapter.confirmed = @ \cup {a}]
               audio == [v EXCEPT !.acts[a].audio = TRUE]
               playout == [v EXCEPT !.acts[a].playout = TRUE]
    <2>1. /\ pend' = pend /\ inbox' = inbox
          /\ \/ voice' = v
             \/ FailsClosed(v)
             \/ voice' \in {confirmed, audio, playout} /\ Speakable(v, a)
        <3>1. e \in {"confirmed", "tts", "playout"}
            BY <1>2 DEF SilenceActAdvances
        <3>. QED  BY <1>2, <3>1 DEF SilenceActAdvances
    <2>2. Later(voice, v)
        BY LaterIngested DEF AuthorityInv
    <2> HIDE DEF v
    <2>3. FailsClosed(v) => Later(v, voice')
        BY <2>2, ClosedLater DEF Later
    <2>4. Speakable(v, a) => Later(v, audio) /\ Later(v, playout) /\ Later(v, confirmed)
        BY <2>2, LaterBound, LaterConfirmed DEF Later, Speakable, Live
    <2> HIDE DEF audio, playout, confirmed
    <2>. QED  BY <2>1, <2>2, <2>3, <2>4, LaterTwice, AuthorityLater
<1>3. CASE SilenceActTransported
    <2> DEFINE v == Ingest(voice, a, "transport")
               d == TransportResolved(v.calls, a)
    <2>1. /\ pend' = pend /\ inbox' = inbox
          /\ voice' = v \/ FailsClosed(v) \/ voice' = [v EXCEPT !.calls = d]
        BY <1>3 DEF SilenceActTransported
    <2>2. Later(voice, v)
        BY LaterIngested DEF AuthorityInv
    <2> HIDE DEF v
    <2>3. FailsClosed(v) => Later(v, voice')
        BY <2>2, ClosedLater DEF Later
    <2>4. Later(v, [v EXCEPT !.calls = d])
        BY <2>2, CycleTransported, CallsMove DEF Later, SpeechInv, Shaped
    <2> HIDE DEF d
    <2>. QED  BY <2>1, <2>2, <2>3, <2>4, LaterTwice, AuthorityLater
<1>4. CASE SilenceActHeard
    <2> DEFINE v == Ingest(voice, a, "heard")
               d == PlaybackObserved(v.calls, a)
               w == [v EXCEPT !.calls = d]
               x == RetirePermit(w, a)
               y == RecordHeard(x, a)
    <2>1. /\ pend' = pend /\ inbox' = inbox
          /\ \/ voice' = v
             \/ FailsClosed(w)
             \/ voice' = Retire(y, ctl.batch) /\ Speakable(v, a)
        BY <1>4 DEF SilenceActHeard
    <2>2. Later(voice, v)
        BY LaterIngested DEF AuthorityInv
    <2> HIDE DEF v
    <2>3. Later(v, w) /\ w.acts = v.acts
        BY <2>2, CyclePlayed, CallsMove DEF Later, SpeechInv, Shaped
    <2> HIDE DEF d, w
    <2>4. FailsClosed(w) => Later(w, voice')
        BY <2>3, ClosedLater DEF Later
    <2>5. Later(w, x) /\ x.acts = w.acts
        BY <2>3, LaterPermitRetired DEF Later
    <2> HIDE DEF x
    <2>6. Speakable(v, a) => Later(x, y) /\ Later(y, Retire(y, ctl.batch))
        BY <2>3, <2>5, LaterOnRecord, LaterUntracked DEF Later, Speakable, Live
    <2> HIDE DEF y
    <2>. QED  BY <2>1, <2>2, <2>3, <2>4, <2>5, <2>6, LaterTwice, AuthorityLater
<1>. QED  BY <1>1, <1>2, <1>3, <1>4

LEMMA AuthorityOfSessions ==
    ASSUME AuthorityInv,
           CallEnds \/ TransactionAborts \/ SilenceAborts \/ CallerAtBoundary \/ SessionRetired \/ SessionResumes
           \/ SessionReestablished \/ (\E to \in {"lost", "away"} : SessionBreaks(to))
    PROVE  AuthorityInv' /\ Takes(voice, voice')
<1>1. CASE CallEnds
    <2> DEFINE d == Terminalized(voice.calls, ctl.terminal)
               v == [voice EXCEPT !.calls = d]
               w == CloseAdapter(v)
    <2>1. pend' = pend /\ inbox' = inbox /\ (FailsClosed(voice) \/ voice' = SilenceAll(w))
        BY <1>1 DEF CallEnds
    <2>2. Later(voice, v)
        BY CycleConsumed, CallsMove DEF AuthorityInv, SpeechInv, Shaped
    <2> HIDE DEF v
    <2>3. Later(v, w) /\ w.adapter.permitted = {}
        BY <2>2, LaterAdapters DEF Later
    <2> HIDE DEF w
    <2>4. Later(w, SilenceAll(w))
        BY <2>3, LaterSilencedAll DEF Later
    <2>5. FailsClosed(voice) => Later(voice, voice')
        BY ClosedLater DEF AuthorityInv
    <2>. QED  BY <2>1, <2>2, <2>3, <2>4, <2>5, LaterTwice, AuthorityLater
<1>2. CASE TransactionAborts
    <2> DEFINE v == IF pend = NoPend THEN voice ELSE HardSeal(voice, pend)
    <2>1. voice' = SealVoice(v) /\ pend' = NoPend /\ inbox' = inbox
        BY <1>2 DEF TransactionAborts
    <2>2. Later(voice, v)
        BY LaterHardSealed, LaterSame DEF AuthorityInv, PendFits
    <2> HIDE DEF v
    <2>3. Later(v, SealVoice(v))
        BY <2>2, LaterVoiceSealed DEF Later
    <2>. QED  BY <2>1, <2>2, <2>3, LaterTwice, AuthorityLater
<1>3. CASE SilenceAborts
    <2>1. pend' = pend /\ inbox' = inbox /\ FailsClosed(voice)
        BY <1>3 DEF SilenceAborts
    <2>2. Later(voice, voice')
        BY <2>1, ClosedLater DEF AuthorityInv
    <2>. QED  BY <2>1, <2>2, AuthorityLater
<1>4. CASE CallerAtBoundary
    <2> DEFINE v == [voice EXCEPT !.calls = Cancelled(@)]
               w == CloseAdapter(v)
               gone == {voice.calls.question}
    <2>1. pend' = pend /\ inbox' = inbox /\ voice' = Silence(w, gone)
        BY <1>4 DEF CallerAtBoundary
    <2>2. Later(voice, v)
        BY LaterSealed DEF AuthorityInv
    <2> HIDE DEF v
    <2>3. Later(v, w) /\ w.adapter.permitted = {}
        BY <2>2, LaterAdapters DEF Later
    <2> HIDE DEF w
    <2>4. Later(voice, w)
        BY <2>2, <2>3, LaterTwice
    <2>5. \A a \in gone \cap Acts : w.acts[a].kind # "none"
        BY <2>4 DEF AuthorityInv, SpeechInv, SpeechFits, Later, Allocated
    <2>6. Later(w, Silence(w, gone))
        BY <2>3, <2>5, LaterSilenced DEF Later
    <2>. QED  BY <2>1, <2>4, <2>6, LaterTwice, AuthorityLater
<1>5. CASE SessionRetired
    <2> DEFINE v == [voice EXCEPT !.calls = Sealed(@)]
               s == Silence(v, Unheard(pend))
               silent == FailAll(s, Unheard(pend))
               w == Retire(silent, pend.batch)
               x == HardSeal(voice, pend)
    <2>1. pend' = NoPend /\ inbox' = inbox /\ voice' \in {SilenceAll(v), SilenceAll(w), SilenceAll(x)}
        BY <1>5 DEF SessionRetired
    <2>2. voice.adapter.permitted = {}
        BY <1>5 DEF SessionRetired, AuthorityInv, SpeechInv, SpeechFits
    <2>3. Later(voice, v) /\ v.acts = voice.acts /\ v.adapter = voice.adapter
        BY LaterSealed DEF AuthorityInv
    <2>4. Later(voice, x)
        BY LaterHardSealed DEF AuthorityInv, PendFits
    <2> HIDE DEF v, x
    <2>5. Later(v, s)
        BY <2>2, <2>3, LaterSilenced DEF AuthorityInv, PendFits, Unheard, Later
    <2> HIDE DEF s
    <2>6. Later(s, silent)
        BY <2>5, LaterFailed DEF Later
    <2> HIDE DEF silent
    <2>7. Later(silent, w)
        BY <2>6, LaterUntracked DEF Later
    <2> HIDE DEF w
    <2>8. Later(voice, w)
        BY <2>3, <2>5, <2>6, <2>7, LaterTwice
    <2>9. \A y \in {v, w, x} : Later(voice, y) /\ y.adapter.permitted = {}
        BY <2>2, <2>3, <2>4, <2>8 DEF Later
    <2>10. \A y \in {v, w, x} : Later(y, SilenceAll(y))
        BY <2>9, LaterSilencedAll DEF Later
    <2>11. Later(voice, voice')
        BY <2>1, <2>9, <2>10, LaterTwice
    <2>. QED  BY <2>1, <2>11, AuthorityLater
<1>6. CASE SessionResumes
    <2>1. pend' = pend /\ inbox' = inbox /\ voice' = Reopened(voice) /\ ~voice.adapter.open /\ ~voice.adapter.closed
        BY <1>6 DEF SessionResumes
    <2>. QED  BY <2>1, LaterAdapters, AuthorityLater DEF AuthorityInv
<1>7. CASE SessionReestablished
    <2>1. pend' = pend /\ inbox' = inbox /\ voice' = CloseAdapter(voice)
        BY <1>7 DEF SessionReestablished
    <2>. QED  BY <2>1, LaterAdapters, AuthorityLater DEF AuthorityInv
<1>8. ASSUME NEW to, SessionBreaks(to) PROVE AuthorityInv' /\ Takes(voice, voice')
    <2>1. pend' = pend /\ inbox' = inbox /\ voice' = RevokePermits(voice)
        BY <1>8 DEF SessionBreaks
    <2>. QED  BY <2>1, LaterAdapters, AuthorityLater DEF AuthorityInv
<1>. QED  BY <1>1, <1>2, <1>3, <1>4, <1>5, <1>6, <1>7, <1>8

LEMMA AuthorityStays == ASSUME AuthorityInv, UNCHANGED bakeoff PROVE AuthorityInv' /\ Takes(voice, voice')
<1>1. voice' = voice /\ pend' = pend /\ inbox' = inbox
    BY DEF bakeoff
<1>. QED  BY <1>1, LaterSame, AuthorityLater DEF AuthorityInv

LEMMA AuthorityStep == AuthorityInv /\ BakeoffNext => AuthorityInv' /\ Takes(voice, voice')
<1> SUFFICES ASSUME AuthorityInv, BakeoffNext PROVE AuthorityInv' /\ Takes(voice, voice')
    OBVIOUS
<1>1. ASSUME voice' = voice, pend' = pend, inbox' = inbox PROVE AuthorityInv' /\ Takes(voice, voice')
    BY <1>1, LaterSame, AuthorityLater DEF AuthorityInv
<1>2. ASSUME NEW command, TurnHeard(command) PROVE AuthorityInv' /\ Takes(voice, voice')
    BY <1>1, <1>2 DEF TurnHeard
<1>3. ASSUME NEW r, ReceiptRefused(r) PROVE AuthorityInv' /\ Takes(voice, voice')
    BY <1>1, <1>3 DEF ReceiptRefused, Consumed
<1>. QED  BY <1>2, <1>3, AuthorityOfTurns, AuthorityOfResponses, AuthorityOfSilence, AuthorityOfPreparation, AuthorityOfSilenceActs,
             AuthorityOfSessions DEF BakeoffNext

\* What AuthorityIsNotRegained says of a step.
LEMMA AuthorityTaken ==
    ASSUME AuthorityInv, BakeoffNext \/ UNCHANGED bakeoff
    PROVE  /\ voice.adapter.closed => voice'.adapter.closed /\ voice'.adapter.permitted = {} /\ ~voice'.adapter.open
           /\ voice.calls.phase = "terminated" => voice'.calls.phase = "terminated"
           /\ \A a \in Acts : voice.acts[a].cancelled =>
                  /\ voice'.acts[a].cancelled /\ a \notin voice'.adapter.permitted
                  /\ voice'.acts[a].audio = voice.acts[a].audio /\ voice'.acts[a].playout = voice.acts[a].playout
                  /\ voice'.acts[a].ordinal = voice.acts[a].ordinal
<1>1. SpeechFits(voice') /\ Takes(voice, voice')
    BY AuthorityStep, AuthorityStays DEF AuthorityInv, SpeechInv
<1>. QED  BY <1>1 DEF SpeechFits, Takes

-----------------------------------------------------------------------------
(* The choice of a language ends once.                                      *)

ChoiceEnded ==
    /\ "phase" \in DOMAIN choice
    /\ choice.phase = "terminal" => prompt # "speaking"
    /\ receipt => choice.phase = "terminal" /\ closed /\ pair = 0 /\ transaction = "idle"

LEMMA ChoiceStarts == Choice!ChoiceInit => ChoiceEnded
    BY DEF Choice!ChoiceInit, ChoiceEnded

LEMMA TerminalIs == ASSUME NEW c, "phase" \in DOMAIN c PROVE Choice!Terminal(c).phase = "terminal" /\ "phase" \in DOMAIN Choice!Terminal(c)
    BY DEF Choice!Terminal

LEMMA ChoiceStep ==
    ASSUME ChoiceEnded, Choice!ChoiceNext
    PROVE  /\ ChoiceEnded'
           /\ choice.phase = "terminal" => choice'.phase = "terminal"
<1> DEFINE Goes == "phase" \in DOMAIN choice' /\ (choice'.phase = "terminal" => prompt' # "speaking")
                   /\ (choice.phase = "terminal" => choice'.phase = "terminal")
           Sealing == (receipt => receipt' /\ closed' /\ pair' = 0 /\ transaction' = "idle") /\ receipt' = receipt
           Goal == ChoiceEnded' /\ (choice.phase = "terminal" => choice'.phase = "terminal")
<1>g. Goes /\ Sealing => Goal
    BY DEF ChoiceEnded
<1>s. Choice!Sealed # "speaking" /\ (prompt # "speaking" => Choice!Sealed = prompt)
    BY DEF Choice!Sealed
<1>t. Choice!Terminalizes => Goes
    BY <1>s, TerminalIs DEF Choice!Terminalizes, ChoiceEnded
<1>u. UNCHANGED <<choice, prompt>> => Goes
    BY DEF ChoiceEnded
<1>p. ASSUME NEW s PROVE "phase" \in DOMAIN Choice!Passed(s) /\ Choice!Passed(s).phase = choice.phase
    BY DEF Choice!Passed, ChoiceEnded
<1>1. ASSUME NEW turn, NEW kind, Choice!Ingests(turn, kind) PROVE Goal
    BY <1>1, <1>g, <1>u DEF Choice!Ingests, ChoiceEnded
<1>2. CASE Choice!Prepares
    <2>1. choice.phase = "available" /\ ~receipt /\ UNCHANGED receipt
        BY <1>2 DEF Choice!Prepares, ChoiceEnded
    <2>2. "phase" \in DOMAIN choice' /\ (choice'.phase = "presenting" \/ prompt' = "sealed")
        BY <1>2, TerminalIs DEF Choice!Prepares, ChoiceEnded
    <2>3. choice'.phase = "terminal" => prompt' # "speaking"
        BY <2>2
    <2>. QED  BY <1>g, <2>1, <2>2, <2>3
<1>3. CASE Choice!Plays
    BY <1>3, <1>g, <1>u DEF Choice!Plays, ChoiceEnded
<1>4. ASSUME NEW s, Choice!Observes(s) PROVE Goal
    <2>1. choice.phase = "presenting" /\ ~receipt /\ UNCHANGED receipt
        BY <1>4 DEF Choice!Observes, ChoiceEnded
    <2>2. Choice!GivesUp \/ ("phase" \in DOMAIN choice' /\ choice'.phase \in {"cleanup", "presenting"})
        BY <1>4, <2>1 DEF Choice!Observes, ChoiceEnded
    <2>. QED  BY <1>g, <1>t, <2>1, <2>2 DEF Choice!GivesUp
<1>5. CASE Choice!Completes
    <2>1. ~receipt /\ UNCHANGED receipt
        BY <1>5 DEF Choice!Completes, ChoiceEnded
    <2>2. Choice!GivesUp \/ ("phase" \in DOMAIN choice' /\ choice'.phase = "window" /\ choice.phase = "cleanup")
        BY <1>5 DEF Choice!Completes, ChoiceEnded
    <2>. QED  BY <1>g, <1>t, <2>1, <2>2 DEF Choice!GivesUp
<1>6. ASSUME NEW s, Choice!Starts(s) \/ Choice!Ends(s) PROVE Goal
    <2>1. UNCHANGED <<pair, transaction, closed, receipt>>
        BY <1>6 DEF Choice!Starts, Choice!Ends, Choice!HandsOver
    <2>2. Goes
        <3>1. \/ Choice!Terminalizes
              \/ choice' = Choice!Terminal(Choice!Passed(s)) /\ prompt' = Choice!Sealed
              \/ choice.phase # "terminal" /\ "phase" \in DOMAIN choice' /\ choice'.phase \in {"open", "finalizing"}
              \/ choice' = Choice!Passed(s) /\ UNCHANGED prompt
            BY <1>6, <1>p DEF Choice!Starts, Choice!Ends, Choice!Waiting
        <3>. QED  BY <1>p, <1>s, <1>t, <3>1, TerminalIs DEF ChoiceEnded
    <2>. QED  BY <1>g, <2>1, <2>2 DEF ChoiceEnded
<1>7. ASSUME NEW s, Choice!Mints(s) PROVE Goal
    <2> DEFINE c == IF Choice!Expired THEN Choice!Terminal(choice) ELSE choice
    <2>1. ~receipt /\ UNCHANGED receipt
        BY <1>7 DEF Choice!Mints, Choice!Admits, ChoiceEnded
    <2>2. "phase" \in DOMAIN c /\ (choice.phase = "terminal" => c.phase = "terminal")
        BY TerminalIs DEF ChoiceEnded
    <2>3. PICK qualified \in BOOLEAN : choice' = c \/ choice' = Choice!Staged(c, s, qualified)
        BY <1>7 DEF Choice!Mints
    <2>4. prompt' = IF choice'.phase \in {"pending", "terminal"} THEN Choice!Sealed ELSE prompt
        BY <1>7 DEF Choice!Mints
    <2> HIDE DEF c
    <2>5. "phase" \in DOMAIN Choice!Staged(c, s, qualified)
          /\ (c.phase = "terminal" => Choice!Staged(c, s, qualified).phase = "terminal")
        <3> DEFINE passed == [c EXCEPT !.cursor = s]
        <3>1. "phase" \in DOMAIN passed /\ passed.phase = c.phase
            BY <2>2
        <3>2. \/ Choice!Staged(c, s, qualified) \in {c, passed, Choice!Terminal(c), Choice!Terminal(passed)}
              \/ /\ c.phase # "terminal"
                 /\ "phase" \in DOMAIN Choice!Staged(c, s, qualified)
            <4> DEFINE late == \/ c.phase \in Choice!Waiting /\ log[s].at > c.response
                               \/ c.phase = "open" /\ log[s].at > c.activity
                               \/ c.phase = "finalizing" /\ log[s].at > c.finalization
                       anew == c.phase \in {"presenting"} \cup Choice!Waiting
                       staged == [passed EXCEPT !.phase = "pending", !.turn = log[s].turn, !.final = s,
                                     !.activity = IF anew THEN log[s].at + MaxSpeechMs ELSE @,
                                     !.finalization = IF c.phase = "finalizing" THEN @ ELSE log[s].at + FinalizationMs]
            <4>1. Choice!Staged(c, s, qualified) =
                      IF Choice!Gap THEN Choice!Terminal(c)
                      ELSE IF ~Choice!IsNext(s) THEN c
                      ELSE IF c.turn \notin {0, log[s].turn} THEN passed
                      ELSE IF (anew \/ c.phase \in {"open", "finalizing"}) /\ ~late /\ qualified THEN staged
                      ELSE Choice!Terminal(passed)
                BY DEF Choice!Staged
            <4>2. "phase" \in DOMAIN staged
                BY <3>1
            <4>3. anew \/ c.phase \in {"open", "finalizing"} => c.phase # "terminal"
                BY DEF Choice!Waiting
            <4> HIDE DEF staged, late, anew, passed
            <4>. QED  BY <4>1, <4>2, <4>3
        <3> HIDE DEF passed
        <3>. QED  BY <2>2, <3>1, <3>2, TerminalIs
    <2>6. Goes
        BY <1>s, <2>2, <2>3, <2>4, <2>5 DEF ChoiceEnded
    <2>. QED  BY <1>g, <2>1, <2>6
<1>8. CASE Choice!AdvancesTime
    <2>1. choice.phase # "terminal" /\ UNCHANGED <<pair, transaction, closed, receipt>>
        BY <1>8 DEF Choice!AdvancesTime, Choice!Waiting
    <2>2. \E x : (choice' = Choice!Terminal([choice EXCEPT !.cursor = x]) /\ prompt' = Choice!Sealed)
                 \/ choice' = [choice EXCEPT !.cursor = x]
        BY <1>8 DEF Choice!AdvancesTime
    <2>3. \A x : "phase" \in DOMAIN [choice EXCEPT !.cursor = x] /\ [choice EXCEPT !.cursor = x].phase = choice.phase
        BY DEF ChoiceEnded
    <2>4. Goes
        BY <1>s, <2>1, <2>2, <2>3, TerminalIs
    <2>. QED  BY <1>g, <2>1, <2>4 DEF ChoiceEnded
<1>9. CASE Choice!Consumes
    <2>1. ~receipt /\ UNCHANGED receipt
        BY <1>9 DEF Choice!Consumes, ChoiceEnded
    <2>2. Choice!Terminalizes \/ ("phase" \in DOMAIN choice' /\ choice'.phase = "consumed" /\ choice.phase = "pending")
        BY <1>9 DEF Choice!Consumes, Choice!GivesUp, Choice!PairIsGood, ChoiceEnded
    <2>. QED  BY <1>g, <1>t, <2>1, <2>2
<1>10. CASE Choice!Extracts
    <2>1. ~receipt /\ UNCHANGED receipt
        BY <1>10 DEF Choice!Extracts, ChoiceEnded
    <2>2. Choice!Terminalizes \/ ("phase" \in DOMAIN choice' /\ choice'.phase = "validated" /\ choice.phase = "consumed")
        BY <1>10 DEF Choice!Extracts, Choice!Fails, ChoiceEnded
    <2>. QED  BY <1>g, <1>t, <2>1, <2>2
<1>11. CASE Choice!Commits
    <2>1. ~receipt /\ UNCHANGED receipt /\ (Choice!Terminalizes \/ UNCHANGED <<choice, prompt>>)
        BY <1>11 DEF Choice!Commits, Choice!Fails, ChoiceEnded
    <2>. QED  BY <1>g, <1>t, <1>u, <2>1
<1>12. CASE Choice!Publishes
    <2>1. ~receipt /\ UNCHANGED receipt
        BY <1>12 DEF Choice!Publishes, ChoiceEnded
    <2>2. Choice!Terminalizes \/ ("phase" \in DOMAIN choice' /\ choice'.phase = "recovered" /\ choice.phase = "validated")
        BY <1>12 DEF Choice!Publishes, ChoiceEnded
    <2>. QED  BY <1>g, <1>t, <2>1, <2>2
<1>13. CASE Choice!Aborts
    <2>1. ~receipt /\ UNCHANGED receipt /\ (Choice!Terminalizes \/ UNCHANGED <<choice, prompt>>)
        BY <1>13 DEF Choice!Aborts, ChoiceEnded
    <2>. QED  BY <1>g, <1>t, <1>u, <2>1
<1>14. CASE Choice!Issues
    BY <1>14 DEF Choice!Issues, ChoiceEnded
<1>15. CASE Choice!TimePasses
    BY <1>15, <1>g, <1>u DEF Choice!TimePasses, ChoiceEnded
<1>. QED  BY <1>1, <1>2, <1>3, <1>4, <1>5, <1>6, <1>7, <1>8, <1>9, <1>10, <1>11, <1>12, <1>13, <1>14, <1>15 DEF Choice!ChoiceNext

-----------------------------------------------------------------------------
(* The desk.                                                                *)

DeskInv ==
    /\ SmsInv /\ EnrollInv /\ LinkInv /\ CaseInv /\ AuthorityInv /\ ChoiceEnded
    /\ part = "demo call" => CallInv
    /\ part = "breaker" => BreakerInv

LEMMA DeskStarts == DeskInit => DeskInv
    BY SmsStarts, EnrollStarts, LinkStarts, CaseStarts, CallStarts, BreakerStarts, AuthorityStarts, ChoiceStarts DEF DeskInit, DeskInv

LEMMA DemoStays ==
    ASSUME DeskInv, UNCHANGED <<part, demo>>
    PROVE  (part' = "demo call" => CallInv') /\ (part' = "breaker" => BreakerInv')
<1>1. UNCHANGED <<part, now, calls, breaker, demoFaults>>
    BY DEF demo
<1>2. DemoTypeOK => DemoTypeOK'
    BY <1>1 DEF DemoTypeOK, calls, breaker
<1>3. part = "demo call" => CallInv'
    BY <1>1, <1>2, CallsStay DEF DeskInv, CallInv
<1>4. part = "breaker" => BreakerInv'
    BY <1>1, <1>2, BreakerStays DEF DeskInv, BreakerInv
<1>. QED  BY <1>1, <1>3, <1>4

LEMMA DeskStep == DeskInv /\ [DeskNext]_desk => DeskInv'
<1> SUFFICES ASSUME DeskInv, [DeskNext]_desk PROVE DeskInv'
    OBVIOUS
<1>1. ASSUME UNCHANGED sms PROVE SmsInv'
    BY <1>1, SmsStays DEF DeskInv, sms, SmsVars
<1>2. ASSUME UNCHANGED enrollment PROVE EnrollInv'
    BY <1>2, EnrollStays DEF DeskInv, enrollment, EnrollVars
<1>3. ASSUME UNCHANGED link PROVE LinkInv'
    BY <1>3, LinkStays DEF DeskInv, link, LinkVars
<1>4. ASSUME UNCHANGED triage PROVE CaseInv'
    BY <1>4, CaseStays DEF DeskInv
<1>a. ASSUME UNCHANGED bakeoff PROVE AuthorityInv'
    BY <1>a, AuthorityStays DEF DeskInv
<1>c. ASSUME UNCHANGED language PROVE ChoiceEnded'
    BY <1>c DEF DeskInv, ChoiceEnded, language
<1>5. CASE part = "case" /\ TriageNext /\ UNCHANGED <<part, enrollment, sms, link, demo, bakeoff, language, cdvars>>
    BY <1>a, <1>c, <1>1, <1>2, <1>3, <1>5, CaseStep, DemoStays DEF DeskInv
<1>6. CASE part = "sender" /\ Sender!EnrollNext /\ UNCHANGED <<part, triage, sms, link, demo, bakeoff, language, cdvars>>
    BY <1>a, <1>c, <1>1, <1>3, <1>4, <1>6, EnrollStep, DemoStays DEF DeskInv
<1>7. CASE part = "texts" /\ Sms!SmsNext /\ UNCHANGED <<part, triage, enrollment, link, demo, bakeoff, language, cdvars>>
    BY <1>a, <1>c, <1>2, <1>3, <1>4, <1>7, SmsStep, DemoStays DEF DeskInv
<1>8. CASE part = "estimate" /\ Link!EstimateNext /\ UNCHANGED <<part, triage, enrollment, sms, demo, bakeoff, language, cdvars>>
    BY <1>a, <1>c, <1>1, <1>2, <1>4, <1>8, LinkStep, DemoStays DEF DeskInv
<1>9. CASE part = "demo call" /\ CallNext /\ UNCHANGED <<part, triage, enrollment, sms, link, bakeoff, language, cdvars>>
    BY <1>a, <1>c, <1>1, <1>2, <1>3, <1>4, <1>9, CallGoesOn DEF DeskInv
<1>10. CASE part = "breaker" /\ BreakerNext /\ UNCHANGED <<part, triage, enrollment, sms, link, bakeoff, language, cdvars>>
    BY <1>a, <1>c, <1>1, <1>2, <1>3, <1>4, <1>10, BreakerGoesOn DEF DeskInv
<1>11. CASE part = "bakeoff" /\ BakeoffNext /\ UNCHANGED <<part, triage, enrollment, sms, link, demo, language, cdvars>>
    BY <1>1, <1>2, <1>3, <1>4, <1>c, <1>11, AuthorityStep, DemoStays DEF DeskInv
<1>12. CASE part = "language" /\ Choice!ChoiceNext /\ UNCHANGED <<part, triage, enrollment, sms, link, demo, bakeoff, cdvars>>
    BY <1>1, <1>2, <1>3, <1>4, <1>a, <1>12, ChoiceStep, DemoStays DEF DeskInv
<1>13. CASE UNCHANGED <<part, triage, enrollment, sms, link, demo, bakeoff, language>>
    BY <1>1, <1>2, <1>3, <1>4, <1>a, <1>c, <1>13, DemoStays DEF DeskInv
<1>. QED  BY <1>5, <1>6, <1>7, <1>8, <1>9, <1>10, <1>11, <1>12, <1>13 DEF DeskNext, desk

\* What the product keeps of a case, of an enrolment, of the texts, of an estimate and of the public demo is true
\* (DeskIsOnRecord; visual_diagnosis_state.py, sms_sender_enrollment.py, db/owner_sms.py, api/estimates.py,
\* services/public_demo.py).
THEOREM DeskHolds == DeskSpec => []DeskIsOnRecord
<1>1. DeskInv => DeskIsOnRecord
    BY SmsHolds, EnrollHolds, LinkHolds, CaseHolds, CallHolds, BreakerHolds DEF DeskInv, DeskIsOnRecord, CallInv
<1>. QED  BY <1>1, DeskStarts, DeskStep, PTL DEF DeskSpec

\* What an analysis, a refused text, a restored account and an ended call settled is not undone by whatever comes
\* late (DecisionsStand; VisualDiagnosisCase.apply, send_owner_sms, record_refusal, _claim_upload,
\* trip_public_demo_breaker, hard_terminalize, issue_terminal_receipt).
THEOREM DecisionsHold == DeskSpec => DecisionsStand
<1> DEFINE Output == ~NoOutput => UNCHANGED <<status.analysis, resolved, assets>>
           Wanted == \A t \in Texts : nation = "CA" /\ texts[t].at # "send" /\ texts'[t].at = "send" =>
                         /\ owner.rev = texts[t].rev /\ owner.binding = texts[t].binding
                         /\ owner.enabled /\ ~owner.out /\ ~owner.held
           Overtaken == \A t \in Texts : t \in applied' \ applied => texts[t].rev = owner.rev
           Silenced ==
               /\ voice.adapter.closed => voice'.adapter.closed /\ voice'.adapter.permitted = {} /\ ~voice'.adapter.open
               /\ voice.calls.phase = "terminated" => voice'.calls.phase = "terminated"
               /\ \A a \in Acts : voice.acts[a].cancelled =>
                      /\ voice'.acts[a].cancelled /\ a \notin voice'.adapter.permitted
                      /\ voice'.acts[a].audio = voice.acts[a].audio /\ voice'.acts[a].playout = voice.acts[a].playout
                      /\ voice'.acts[a].ordinal = voice.acts[a].ordinal
           Kept == Link!Held(estimate) => /\ estimate'.media = estimate.media /\ estimate'.status # "processing"
                                          /\ estimate.state = "needs_attention" => estimate'.state = "needs_attention"
                                          /\ estimate'.state # None
           Restored == restored => account' = account
           Once == /\ choice.phase = "terminal" => choice'.phase = "terminal" /\ prompt' # "speaking"
                   /\ receipt => pair' = 0 /\ transaction' = "idle"
<1>1. DeskInv /\ [DeskNext]_desk => Output
    <2> SUFFICES ASSUME DeskInv, [DeskNext]_desk PROVE Output
        OBVIOUS
    <2>1. TriageNext \/ UNCHANGED triage
        BY DEF DeskNext, desk
    <2>. QED  BY <2>1, OutputStays DEF DeskInv
<1>2. DeskInv /\ [DeskNext]_desk => Wanted /\ Overtaken
    <2> SUFFICES ASSUME DeskInv, [DeskNext]_desk PROVE Wanted /\ Overtaken
        OBVIOUS
    <2>1. Sms!SmsNext \/ UNCHANGED sms
        BY DEF DeskNext, desk
    <2>2. CASE Sms!SmsNext
        BY <2>2, WantedStep, SupersededStep DEF DeskInv
    <2>3. CASE UNCHANGED sms
        BY <2>3 DEF sms
    <2>. QED  BY <2>1, <2>2, <2>3
<1>3. DeskInv /\ [DeskNext]_desk => Silenced
    <2> SUFFICES ASSUME DeskInv, [DeskNext]_desk PROVE Silenced
        OBVIOUS
    <2>1. BakeoffNext \/ UNCHANGED bakeoff
        BY DEF DeskNext, desk
    <2>. QED  BY <2>1, AuthorityTaken DEF DeskInv
<1>4. DeskInv /\ [DeskNext]_desk => Kept
    <2> SUFFICES ASSUME DeskInv, [DeskNext]_desk PROVE Kept
        OBVIOUS
    <2>1. Link!EstimateNext \/ UNCHANGED LinkVars
        BY DEF DeskNext, desk, link, LinkVars
    <2>. QED  BY <2>1, UncertainStep DEF DeskInv
<1>5. DeskInv /\ [DeskNext]_desk => Restored
    <2> SUFFICES ASSUME DeskInv, [DeskNext]_desk PROVE Restored
        OBVIOUS
    <2>1. (part = "breaker" /\ BreakerNext) \/ CallNext \/ UNCHANGED demo
        BY DEF DeskNext, desk
    <2>2. UNCHANGED breaker => UNCHANGED account
        BY DEF breaker
    <2>3. CallNext => UNCHANGED breaker
        <3>1. ASSUME NEW c, CallStep(c) PROVE UNCHANGED breaker
            BY <3>1 DEF CallStep, Rings, FallsBack, HangsUp, Reports, Acquires, Counts, GivesBack
        <3>2. ASSUME NEW s, StreamStep(s) PROVE UNCHANGED breaker
            BY <3>2 DEF StreamStep, Opens, Claims, Stops, Closes
        <3>3. Passes => UNCHANGED breaker
            BY DEF Passes
        <3>. QED  BY <3>1, <3>2, <3>3 DEF CallNext
    <2>4. UNCHANGED demo => UNCHANGED breaker
        BY DEF demo
    <2>. QED  BY <2>1, <2>2, <2>3, <2>4, RestoredStep DEF DeskInv
<1>6. DeskInv /\ [DeskNext]_desk => Once
    <2> SUFFICES ASSUME DeskInv, [DeskNext]_desk PROVE Once
        OBVIOUS
    <2>1. Choice!ChoiceNext \/ UNCHANGED language
        BY DEF DeskNext, desk
    <2>2. CASE Choice!ChoiceNext
        <3>1. ChoiceEnded' /\ (choice.phase = "terminal" => choice'.phase = "terminal")
            BY <2>2, ChoiceStep DEF DeskInv
        <3>2. receipt => receipt'
            BY <2>2 DEF Choice!ChoiceNext, Choice!Ingests, Choice!Observes, Choice!Starts, Choice!Ends, Choice!HandsOver, Choice!Mints,
               Choice!Prepares, Choice!Plays, Choice!Completes, Choice!AdvancesTime, Choice!Consumes, Choice!Extracts, Choice!Commits,
               Choice!Publishes, Choice!Aborts, Choice!Issues, Choice!TimePasses
        <3>. QED  BY <3>1, <3>2 DEF ChoiceEnded
    <2>3. CASE UNCHANGED language
        BY <2>3 DEF language, DeskInv, ChoiceEnded
    <2>. QED  BY <2>1, <2>2, <2>3
<1>7. DeskSpec => OutputIsFinal
    BY <1>1, DeskStarts, DeskStep, PTL DEF DeskSpec, OutputIsFinal
<1>8. DeskSpec => Sms!CanadianTextIsWanted /\ Sms!LateRefusalIsSuperseded
    BY <1>2, DeskStarts, DeskStep, PTL DEF DeskSpec, Sms!CanadianTextIsWanted, Sms!LateRefusalIsSuperseded
<1>9. DeskSpec => AuthorityIsNotRegained
    BY <1>3, DeskStarts, DeskStep, PTL DEF DeskSpec, AuthorityIsNotRegained
<1>10. DeskSpec => Link!UncertainTextIsKept
    BY <1>4, DeskStarts, DeskStep, PTL DEF DeskSpec, Link!UncertainTextIsKept
<1>11. DeskSpec => RestoredStaysRestored
    BY <1>5, DeskStarts, DeskStep, PTL DEF DeskSpec, RestoredStaysRestored
<1>12. DeskSpec => Choice!ChoiceEndsOnce
    BY <1>6, DeskStarts, DeskStep, PTL DEF DeskSpec, Choice!ChoiceEndsOnce
<1>. QED  BY <1>7, <1>8, <1>9, <1>10, <1>11, <1>12 DEF DecisionsStand
===============================================================================
