----------------------------- MODULE AccountProofs -----------------------------
(***************************************************************************)
(* What the account's run checks of its number and of its calendar grant,  *)
(* proved for every set of releases, purchases, operations, consent pages, *)
(* pieces of evidence and numbers, every choice of which of them meet, and *)
(* every bound on the failures. The Jobber connection is in JobberProofs.  *)
(***************************************************************************)
EXTENDS Account, FiniteSetTheorems, TLAPS

-----------------------------------------------------------------------------
(* The number.                                                             *)

\* A claim that somebody relies on names the number of the profile: whoever
\* writes the profile cancels a reservation, and is held back afterwards.
ClaimNamesProfile ==
    claim.state \in {"reserved", "deleting", "needs_attention"} =>
        claim.nonce \in Releases /\ claim.number = profile.number /\ profile.number # None

\* Past the point of no return a release owns the claim, of the number it read.
Committed(r) ==
    /\ claim.nonce = r /\ claim.state \in {"deleting", "needs_attention"}
    /\ claim.number = proc[r].number

CommittedOwns ==
    \A r \in Releases :
        /\ proc[r].at \in {"delete", "finalize"} => Committed(r)
        /\ proc[r].at = "hold" /\ proc[r].from = "deleting" => Committed(r)
        /\ proc[r].from \in {"reserved", "deleting"}
        /\ proc[r].at \notin {"delete", "finalize", "hold", "done"} => proc[r].from = "reserved"

\* A DELETE was sent only for a number that is gone from the profile, or is
\* on it under the claim of its release, who has left the step of deleting.
DeletedIsClaimed ==
    \A n \in Numbers, r \in Releases : r \in deletes[n] /\ profile.number = n =>
        Committed(r) /\ proc[r].number = n /\ proc[r].at # "delete"

\* A number that was bought and is not yet stored is nobody else's.
BoughtIsFresh ==
    \A p \in Purchases : proc[p].at = "store" =>
        /\ proc[p].number \in held /\ deletes[proc[p].number] = {} /\ profile.number # proc[p].number
        /\ \A q \in Purchases \ {p} : proc[q].at = "store" => proc[q].number # proc[p].number

\* Purchases and releases keep to their own steps.
OwnSteps ==
    /\ \A p \in Purchases : proc[p].at \in {"idle", "buy", "store", "done"} 
    /\ \A r \in Releases : proc[r].at \notin {"buy", "store"}

OneRelease == \A n \in Numbers : \A r, s \in deletes[n] : r = s

\* While writes are held back nothing clears what was kept of them.
HeldIsKept ==
    \A w \in Safety : answer[w] = "held" => claim.state = "needs_attention" /\ w \in deferred

AppliedIsKept ==
    \A w \in Safety : answer[w] = "applied" => profile.seen \cap (IF w \in Calls THEN Calls ELSE {w}) # {}

\* A worker's claim is on a profile without evidence, as was its last read.
WorkerIsQuiet ==
    \A r \in Releases :
        /\ Kind[r] = "worker" => proc[r].seen = {}
        /\ Kind[r] = "worker" /\ claim.nonce = r /\ claim.state \in {"reserved", "deleting", "needs_attention"} =>
              profile.seen = {}

NumberInv ==
    /\ TypeOK /\ ClaimNamesProfile /\ CommittedOwns /\ DeletedIsClaimed /\ BoughtIsFresh /\ OwnSteps
    /\ OneRelease /\ HeldIsKept /\ AppliedIsKept /\ WorkerIsQuiet

-----------------------------------------------------------------------------
USE DEF At, Goto, Record, Provider

\* A write of the profile keeps the types.
LEMMA UpdateTypes ==
    ASSUME TypeOK, NEW new \in [active : BOOLEAN, number : {None} \cup Numbers, seen : SUBSET Safety],
           NEW ws \in SUBSET Safety, apply_release_aware_contractor_update(new, ws)
    PROVE  /\ profile' \in [active : BOOLEAN, number : {None} \cup Numbers, seen : SUBSET Safety]
           /\ claim' \in Claim
           /\ deferred' \subseteq Safety
    BY DEF TypeOK, Claim, States, apply_release_aware_contractor_update, release_conflict_payload

LEMMA ChargeTypes ==
    ASSUME faults \in 0 .. MaxFaults, NEW outcome, Charge(outcome)
    PROVE  faults' \in 0 .. MaxFaults
    BY ReleaseAssumption DEF Charge, Fault

LEMMA FaultTypes ==
    ASSUME faults \in 0 .. MaxFaults, Fault
    PROVE  faults' \in 0 .. MaxFaults
    BY ReleaseAssumption DEF Fault

Run == [at : Places, number : {None} \cup Numbers, seen : SUBSET Safety, from : States]

LEMMA RunTypes ==
    ASSUME NEW runs \in [Procs -> Run], NEW p \in Procs, NEW to \in Places
    PROVE  /\ [runs EXCEPT ![p].at = to] \in [Procs -> Run]
           /\ \A n \in Numbers : [runs EXCEPT ![p].at = to, ![p].number = n] \in [Procs -> Run]
           /\ [runs EXCEPT ![p].at = to, ![p].from = "deleting"] \in [Procs -> Run]
    BY DEF Run, States

LEMMA ClaimTypes ==
    ASSUME NEW r \in Releases, NEW n \in {None} \cup Numbers
    PROVE  [state |-> "reserved", nonce |-> r, number |-> n, aged |-> FALSE] \in Claim
    BY DEF Claim, States

LEMMA NumberTypes == TypeOK /\ [Next]_vars => TypeOK'
<1> SUFFICES ASSUME TypeOK, [Next]_vars PROVE TypeOK'
    OBVIOUS
<1> USE DEF TypeOK
<1>1. ASSUME NEW w \in Safety, WriteEvidence(w) PROVE TypeOK'
    <2>1. [profile EXCEPT !.seen = @ \cup {w}] \in [active : BOOLEAN, number : {None} \cup Numbers, seen : SUBSET Safety]
        OBVIOUS
    <2>2. Told \in {"none", "applied", "held", "unsure"}
        BY DEF Told
    <2>. QED  BY <1>1, <2>1, <2>2, UpdateTypes DEF WriteEvidence
<1>2. ASSUME NEW w \in Safety, record_inbound_call_evidence(w) PROVE TypeOK'
    <2>1. [profile EXCEPT !.seen = @ \cup {w}] \in [active : BOOLEAN, number : {None} \cup Numbers, seen : SUBSET Safety]
        OBVIOUS
    <2>2. Told \in {"none", "applied", "held", "unsure"}
        BY DEF Told
    <2>. QED  BY <1>2, <2>1, <2>2, UpdateTypes, FaultTypes DEF record_inbound_call_evidence
<1>3. ASSUME NEW r \in Releases, ReleaseStep(r) PROVE TypeOK'
    <2>0. r \in Procs /\ Kind[r] \in {"release", "deletion", "sweep", "worker"}
        BY ReleaseAssumption DEF Procs
    <2> USE <2>0 DEF Places, States
    <2>1. CASE fresh_release_candidate(r)
        BY <2>1 DEF fresh_release_candidate
    <2>2. CASE SendNotice(r)
        BY <2>2, ChargeTypes DEF SendNotice
    <2>3. CASE PostNoticeRead(r)
        BY <2>3 DEF PostNoticeRead
    <2>4. CASE BoundaryRead(r)
        BY <2>4 DEF BoundaryRead
    <2>5. ASSUME NEW next \in {"start", "list"}, claim_strict_number_release(r, next), UNCHANGED Provider
          PROVE  TypeOK'
        <3>1. claim' \in Claim
            <4>1. claim' = claim \/ claim' = [state |-> "reserved", nonce |-> r, number |-> profile.number, aged |-> FALSE]
                BY <2>5 DEF claim_strict_number_release
            <4>. QED  BY <4>1, ClaimTypes
        <3>2. proc' \in [Procs -> Run]
            BY <2>5 DEF claim_strict_number_release, Run
        <3>. QED  BY <2>5, <3>1, <3>2, ChargeTypes DEF claim_strict_number_release, Run
    <2>6. CASE StrictClaim(r) \/ ReleaseReserve(r)
        BY <2>6, <2>5 DEF StrictClaim, ReleaseReserve
    <2>7. CASE deactivate_contractor(r)
        BY <2>7 DEF deactivate_contractor
    <2>8. CASE Deactivate(r)
        <3>1. [profile EXCEPT !.active = FALSE] \in [active : BOOLEAN, number : {None} \cup Numbers, seen : SUBSET Safety]
            OBVIOUS
        <3>. QED  BY <2>8, <3>1, UpdateTypes DEF Deactivate
    <2>9. CASE ReleaseRead(r)
        BY <2>9 DEF ReleaseRead
    <2>10. CASE ListNumbers(r)
        BY <2>10, ChargeTypes DEF ListNumbers
    <2>11. CASE begin_strict_number_release_delete(r)
        <3>1. PICK outcome \in {"ok", "failed", "lost"} :
                  /\ Charge(outcome)
                  /\ \E may \in BOOLEAN :
                       /\ claim' = IF outcome = "failed" \/ ~Owns(r, "reserved") THEN claim
                                   ELSE [claim EXCEPT !.state = IF may THEN "deleting" ELSE "cancelled"]
                       /\ proc' = [proc EXCEPT ![r].at = IF outcome # "ok" \/ ~may THEN "done"
                                     ELSE IF proc[r].number \in held THEN "delete" ELSE "finalize",
                                     ![r].from = "deleting"]
            BY <2>11 DEF begin_strict_number_release_delete, Owns, release_precondition
        <3>2. claim' \in Claim
            BY <3>1 DEF Claim
        <3>3. proc' \in [Procs -> Run]
            <4>1. proc \in [Procs -> Run]
                BY DEF Run
            <4>2. PICK to \in Places : proc' = [proc EXCEPT ![r].at = to, ![r].from = "deleting"]
                BY <3>1
            <4>3. [proc EXCEPT ![r].at = to, ![r].from = "deleting"] \in [Procs -> Run]
                BY <4>1, RunTypes
            <4>. QED  BY <4>2, <4>3
        <3>. QED  BY <2>11, <3>1, <3>2, <3>3, ChargeTypes DEF begin_strict_number_release_delete, Run
    <2>12. CASE DeleteNumber(r)
        <3>1. proc' \in [Procs -> Run]
            <4>1. proc \in [Procs -> Run]
                BY DEF Run
            <4>2. PICK to \in Places : proc' = [proc EXCEPT ![r].at = to]
                BY <2>12 DEF DeleteNumber
            <4>3. [proc EXCEPT ![r].at = to] \in [Procs -> Run]
                BY <4>1, RunTypes
            <4>. QED  BY <4>2, <4>3
        <3>2. deletes' \in [Numbers -> SUBSET Releases]
            BY <2>12 DEF DeleteNumber
        <3>. QED  BY <2>12, <3>1, <3>2, ChargeTypes DEF DeleteNumber, Run
    <2>13. CASE finalize_strict_number_release(r)
        <3>1. /\ profile' \in [active : BOOLEAN, number : {None} \cup Numbers, seen : SUBSET Safety]
              /\ claim' \in Claim /\ deferred' \subseteq Safety
            <4>1. CASE UNCHANGED <<profile, claim, deferred>>
                BY <4>1
            <4>2. CASE /\ profile' = [profile EXCEPT !.number = None, !.active = @ /\ Kind[r] = "release"]
                       /\ claim' = NoClaim /\ UNCHANGED deferred
                BY <4>2 DEF NoClaim, Claim
            <4>3. CASE hold_release_claim /\ UNCHANGED profile
                BY <4>3 DEF hold_release_claim, Claim
            <4>. QED  BY <2>13, <4>1, <4>2, <4>3 DEF finalize_strict_number_release
        <3>2. proc' \in [Procs -> Run]
            BY <2>13 DEF finalize_strict_number_release, Run
        <3>. QED  BY <2>13, <3>1, <3>2, ChargeTypes DEF finalize_strict_number_release, Run
    <2>14. CASE hold_strict_number_release(r)
        BY <2>14, ChargeTypes DEF hold_strict_number_release, hold_release_claim, Claim
    <2>. QED  BY <1>3, <2>1, <2>2, <2>3, <2>4, <2>6, <2>7, <2>8, <2>9, <2>10, <2>11, <2>12, <2>13, <2>14
              DEF ReleaseStep
<1>4. ASSUME NEW p \in Purchases, provision_twilio_number(p) \/ BuyNumber(p) \/ StoreNumber(p) PROVE TypeOK'
    <2>0. p \in Procs
        BY DEF Procs
    <2> USE <2>0 DEF Places
    <2>1. CASE provision_twilio_number(p)
        BY <2>1 DEF provision_twilio_number
    <2>2. CASE BuyNumber(p)
        <3>1. proc' \in [Procs -> Run]
            <4>1. proc \in [Procs -> Run] /\ "store" \in Places
                BY DEF Run
            <4>2. PICK n \in Numbers : proc' = [proc EXCEPT ![p].at = "store", ![p].number = n]
                BY <2>2 DEF BuyNumber
            <4>3. [proc EXCEPT ![p].at = "store", ![p].number = n] \in [Procs -> Run]
                BY <4>1, RunTypes
            <4>. QED  BY <4>2, <4>3
        <3>. QED  BY <2>2, <3>1 DEF BuyNumber, Run
    <2>3. CASE StoreNumber(p)
        <3>1. [profile EXCEPT !.number = proc[p].number]
                \in [active : BOOLEAN, number : {None} \cup Numbers, seen : SUBSET Safety]
            OBVIOUS
        <3>. QED  BY <2>3, <3>1, UpdateTypes DEF StoreNumber
    <2>. QED  BY <1>4, <2>1, <2>2, <2>3
<1>5. ASSUME NEW p \in Procs, Crash(p) PROVE TypeOK'
    BY <1>5, FaultTypes DEF Crash, Places
<1>6. CASE ReservationAges
    BY <1>6 DEF ReservationAges, Claim
<1>7. CASE UNCHANGED vars
    BY <1>7 DEF vars
<1>. QED  BY <1>1, <1>2, <1>3, <1>4, <1>5, <1>6, <1>7 DEF Next

NumberParts ==
    /\ ClaimNamesProfile /\ CommittedOwns /\ DeletedIsClaimed /\ BoughtIsFresh /\ OwnSteps
    /\ OneRelease /\ HeldIsKept /\ AppliedIsKept /\ WorkerIsQuiet

LEMMA NumberStep == NumberInv /\ TypeOK' /\ [Next]_vars => NumberParts'
<1> SUFFICES ASSUME TypeOK, NumberParts, TypeOK', [Next]_vars PROVE NumberParts'
    BY DEF NumberInv, NumberParts
<1>t. /\ proc \in [Procs -> Run] /\ deletes \in [Numbers -> SUBSET Releases] /\ answer \in [Safety -> {"none", "applied", "held", "unsure"}]
      /\ deferred \subseteq Safety /\ held \subseteq Numbers
      /\ claim \in Claim /\ profile \in [active : BOOLEAN, number : {None} \cup Numbers, seen : SUBSET Safety]
    BY DEF TypeOK, Run
<1>n. None \notin Numbers /\ None \notin Releases /\ Releases \cap Purchases = {} /\ Calls \subseteq Safety
    BY ReleaseAssumption
<1> USE <1>t, <1>n DEF NumberParts, Committed, ClaimNamesProfile, CommittedOwns, DeletedIsClaimed, BoughtIsFresh, OwnSteps, OneRelease, HeldIsKept, AppliedIsKept, WorkerIsQuiet, Procs, Claim
<1>1. ASSUME NEW w \in Safety, WriteEvidence(w) PROVE NumberParts'
    BY <1>1 DEF WriteEvidence, Told, apply_release_aware_contractor_update, release_conflict_payload, HeldStates
<1>2. ASSUME NEW w \in Safety, record_inbound_call_evidence(w) PROVE NumberParts'
    BY <1>2 DEF record_inbound_call_evidence, Told, apply_release_aware_contractor_update, release_conflict_payload, HeldStates
<1>3. ASSUME NEW r \in Releases, fresh_release_candidate(r) PROVE NumberParts'
    BY <1>3 DEF fresh_release_candidate, Eligible, Run
<1>4. ASSUME NEW r \in Releases, SendNotice(r) PROVE NumberParts'
    BY <1>4 DEF SendNotice, Run
<1>5. ASSUME NEW r \in Releases, PostNoticeRead(r) PROVE NumberParts'
    BY <1>5 DEF PostNoticeRead, Eligible, Run
<1>6. ASSUME NEW r \in Releases, BoundaryRead(r) PROVE NumberParts'
    BY <1>6 DEF BoundaryRead, Run
<1>7. ASSUME NEW r \in Releases, StrictClaim(r) \/ ReleaseReserve(r) PROVE NumberParts'
    BY <1>7 DEF StrictClaim, ReleaseReserve, claim_strict_number_release, reserved_claim_is_reclaimable, Run, release_precondition,
        same_strict_release_snapshot
<1>8. ASSUME NEW r \in Releases, deactivate_contractor(r) PROVE NumberParts'
    BY <1>8 DEF deactivate_contractor, Run
<1>9. ASSUME NEW r \in Releases, Deactivate(r) PROVE NumberParts'
    BY <1>9 DEF Deactivate, Run, apply_release_aware_contractor_update, release_conflict_payload, HeldStates
<1>10. ASSUME NEW r \in Releases, ReleaseRead(r) PROVE NumberParts'
    BY <1>10 DEF ReleaseRead, Run
<1>11. ASSUME NEW r \in Releases, ListNumbers(r) PROVE NumberParts'
    BY <1>11 DEF ListNumbers, Run
<1>12. ASSUME NEW r \in Releases, begin_strict_number_release_delete(r) PROVE NumberParts'
    BY <1>12 DEF begin_strict_number_release_delete, Owns, release_precondition, Run
<1>13. ASSUME NEW r \in Releases, DeleteNumber(r) PROVE NumberParts'
    BY <1>13 DEF DeleteNumber, Run
<1>14. ASSUME NEW r \in Releases, finalize_strict_number_release(r) PROVE NumberParts'
    <2>1. PICK to \in {"hold", "done"} : proc' = [proc EXCEPT ![r].at = to]
        BY <1>14 DEF finalize_strict_number_release
    <2>2. proc[r].at = "finalize" /\ Committed(r) /\ UNCHANGED <<answer, held, deletes>>
        BY <1>14 DEF finalize_strict_number_release
    <2>3. /\ \A q \in Procs : proc'[q] = IF q = r THEN [proc[r] EXCEPT !.at = to] ELSE proc[q]
          /\ proc'[r].at = to /\ proc'[r].number = proc[r].number /\ proc'[r].from = proc[r].from
          /\ \A q \in Releases : proc'[q].seen = proc[q].seen
        BY <2>1 DEF Run
    <2>4. CASE /\ profile' = [profile EXCEPT !.number = None, !.active = @ /\ Kind[r] = "release"]
               /\ claim' = NoClaim /\ UNCHANGED deferred /\ claim.state = "deleting"
        <3>1. profile'.number = None /\ profile'.seen = profile.seen
            BY <2>4
        <3>2. to = "done"
            BY <2>1, <2>4, <3>1, <1>14 DEF finalize_strict_number_release, Run
        <3>3. CommittedOwns'
            BY <2>1, <2>2, <2>3, <2>4, <3>2 DEF Run
        <3>. QED  BY <2>2, <2>3, <2>4, <3>1, <3>2, <3>3 DEF NoClaim
    <2>5. CASE hold_release_claim /\ UNCHANGED profile /\ claim.state = "deleting"
        BY <2>2, <2>3, <2>5 DEF hold_release_claim
    <2>6. CASE UNCHANGED <<profile, claim, deferred>>
        BY <2>2, <2>3, <2>6
    <2>. QED  BY <2>4, <2>5, <2>6, <1>14 DEF finalize_strict_number_release, Owns
<1>15. ASSUME NEW r \in Releases, hold_strict_number_release(r) PROVE NumberParts'
    BY <1>15 DEF hold_strict_number_release, Owns, hold_release_claim, Run
<1>16. ASSUME NEW p \in Purchases, provision_twilio_number(p) PROVE NumberParts'
    BY <1>16 DEF provision_twilio_number, Run
<1>17. ASSUME NEW p \in Purchases, BuyNumber(p) PROVE NumberParts'
    BY <1>17 DEF BuyNumber, Run
<1>18. ASSUME NEW p \in Purchases, StoreNumber(p) PROVE NumberParts'
    BY <1>18 DEF StoreNumber, Run, apply_release_aware_contractor_update, release_conflict_payload, HeldStates
<1>19. ASSUME NEW p \in Procs, Crash(p) PROVE NumberParts'
    BY <1>19 DEF Crash, Run
<1>20. ASSUME ReservationAges PROVE NumberParts'
    BY <1>20 DEF ReservationAges
<1>21. ASSUME UNCHANGED vars PROVE NumberParts'
    BY <1>21 DEF vars
<1>. QED  BY <1>1, <1>2, <1>3, <1>4, <1>5, <1>6, <1>7, <1>8, <1>9, <1>10, <1>11, <1>12, <1>13, <1>14, <1>15, <1>16, <1>17, <1>18, <1>19, <1>20, <1>21 DEF Next, ReleaseStep

\* NumberInv of the initial states and of every step.
LEMMA NumberInitial == Init => NumberInv
<1> SUFFICES ASSUME Init PROVE NumberInv
    OBVIOUS
<1>1. PICK n \in {None} \cup Numbers, before \in SUBSET Calls :
          /\ profile = [active |-> TRUE, number |-> n, seen |-> before]
          /\ held \in SUBSET ({n} \ {None})
    BY DEF Init
<1>p. /\ proc \in [Procs -> [at : {"idle", "done"}, number : {None}, seen : {{}}, from : {"reserved"}]]
      /\ \A p \in Procs : proc[p].at \in {"idle", "done"} /\ proc[p].seen = {}
    BY DEF Init
<1>2. TypeOK
    BY <1>1, <1>p, ReleaseAssumption DEF Init, TypeOK, Claim, NoClaim, States, Places
<1>3. ClaimNamesProfile /\ HeldIsKept /\ AppliedIsKept /\ WorkerIsQuiet
    BY <1>p DEF Init, NoClaim, WorkerIsQuiet, Procs, ClaimNamesProfile, HeldIsKept, AppliedIsKept
<1>4. CommittedOwns /\ BoughtIsFresh /\ OwnSteps
    BY <1>p DEF Init, CommittedOwns, BoughtIsFresh, OwnSteps, Procs
<1>5. DeletedIsClaimed /\ OneRelease
    BY DEF Init, DeletedIsClaimed, OneRelease
<1>. QED  BY <1>2, <1>3, <1>4, <1>5 DEF NumberInv

LEMMA NumberInductive == NumberInv /\ [Next]_vars => NumberInv'
    BY NumberTypes, NumberStep DEF NumberInv, NumberParts

LEMMA NumberIsSafe == NumberInv => NumberIsReleasedOnce
<1> SUFFICES ASSUME NumberInv PROVE NumberIsReleasedOnce
    OBVIOUS
<1>1. OnePathDeletes
    <2> SUFFICES ASSUME NEW n \in Numbers PROVE Cardinality(deletes[n]) <= 1
        BY DEF OnePathDeletes
    <2>1. CASE deletes[n] = {}
        BY <2>1, FS_EmptySet
    <2>2. ASSUME NEW r \in deletes[n] PROVE Cardinality(deletes[n]) <= 1
        <3>1. deletes[n] = {r}
            BY <2>2 DEF NumberInv, OneRelease
        <3>. QED  BY <3>1, FS_Singleton
    <2>. QED  BY <2>1, <2>2
<1>2. GoneNumberIsFlagged
    BY DEF NumberInv, TypeOK, DeletedIsClaimed, Committed, GoneNumberIsFlagged
<1>3. EvidenceIsKept
    BY DEF NumberInv, HeldIsKept, AppliedIsKept, EvidenceIsKept
<1>. QED  BY <1>1, <1>2, <1>3 DEF NumberInv, NumberIsReleasedOnce

\* However many releases, sweeps, workers and purchases race, and wherever they stop, one release
\* at most sends the DELETE of a number, the profile names no number that was handed back
\* without a claim on it, and no acknowledged evidence is lost (app/db/contractors.py,
\* app/services/number_release.py).
THEOREM NumberReleased == AccountSpec => []NumberIsReleasedOnce
<1>1. AccountInit => NumberInv
    BY NumberInitial DEF AccountInit
<1>2. NumberInv /\ [AccountNext]_<<part, vars, grantVars, jobberVars>> => NumberInv'
    BY NumberInductive DEF AccountNext
<1>. QED  BY <1>1, <1>2, NumberIsSafe, PTL DEF AccountSpec

\* Only DeleteNumber hands a number back, and it has the claim then.
LEMMA OnlyDeletesDelete ==
    ASSUME [Next]_vars, ~UNCHANGED deletes
    PROVE  \E r \in Releases : DeleteNumber(r)
    BY DEF Next, ReleaseStep, vars, WriteEvidence, record_inbound_call_evidence, fresh_release_candidate, SendNotice, PostNoticeRead, BoundaryRead, StrictClaim, deactivate_contractor, Deactivate, ReleaseRead, ReleaseReserve, ListNumbers, begin_strict_number_release_delete, finalize_strict_number_release, hold_strict_number_release, provision_twilio_number, BuyNumber, StoreNumber, Crash, ReservationAges

\* A worker that hands a number back finds it quiet.
LEMMA QuietStep ==
    ASSUME NumberInv, [Next]_vars, NEW n \in Numbers, NEW r \in Releases, r \in deletes'[n] \ deletes[n], Kind[r] = "worker"
    PROVE  profile.seen = {}
<1>1. PICK s \in Releases : DeleteNumber(s)
    BY OnlyDeletesDelete
<1>2. s = r /\ proc[r].at = "delete"
    BY <1>1 DEF DeleteNumber, NumberInv, TypeOK
<1>3. Committed(r)
    BY <1>2 DEF NumberInv, CommittedOwns
<1>. QED  BY <1>3 DEF NumberInv, WorkerIsQuiet, Committed
-----------------------------------------------------------------------------
(* The calendar grant.                                                     *)

\* Each run keeps to the steps of its operation.
KeepsToItsSteps ==
    \A p \in Handlers :
        /\ handler[p].at \in {"preflight", "persist", "quarantine"} => HandlerKind[p] = "refresh"
        /\ handler[p].at \in {"read", "acquire", "start", "http", "answer"} => HandlerKind[p] \in {"refresh", "business", "patch"}
        /\ handler[p].at = "terminalize" => HandlerKind[p] \in {"business", "patch"}
        /\ handler[p].at = "uncertain" => HandlerKind[p] = "patch"
        /\ handler[p].at \in {"begin", "exchange", "connect"} => HandlerKind[p] = "connect"
        /\ handler[p].at \in {"revoke", "record", "finalize", "verify"} => HandlerKind[p] = "disconnect"
        /\ handler[p].at \in {"ask", "clear"} => HandlerKind[p] = "reconcile"
        /\ handler[p].at \notin {"consent", "consume"}

\* The parts of an intent come and go together, and what is stored is connected.
GrantIsWhole ==
    /\ grant.intent.id = None =>
          /\ grant.intent.kind = "business" /\ grant.intent.phase = "reserved"
          /\ grant.bound = None /\ grant.alias = None
    /\ grant.connected <=> grant.cred # 0

\* Generations only grow: what was read, sent or recorded is not of a later one.
NothingIsAhead ==
    /\ grant.cred <= grant.gen
    /\ presented \subseteq 1 .. grant.gen
    /\ DOMAIN revocation \subseteq 0 .. grant.gen
    /\ \A p \in Handlers : handler[p].read.cred <= grant.gen /\ handler[p].read.gen <= grant.gen
    /\ \A p \in Handlers : handler[p].at \in {"acquire", "start", "http", "answer", "persist"} => handler[p].read.cred # 0

Refreshing == grant.intent.kind = "refresh" /\ grant.intent.phase = "provider_request_started"

\* A pair that was sent, or is about to be, is fenced as long as it is stored.
PairsAreFenced ==
    /\ grant.cred \in presented => grant.quarantined \/ Refreshing
    /\ \A p \in Handlers :
          HandlerKind[p] = "refresh" /\ handler[p].at = "http" /\ handler[p].read.cred = grant.cred =>
              grant.quarantined \/ Refreshing

\* The grant is bound to the rescheduling p, and no clock gives it up.
Held(p) ==
    /\ grant.intent.id = p /\ grant.intent.kind = "business" /\ grant.intent.phase # "reserved"
    /\ grant.bound = p /\ grant.alias = None /\ ~grant.quarantined

PatchesAreHeld ==
    /\ \A p \in Handlers :
          /\ HandlerKind[p] # "patch" => moved[p] = "none"
          /\ moved[p] \in {"flying", "moved"} => Held(p) /\ handler[p].at \in {"answer", "uncertain", "done", "gone"}
          /\ moved[p] = "known" => handler[p].at \in {"answer", "uncertain", "terminalize", "done", "gone"}
          /\ HandlerKind[p] = "patch" =>
                /\ handler[p].at = "start" /\ grant.intent.id = p => grant.bound = p
                /\ handler[p].at = "http" => Held(p)
                /\ handler[p].at = "terminalize" => moved[p] \in {"refused", "known"}
                /\ handler[p].at = "answer" => moved[p] # "none"
          /\ HandlerKind[p] = "reconcile" /\ handler[p].at = "clear" => moved[Asks[p]] = "known"

\* A request that uses the stored pair is announced by its intent, or is overtaken by quarantine.
RequestsAreAnnounced ==
    \A p \in Handlers :
        /\ handler[p].at \in {"http", "answer", "exchange"} /\ moved[p] # "known" /\ handler[p].read = Grant!Now =>
              grant.quarantined \/ (grant.intent.id = p /\ grant.intent.phase = "provider_request_started")

\* A consent run has read the lifecycle that its page was opened in.
ConsentFits ==
    \A p \in Handlers : handler[p].at \in {"begin", "exchange", "connect"} =>
        handler[p].read = states[PageOf[p]].read /\ states[PageOf[p]].at # "none"

\* What the records r hold of generation g.
Entry(r, g) == IF g \in DOMAIN r THEN r[g] ELSE Grant!NoRevocation

\* An outcome on record stays, and is claimed by one run until it is learnt.
RecordsStand ==
    /\ \A g \in DOMAIN revocation :
          Entry(revocation, g).final =>
              /\ Entry(revocation, g).audit = Entry(revocation, g).outbox
              /\ Entry(revocation, g).outbox \in Grant!TERMINAL_REVOCATION_STATUSES
    /\ \A p \in Handlers :
          /\ handler[p].at \in {"revoke", "record"} =>
                /\ Entry(revocation, handler[p].read.gen).claim = p
                /\ Entry(revocation, handler[p].read.gen).outbox = "provider_request_started"
          /\ handler[p].at = "record" => handler[p].result \in Grant!TERMINAL_REVOCATION_STATUSES
          /\ handler[p].at = "finalize" =>
                Entry(revocation, handler[p].read.gen).outbox \in Grant!TERMINAL_REVOCATION_STATUSES
          /\ HandlerKind[p] = "disconnect" =>
                /\ handler[p].tried => handler[p].at \in {"done", "gone"}
                /\ handler[p].tried =>
                      /\ Entry(revocation, handler[p].read.gen).outbox = handler[p].result
                      /\ handler[p].result \in Grant!TERMINAL_REVOCATION_STATUSES

GrantInv ==
    /\ Grant!TypeOK /\ KeepsToItsSteps /\ GrantIsWhole /\ NothingIsAhead /\ PairsAreFenced /\ PatchesAreHeld
    /\ RequestsAreAnnounced /\ ConsentFits /\ RecordsStand

GrantFields ==
    [connected : BOOLEAN, gen : Nat, epoch : Nat, cred : Nat, quarantined : BOOLEAN, intent : Grant!Intent,
     attempt : Grant!Intent, bound : {None} \cup Handlers, alias : {None} \cup Handlers]

HandlerRun == [at : Grant!Places, read : Grant!Read, tried : BOOLEAN, result : Grant!Outcomes]

HandlerKinds == {"refresh", "business", "patch", "connect", "disconnect", "reconcile"}

\* What the assumptions say of the grant's constants.
LEMMA GrantConstants ==
    /\ HandlerKind \in [Handlers -> HandlerKinds]
    /\ \A p \in Handlers : HandlerKind[p] = "reconcile" => Asks[p] \in Handlers /\ HandlerKind[Asks[p]] = "patch"
    /\ \A p \in Handlers : HandlerKind[p] = "connect" => PageOf[p] \in ConsentPages
    /\ None \notin Handlers
    /\ MaxGrantFaults \in Nat
    BY AccountAssumption DEF Grant!GrantAssumption, HandlerKinds

\* What the parser makes of a record (parse_provider_operation_intent).
LEMMA StatusReads ==
    ASSUME grant \in GrantFields
    PROVE  /\ Grant!Status = "absent" <=> ~grant.quarantined /\ grant.intent.id = None
           /\ Grant!Status = "valid" <=> ~grant.quarantined /\ grant.intent.id # None /\ Grant!Consistent(grant)
           /\ Grant!Status = "quarantined" <=> grant.quarantined /\ grant.attempt.id = None
           /\ Grant!Status = "quarantined_reauthorizing" <=> grant.quarantined /\ grant.attempt.id # None
<1>1. CASE grant.quarantined
    BY <1>1 DEF Grant!Status, Grant!parse_provider_operation_intent
<1>2. CASE ~grant.quarantined /\ grant.intent.id = None
    BY <1>2 DEF Grant!Status, Grant!parse_provider_operation_intent
<1>3. CASE ~grant.quarantined /\ grant.intent.id # None /\ Grant!Consistent(grant)
    BY <1>3 DEF Grant!Status, Grant!parse_provider_operation_intent
<1>4. CASE ~grant.quarantined /\ grant.intent.id # None /\ ~Grant!Consistent(grant)
    BY <1>4 DEF Grant!Status, Grant!parse_provider_operation_intent
<1>. QED  BY <1>1, <1>2, <1>3, <1>4

\* The writes of an intent keep its type.
LEMMA IntentTypes ==
    /\ Grant!NoIntent \in Grant!Intent
    /\ \A i \in Grant!Intent : /\ Grant!Started(i) \in Grant!Intent
                               /\ [i EXCEPT !.aged = TRUE] \in Grant!Intent
                               /\ [i EXCEPT !.phase = "provider_outcome_uncertain"] \in Grant!Intent
    /\ grant \in GrantFields => \A p \in Handlers : \A kind \in {"business", "refresh", "connect", "reconnect"} :
          Grant!Reserved(p, kind) \in Grant!Intent
    BY DEF Grant!NoIntent, Grant!Intent, Grant!Phases, Grant!Started, Grant!Reserved, GrantFields

\* So do the writes of a grant.
LEMMA FieldTypes ==
    ASSUME NEW g \in GrantFields
    PROVE  /\ Grant!Clear(g) \in GrantFields /\ Grant!Quarantine(g) \in GrantFields
           /\ \A i \in Grant!Intent : [g EXCEPT !.intent = i] \in GrantFields /\ [g EXCEPT !.attempt = i] \in GrantFields
           /\ \A i \in Grant!Intent, b \in {None} \cup Handlers, a \in {None} \cup Handlers :
                 [g EXCEPT !.intent = i, !.bound = b, !.alias = a] \in GrantFields
           /\ [Grant!Clear(g) EXCEPT !.cred = g.gen + 1, !.gen = g.gen + 1] \in GrantFields
           /\ [Grant!Clear(g) EXCEPT !.connected = FALSE, !.cred = 0, !.gen = g.gen + 1, !.epoch = g.epoch + 1] \in GrantFields
           /\ [Grant!Clear(g) EXCEPT !.connected = TRUE, !.cred = g.gen + 1, !.gen = g.gen + 1, !.epoch = g.epoch + 1,
                                     !.quarantined = FALSE, !.attempt = Grant!NoIntent] \in GrantFields
<1>0. Grant!NoIntent \in Grant!Intent
    BY IntentTypes
<1>1. Grant!Clear(g) \in GrantFields
    BY <1>0 DEF GrantFields, Grant!Clear
<1>2. Grant!Quarantine(g) \in GrantFields
    BY <1>0, <1>1 DEF GrantFields, Grant!Quarantine
<1>3. \A i \in Grant!Intent : [g EXCEPT !.intent = i] \in GrantFields /\ [g EXCEPT !.attempt = i] \in GrantFields
    BY DEF GrantFields
<1>4. \A i \in Grant!Intent, b \in {None} \cup Handlers, a \in {None} \cup Handlers :
          [g EXCEPT !.intent = i, !.bound = b, !.alias = a] \in GrantFields
    BY DEF GrantFields
<1>5. g.gen + 1 \in Nat /\ g.epoch + 1 \in Nat
    BY DEF GrantFields
<1>6. ASSUME NEW h \in GrantFields, NEW n \in Nat, NEW m \in Nat, NEW c \in Nat, NEW b \in BOOLEAN, NEW i \in Grant!Intent
      PROVE  /\ [h EXCEPT !.cred = n, !.gen = n] \in GrantFields
             /\ [h EXCEPT !.connected = b, !.cred = c, !.gen = n, !.epoch = m] \in GrantFields
             /\ [h EXCEPT !.connected = b, !.cred = c, !.gen = n, !.epoch = m, !.quarantined = FALSE, !.attempt = i] \in GrantFields
    BY DEF GrantFields
<1>. QED  BY <1>0, <1>1, <1>2, <1>3, <1>4, <1>5, <1>6

\* So do the writes of a run.
LEMMA HandlerReads ==
    ASSUME handler \in [Handlers -> HandlerRun], NEW p \in Handlers, NEW to \in Grant!Places, NEW r \in Grant!Read,
           handler' = [handler EXCEPT ![p].at = to, ![p].read = r]
    PROVE  handler' \in [Handlers -> HandlerRun]
    BY DEF HandlerRun

LEMMA HandlerTries ==
    ASSUME handler \in [Handlers -> HandlerRun], NEW p \in Handlers, NEW to \in Grant!Places, NEW t \in BOOLEAN,
           handler' = [handler EXCEPT ![p].at = to, ![p].tried = t]
    PROVE  handler' \in [Handlers -> HandlerRun]
    BY DEF HandlerRun

LEMMA HandlerConsents ==
    ASSUME handler \in [Handlers -> HandlerRun], NEW p \in Handlers, NEW to \in Grant!Places, NEW r \in Grant!Read, NEW t \in BOOLEAN,
           handler' = [handler EXCEPT ![p].at = to, ![p].read = r, ![p].tried = t]
    PROVE  handler' \in [Handlers -> HandlerRun]
    BY DEF HandlerRun

LEMMA HandlerResults ==
    ASSUME handler \in [Handlers -> HandlerRun], NEW p \in Handlers, NEW to \in Grant!Places, NEW o \in Grant!Outcomes,
           handler' = [handler EXCEPT ![p].at = to, ![p].result = o]
    PROVE  handler' \in [Handlers -> HandlerRun]
    BY DEF HandlerRun

LEMMA HandlerReports ==
    ASSUME handler \in [Handlers -> HandlerRun], NEW p \in Handlers, NEW to \in Grant!Places, NEW o \in Grant!Outcomes, NEW t \in BOOLEAN,
           handler' = [handler EXCEPT ![p].at = to, ![p].result = o, ![p].tried = t]
    PROVE  handler' \in [Handlers -> HandlerRun]
    BY DEF HandlerRun

LEMMA StepTypes ==
    ASSUME handler \in [Handlers -> HandlerRun], NEW p \in Handlers, NEW from, NEW to \in Grant!Places,
           Grant!Step(p, from, to)
    PROVE  handler' \in [Handlers -> HandlerRun]
    BY DEF Grant!Step, HandlerRun

LEMMA IntentWritten ==
    ASSUME grant \in GrantFields, NEW i \in Grant!Intent, grant' = [grant EXCEPT !.intent = i]
    PROVE  grant' \in GrantFields
    BY DEF GrantFields

LEMMA AttemptWritten ==
    ASSUME grant \in GrantFields, NEW i \in Grant!Intent, grant' = [grant EXCEPT !.attempt = i]
    PROVE  grant' \in GrantFields
    BY DEF GrantFields

LEMMA IntentReplaced ==
    ASSUME grant \in GrantFields, NEW i \in Grant!Intent, NEW b \in {None} \cup Handlers, NEW a \in {None} \cup Handlers, grant' = [grant EXCEPT !.intent = i, !.bound = b, !.alias = a]
    PROVE  grant' \in GrantFields
    BY DEF GrantFields

LEMMA ReadTypes ==
    ASSUME grant \in GrantFields
    PROVE  /\ grant.intent \in Grant!Intent /\ grant.attempt \in Grant!Intent /\ Grant!Now \in Grant!Read
           /\ grant.bound \in {None} \cup Handlers /\ grant.alias \in {None} \cup Handlers
    BY DEF GrantFields, Grant!Now, Grant!Read

LEMMA RecordTypes ==
    ASSUME DOMAIN revocation \subseteq Nat, revocation \in [DOMAIN revocation -> Grant!Revocation],
           NEW g \in Nat, NEW r \in Grant!Revocation
    PROVE  /\ DOMAIN Grant!Recorded(g, r) \subseteq Nat
           /\ Grant!Recorded(g, r) \in [DOMAIN Grant!Recorded(g, r) -> Grant!Revocation]
    BY DEF Grant!Recorded

LEMMA GrantTypes == Grant!TypeOK /\ [Grant!Next]_grantVars => Grant!TypeOK'
<1> SUFFICES ASSUME Grant!TypeOK, [Grant!Next]_grantVars PROVE Grant!TypeOK'
    OBVIOUS
<1> DEFINE Others == /\ DOMAIN revocation \subseteq Nat /\ revocation \in [DOMAIN revocation -> Grant!Revocation]
                     /\ states \in [ConsentPages -> [at : {"none", "fresh", "expired", "gone"}, read : Grant!Read]]
                     /\ presented \subseteq Nat
                     /\ moved \in [Handlers -> {"none", "flying", "moved", "refused", "known"}]
                     /\ grantFaults \in 0 .. MaxGrantFaults
<1>t. grant \in GrantFields /\ handler \in [Handlers -> HandlerRun] /\ Others
    BY DEF Grant!TypeOK, GrantFields, HandlerRun
<1>u. grant' \in GrantFields /\ handler' \in [Handlers -> HandlerRun] /\ Others' => Grant!TypeOK'
    BY DEF Grant!TypeOK, GrantFields, HandlerRun
<1>r. grant.intent \in Grant!Intent /\ grant.attempt \in Grant!Intent /\ Grant!Now \in Grant!Read
      /\ grant.bound \in {None} \cup Handlers /\ grant.alias \in {None} \cup Handlers
    BY <1>t, ReadTypes
<1>l. UNCHANGED Grant!Ledger => Others'
    BY <1>t DEF Grant!Ledger
<1> USE <1>t
<1> HIDE DEF Others
<1>1. ASSUME Grant!Expire PROVE Grant!TypeOK'
    <2>2. grant' \in GrantFields
        <3>1. \/ UNCHANGED grant
              \/ grant' = [grant EXCEPT !.intent = [grant.intent EXCEPT !.aged = TRUE]]
              \/ grant' = [grant EXCEPT !.attempt = [grant.attempt EXCEPT !.aged = TRUE]]
            BY <1>1 DEF Grant!Expire
        <3>. QED  BY <1>r, <3>1, IntentTypes, IntentWritten, AttemptWritten, IntentReplaced
    <2>1. handler' \in [Handlers -> HandlerRun]
        BY <1>1 DEF Grant!Expire
    <2>3. Others'
        BY <1>1 DEF Grant!Expire, Others
    <2>. QED  BY <1>u, <2>1, <2>2, <2>3
<1>2. ASSUME NEW page \in ConsentPages, Grant!create_oauth_state(page) PROVE Grant!TypeOK'
    <2>2. grant' \in GrantFields
        BY <1>2 DEF Grant!create_oauth_state
    <2>1. handler' \in [Handlers -> HandlerRun]
        BY <1>2 DEF Grant!create_oauth_state
    <2>3. Others'
        BY <1>2, <1>r DEF Grant!create_oauth_state, Others
    <2>. QED  BY <1>u, <2>1, <2>2, <2>3
<1>3. ASSUME NEW p \in Handlers, Grant!Open(p) PROVE Grant!TypeOK'
    <2>2. grant' \in GrantFields
        BY <1>3, FieldTypes, IntentTypes DEF Grant!Open
    <2>1. handler' \in [Handlers -> HandlerRun]
        BY <1>3, StepTypes DEF Grant!Open, Grant!Places
    <2>3. Others'
        BY <1>3, <1>l DEF Grant!Open
    <2>. QED  BY <1>u, <2>1, <2>2, <2>3
<1>4. ASSUME NEW p \in Handlers, Grant!check_and_recover_expired_intent_preflight_cas(p) PROVE Grant!TypeOK'
    <2>2. grant' \in GrantFields
        BY <1>4, FieldTypes, IntentTypes DEF Grant!check_and_recover_expired_intent_preflight_cas
    <2>1. handler' \in [Handlers -> HandlerRun]
        BY <1>4, StepTypes DEF Grant!check_and_recover_expired_intent_preflight_cas, Grant!Places
    <2>3. Others'
        BY <1>4, <1>l DEF Grant!check_and_recover_expired_intent_preflight_cas
    <2>. QED  BY <1>u, <2>1, <2>2, <2>3
<1>5. ASSUME NEW p \in Handlers, Grant!ReadGrant(p) PROVE Grant!TypeOK'
    <2>2. grant' \in GrantFields
        BY <1>5, FieldTypes, IntentTypes DEF Grant!ReadGrant
    <2>1. handler' \in [Handlers -> HandlerRun]
        BY <1>5, <1>r, HandlerReads, StepTypes DEF Grant!ReadGrant, Grant!Places
    <2>3. Others'
        BY <1>5, <1>l DEF Grant!ReadGrant
    <2>. QED  BY <1>u, <2>1, <2>2, <2>3
<1>6. ASSUME NEW p \in Handlers, Grant!acquire_provider_operation_intent_cas(p) PROVE Grant!TypeOK'
    <2>2. grant' \in GrantFields
        <3>1. \/ UNCHANGED grant
              \/ grant' = Grant!Quarantine(grant)
              \/ \E b \in {p, grant.bound}, a \in {p, grant.alias} :
                     grant' = [grant EXCEPT !.intent = Grant!Reserved(p, Grant!IntentKind(p)), !.bound = b, !.alias = a]
            BY <1>6 DEF Grant!acquire_provider_operation_intent_cas
        <3>2. Grant!Reserved(p, Grant!IntentKind(p)) \in Grant!Intent
            BY IntentTypes DEF Grant!IntentKind
        <3>. QED  BY <1>r, <3>1, <3>2, FieldTypes, IntentWritten, AttemptWritten, IntentReplaced
    <2>1. handler' \in [Handlers -> HandlerRun]
        BY <1>6, StepTypes DEF Grant!acquire_provider_operation_intent_cas, Grant!Places
    <2>3. Others'
        BY <1>6, <1>l DEF Grant!acquire_provider_operation_intent_cas
    <2>. QED  BY <1>u, <2>1, <2>2, <2>3
<1>7. ASSUME NEW p \in Handlers, Grant!transition_provider_operation_intent_to_started_cas(p) PROVE Grant!TypeOK'
    <2>2. grant' \in GrantFields
        <3>1. UNCHANGED grant \/ grant' = Grant!Clear(grant) \/ grant' = [grant EXCEPT !.intent = Grant!Started(grant.intent)]
            BY <1>7 DEF Grant!transition_provider_operation_intent_to_started_cas, Grant!release_provider_operation_intent_cas
        <3>. QED  BY <1>r, <3>1, IntentTypes, FieldTypes, IntentWritten, AttemptWritten, IntentReplaced
    <2>1. handler' \in [Handlers -> HandlerRun]
        BY <1>7, StepTypes DEF Grant!transition_provider_operation_intent_to_started_cas, Grant!release_provider_operation_intent_cas, Grant!Places
    <2>3. Others'
        BY <1>7, <1>l DEF Grant!transition_provider_operation_intent_to_started_cas, Grant!release_provider_operation_intent_cas
    <2>. QED  BY <1>u, <2>1, <2>2, <2>3
<1>8. ASSUME NEW p \in Handlers, Grant!Send(p) PROVE Grant!TypeOK'
    <2>2. grant' \in GrantFields
        BY <1>8, FieldTypes, IntentTypes DEF Grant!Send
    <2>1. handler' \in [Handlers -> HandlerRun]
        BY <1>8, StepTypes DEF Grant!Send, Grant!Places
    <2>3. Others'
        <3>1. handler[p].read.cred \in Nat
            BY DEF HandlerRun, Grant!Read
        <3>. QED  BY <1>8, <3>1 DEF Grant!Send, Others
    <2>. QED  BY <1>u, <2>1, <2>2, <2>3
<1>9. ASSUME NEW p \in Handlers, Grant!Arrive(p) PROVE Grant!TypeOK'
    <2>2. grant' \in GrantFields
        BY <1>9, FieldTypes, IntentTypes DEF Grant!Arrive
    <2>1. handler' \in [Handlers -> HandlerRun]
        BY <1>9 DEF Grant!Arrive
    <2>3. Others'
        BY <1>9 DEF Grant!Arrive, Others
    <2>. QED  BY <1>u, <2>1, <2>2, <2>3
<1>10. ASSUME NEW p \in Handlers, Grant!Answer(p) PROVE Grant!TypeOK'
    <2>2. grant' \in GrantFields
        BY <1>10, FieldTypes, IntentTypes DEF Grant!Answer, Grant!RefreshAnswer, Grant!CallAnswer, Grant!PatchAnswer
    <2>1. handler' \in [Handlers -> HandlerRun]
        <3>1. \E to \in {"persist", "quarantine", "terminalize", "done", "uncertain"} : Grant!Step(p, "answer", to)
            BY <1>10 DEF Grant!Answer, Grant!RefreshAnswer, Grant!CallAnswer, Grant!PatchAnswer
        <3>. QED  BY <3>1, StepTypes DEF Grant!Places
    <2>3. Others'
        BY <1>10 DEF Grant!Answer, Grant!RefreshAnswer, Grant!CallAnswer, Grant!PatchAnswer, Others
    <2>. QED  BY <1>u, <2>1, <2>2, <2>3
<1>11. ASSUME NEW p \in Handlers, Grant!Retry(p) PROVE Grant!TypeOK'
    <2>2. grant' \in GrantFields
        BY <1>11, FieldTypes, IntentTypes DEF Grant!Retry
    <2>1. handler' \in [Handlers -> HandlerRun]
        BY <1>11, HandlerTries DEF Grant!Retry, Grant!Places
    <2>3. Others'
        BY <1>11, <1>l DEF Grant!Retry
    <2>. QED  BY <1>u, <2>1, <2>2, <2>3
<1>12. ASSUME NEW p \in Handlers, Grant!terminalize_provider_operation_intent_cas(p) PROVE Grant!TypeOK'
    <2>2. grant' \in GrantFields
        BY <1>12, FieldTypes, IntentTypes DEF Grant!terminalize_provider_operation_intent_cas
    <2>1. handler' \in [Handlers -> HandlerRun]
        BY <1>12, StepTypes DEF Grant!terminalize_provider_operation_intent_cas, Grant!Places
    <2>3. Others'
        BY <1>12, <1>l DEF Grant!terminalize_provider_operation_intent_cas
    <2>. QED  BY <1>u, <2>1, <2>2, <2>3
<1>13. ASSUME NEW p \in Handlers, Grant!persist_refreshed_tokens_cas(p) PROVE Grant!TypeOK'
    <2>2. grant' \in GrantFields
        BY <1>13, FieldTypes, IntentTypes DEF Grant!persist_refreshed_tokens_cas, Grant!Persistable, Grant!Refreshed
    <2>1. handler' \in [Handlers -> HandlerRun]
        BY <1>13, StepTypes DEF Grant!persist_refreshed_tokens_cas, Grant!Persistable, Grant!Refreshed, Grant!Places
    <2>3. Others'
        BY <1>13, <1>l DEF Grant!persist_refreshed_tokens_cas, Grant!Persistable, Grant!Refreshed
    <2>. QED  BY <1>u, <2>1, <2>2, <2>3
<1>14. ASSUME NEW p \in Handlers, Grant!quarantine_provider_reauth_cas(p) PROVE Grant!TypeOK'
    <2>2. grant' \in GrantFields
        BY <1>14, FieldTypes, IntentTypes DEF Grant!quarantine_provider_reauth_cas
    <2>1. handler' \in [Handlers -> HandlerRun]
        BY <1>14, StepTypes DEF Grant!quarantine_provider_reauth_cas, Grant!Places
    <2>3. Others'
        BY <1>14, <1>l DEF Grant!quarantine_provider_reauth_cas
    <2>. QED  BY <1>u, <2>1, <2>2, <2>3
<1>15. ASSUME NEW p \in Handlers, Grant!transition_google_calendar_operation_intent_to_outcome_uncertain_cas(p) PROVE Grant!TypeOK'
    <2>2. grant' \in GrantFields
        <3>1. UNCHANGED grant \/ grant' = [grant EXCEPT !.intent = [grant.intent EXCEPT !.phase = "provider_outcome_uncertain"]]
            BY <1>15 DEF Grant!transition_google_calendar_operation_intent_to_outcome_uncertain_cas
        <3>. QED  BY <1>r, <3>1, IntentTypes, IntentWritten, AttemptWritten, IntentReplaced
    <2>1. handler' \in [Handlers -> HandlerRun]
        BY <1>15, StepTypes DEF Grant!transition_google_calendar_operation_intent_to_outcome_uncertain_cas, Grant!Places
    <2>3. Others'
        BY <1>15, <1>l DEF Grant!transition_google_calendar_operation_intent_to_outcome_uncertain_cas
    <2>. QED  BY <1>u, <2>1, <2>2, <2>3
<1>16. ASSUME NEW p \in Handlers, Grant!reconcile_reschedule_appointment(p) PROVE Grant!TypeOK'
    <2>2. grant' \in GrantFields
        BY <1>16, FieldTypes, IntentTypes DEF Grant!reconcile_reschedule_appointment
    <2>1. handler' \in [Handlers -> HandlerRun]
        BY <1>16, StepTypes DEF Grant!reconcile_reschedule_appointment, Grant!Places
    <2>3. Others'
        BY <1>16, <1>l DEF Grant!reconcile_reschedule_appointment
    <2>. QED  BY <1>u, <2>1, <2>2, <2>3
<1>17. ASSUME NEW p \in Handlers, Grant!AskCalendar(p) PROVE Grant!TypeOK'
    <2>2. grant' \in GrantFields
        BY <1>17, FieldTypes, IntentTypes DEF Grant!AskCalendar
    <2>1. handler' \in [Handlers -> HandlerRun]
        BY <1>17, StepTypes DEF Grant!AskCalendar, Grant!Places
    <2>3. Others'
        BY <1>17 DEF Grant!AskCalendar, Others
    <2>. QED  BY <1>u, <2>1, <2>2, <2>3
<1>18. ASSUME NEW p \in Handlers, Grant!clear_reconciled_google_calendar_operation_intent_cas(p) PROVE Grant!TypeOK'
    <2>2. grant' \in GrantFields
        BY <1>18, FieldTypes, IntentTypes DEF Grant!clear_reconciled_google_calendar_operation_intent_cas
    <2>1. handler' \in [Handlers -> HandlerRun]
        BY <1>18, StepTypes DEF Grant!clear_reconciled_google_calendar_operation_intent_cas, Grant!Places
    <2>3. Others'
        BY <1>18, <1>l DEF Grant!clear_reconciled_google_calendar_operation_intent_cas
    <2>. QED  BY <1>u, <2>1, <2>2, <2>3
<1>19. ASSUME NEW p \in Handlers, Grant!consume_oauth_state(p) PROVE Grant!TypeOK'
    <2>2. grant' \in GrantFields
        <3>1. \/ UNCHANGED grant
              \/ grant' = Grant!Quarantine(grant)
              \/ grant' = [grant EXCEPT !.attempt = Grant!Reserved(p, "reconnect")]
              \/ grant' = [grant EXCEPT !.intent = Grant!Reserved(p, "connect")]
            BY <1>19 DEF Grant!consume_oauth_state
        <3>. QED  BY <1>r, <3>1, IntentTypes, FieldTypes, IntentWritten, AttemptWritten, IntentReplaced
    <2>1. handler' \in [Handlers -> HandlerRun]
        <3>1. PICK to \in {"begin", "done"} :
                  handler' = [handler EXCEPT ![p].at = to, ![p].read = Grant!Now, ![p].tried = grant.quarantined]
            BY <1>19 DEF Grant!consume_oauth_state
        <3>2. grant.quarantined \in BOOLEAN
            BY DEF GrantFields
        <3>. QED  BY <1>r, <3>1, <3>2, HandlerConsents DEF Grant!Places
    <2>3. Others'
        BY <1>19 DEF Grant!consume_oauth_state, Others
    <2>. QED  BY <1>u, <2>1, <2>2, <2>3
<1>20. ASSUME NEW p \in Handlers, Grant!transition_provider_reauthorization_attempt_to_started_cas(p) PROVE Grant!TypeOK'
    <2>2. grant' \in GrantFields
        <3>1. \/ UNCHANGED grant
              \/ grant' = [grant EXCEPT !.attempt = Grant!Started(grant.attempt)]
              \/ grant' = [grant EXCEPT !.intent = Grant!Started(grant.intent)]
            BY <1>20 DEF Grant!transition_provider_reauthorization_attempt_to_started_cas
        <3>. QED  BY <1>r, <3>1, IntentTypes, IntentWritten, AttemptWritten, IntentReplaced
    <2>1. handler' \in [Handlers -> HandlerRun]
        BY <1>20, StepTypes DEF Grant!transition_provider_reauthorization_attempt_to_started_cas, Grant!Places
    <2>3. Others'
        BY <1>20, <1>l DEF Grant!transition_provider_reauthorization_attempt_to_started_cas
    <2>. QED  BY <1>u, <2>1, <2>2, <2>3
<1>21. ASSUME NEW p \in Handlers, Grant!google_calendar_callback(p) PROVE Grant!TypeOK'
    <2>2. grant' \in GrantFields
        <3>1. \/ UNCHANGED grant
              \/ grant' = [grant EXCEPT !.attempt = Grant!NoIntent]
              \/ grant' = Grant!Clear(grant)
            BY <1>21 DEF Grant!google_calendar_callback
        <3>. QED  BY <1>r, <3>1, IntentTypes, FieldTypes, IntentWritten, AttemptWritten, IntentReplaced
    <2>1. handler' \in [Handlers -> HandlerRun]
        <3>1. \E to \in {"connect", "done"} : Grant!Step(p, "exchange", to)
            BY <1>21 DEF Grant!google_calendar_callback
        <3>. QED  BY <3>1, StepTypes DEF Grant!Places
    <2>3. Others'
        BY <1>21, <1>l DEF Grant!google_calendar_callback
    <2>. QED  BY <1>u, <2>1, <2>2, <2>3
<1>22. ASSUME NEW p \in Handlers, Grant!connect_provider_cas(p) PROVE Grant!TypeOK'
    <2>2. grant' \in GrantFields
        BY <1>22, FieldTypes, IntentTypes DEF Grant!connect_provider_cas, Grant!Connectable, Grant!Connected
    <2>1. handler' \in [Handlers -> HandlerRun]
        BY <1>22, StepTypes DEF Grant!connect_provider_cas, Grant!Connectable, Grant!Connected, Grant!Places
    <2>3. Others'
        BY <1>22, <1>l DEF Grant!connect_provider_cas, Grant!Connectable, Grant!Connected
    <2>. QED  BY <1>u, <2>1, <2>2, <2>3
<1>23. ASSUME NEW p \in Handlers, Grant!disconnect_provider_envelope_cas(p) PROVE Grant!TypeOK'
    <2>2. grant' \in GrantFields
        BY <1>23, FieldTypes DEF Grant!disconnect_provider_envelope_cas, Grant!Disconnected
    <2>1. handler' \in [Handlers -> HandlerRun]
        <3>1. PICK to \in {"done", "finalize", "revoke", "verify"} :
                  handler' = [handler EXCEPT ![p].at = to, ![p].read = [gen |-> grant'.gen, epoch |-> grant'.epoch, cred |-> 0]]
            BY <1>23 DEF Grant!disconnect_provider_envelope_cas
        <3>2. [gen |-> grant'.gen, epoch |-> grant'.epoch, cred |-> 0] \in Grant!Read
            BY <2>2 DEF GrantFields, Grant!Read
        <3>. QED  BY <3>1, <3>2, HandlerReads DEF Grant!Places
    <2>3. Others'
        <3>1. Grant!OnRecord(grant.gen) \in Grant!Revocation /\ grant.gen \in Nat /\ grant.gen + 1 \in Nat
            BY DEF Others, Grant!OnRecord, Grant!NoRevocation, Grant!Revocation, Grant!Outcomes, GrantFields
        <3>2. [Grant!OnRecord(grant.gen) EXCEPT !.audit = Grant!OnRecord(grant.gen).outbox] \in Grant!Revocation
            BY <3>1 DEF Grant!Revocation
        <3>3. \A o \in Grant!Outcomes : \A q \in {None, p} : Grant!NewRevocation(o, q) \in Grant!Revocation
            BY DEF Grant!NewRevocation, Grant!Revocation
        <3>4. \/ UNCHANGED revocation
              \/ \E o \in {"provider_request_started", "not_attempted_unavailable"}, q \in {None, p} :
                     revocation' = Grant!Recorded(grant.gen + 1, Grant!NewRevocation(o, q))
              \/ revocation' = Grant!Recorded(grant.gen, Grant!NewRevocation("not_attempted_unavailable", None))
              \/ revocation' = Grant!Recorded(grant.gen, [Grant!OnRecord(grant.gen) EXCEPT !.audit = Grant!OnRecord(grant.gen).outbox])
            BY <1>23 DEF Grant!disconnect_provider_envelope_cas
        <3>5. {"provider_request_started", "not_attempted_unavailable"} \subseteq Grant!Outcomes
            BY DEF Grant!Outcomes
        <3>6. DOMAIN revocation' \subseteq Nat /\ revocation' \in [DOMAIN revocation' -> Grant!Revocation]
            BY <3>1, <3>2, <3>3, <3>4, <3>5, RecordTypes DEF Others
        <3>. QED  BY <1>23, <3>6 DEF Grant!disconnect_provider_envelope_cas, Others
    <2>. QED  BY <1>u, <2>1, <2>2, <2>3
<1>24. ASSUME NEW p \in Handlers, Grant!RevokeAtGoogle(p) PROVE Grant!TypeOK'
    <2>2. grant' \in GrantFields
        BY <1>24, FieldTypes, IntentTypes DEF Grant!RevokeAtGoogle
    <2>1. handler' \in [Handlers -> HandlerRun]
        BY <1>24, HandlerResults DEF Grant!RevokeAtGoogle, Grant!Places, Grant!Outcomes
    <2>3. Others'
        BY <1>24, <1>l DEF Grant!RevokeAtGoogle
    <2>. QED  BY <1>u, <2>1, <2>2, <2>3
<1>25. ASSUME NEW p \in Handlers, Grant!record_revocation_outcome_cas(p) PROVE Grant!TypeOK'
    <2>2. grant' \in GrantFields
        BY <1>25, FieldTypes, IntentTypes DEF Grant!record_revocation_outcome_cas
    <2>1. handler' \in [Handlers -> HandlerRun]
        BY <1>25, StepTypes DEF Grant!record_revocation_outcome_cas, Grant!Places
    <2>3. Others'
        <3>1. Grant!OnRecord(handler[p].read.gen) \in Grant!Revocation /\ handler[p].read.gen \in Nat /\ handler[p].result \in Grant!Outcomes
            BY DEF Others, Grant!OnRecord, Grant!NoRevocation, Grant!Revocation, Grant!Outcomes, HandlerRun, Grant!Read
        <3>2. [Grant!OnRecord(handler[p].read.gen) EXCEPT !.outbox = handler[p].result] \in Grant!Revocation
            BY <3>1 DEF Grant!Revocation
        <3>. QED  BY <1>25, <3>1, <3>2, RecordTypes DEF Grant!record_revocation_outcome_cas, Others
    <2>. QED  BY <1>u, <2>1, <2>2, <2>3
<1>26. ASSUME NEW p \in Handlers, Grant!finalize_revocation_audit_cas(p) PROVE Grant!TypeOK'
    <2>2. grant' \in GrantFields
        BY <1>26, FieldTypes, IntentTypes DEF Grant!finalize_revocation_audit_cas
    <2>1. handler' \in [Handlers -> HandlerRun]
        BY <1>26, StepTypes DEF Grant!finalize_revocation_audit_cas, Grant!Places
    <2>3. Others'
        <3>1. Grant!OnRecord(handler[p].read.gen) \in Grant!Revocation /\ handler[p].read.gen \in Nat
            BY DEF Others, Grant!OnRecord, Grant!NoRevocation, Grant!Revocation, Grant!Outcomes, HandlerRun, Grant!Read
        <3>2. [Grant!OnRecord(handler[p].read.gen) EXCEPT !.audit = Grant!OnRecord(handler[p].read.gen).outbox, !.final = TRUE]
                  \in Grant!Revocation
            BY <3>1 DEF Grant!Revocation
        <3>3. CASE UNCHANGED revocation
            BY <1>26, <3>3, GrantConstants DEF Grant!finalize_revocation_audit_cas, Others
        <3>4. CASE revocation' = Grant!Recorded(handler[p].read.gen,
                      [Grant!OnRecord(handler[p].read.gen) EXCEPT !.audit = Grant!OnRecord(handler[p].read.gen).outbox, !.final = TRUE])
            BY <1>26, <3>1, <3>2, <3>4, RecordTypes, GrantConstants DEF Grant!finalize_revocation_audit_cas, Others
        <3>. QED  BY <1>26, <3>3, <3>4 DEF Grant!finalize_revocation_audit_cas
    <2>. QED  BY <1>u, <2>1, <2>2, <2>3
<1>27. ASSUME NEW p \in Handlers, Grant!disconnect_and_revoke_provider_orchestration(p) PROVE Grant!TypeOK'
    <2>2. grant' \in GrantFields
        BY <1>27, FieldTypes, IntentTypes DEF Grant!disconnect_and_revoke_provider_orchestration
    <2>1. handler' \in [Handlers -> HandlerRun]
        <3>1. PICK o \in Grant!Outcomes, t \in BOOLEAN :
                  handler' = [handler EXCEPT ![p].at = "done", ![p].result = o, ![p].tried = t]
            <4>1. Grant!OnRecord(handler[p].read.gen).outbox \in Grant!Outcomes
                BY DEF Others, Grant!OnRecord, Grant!NoRevocation, Grant!Revocation, Grant!Outcomes
            <4>2. "none" \in Grant!Outcomes /\ Grant!Proven(p) \in BOOLEAN
                BY DEF Grant!Outcomes, Grant!Proven
            <4>. QED  BY <1>27, <4>1, <4>2 DEF Grant!disconnect_and_revoke_provider_orchestration
        <3>. QED  BY <3>1, HandlerReports DEF Grant!Places
    <2>3. Others'
        BY <1>27, <1>l DEF Grant!disconnect_and_revoke_provider_orchestration
    <2>. QED  BY <1>u, <2>1, <2>2, <2>3
<1>28. ASSUME NEW p \in Handlers, Grant!Crash(p) PROVE Grant!TypeOK'
    <2>2. grant' \in GrantFields
        BY <1>28, FieldTypes, IntentTypes DEF Grant!Crash
    <2>1. handler' \in [Handlers -> HandlerRun]
        BY <1>28 DEF Grant!Crash, Grant!Places, HandlerRun
    <2>3. Others'
        BY <1>28, GrantConstants DEF Grant!Crash, Others
    <2>. QED  BY <1>u, <2>1, <2>2, <2>3
<1>29. ASSUME UNCHANGED grantVars PROVE Grant!TypeOK'
    BY <1>29 DEF grantVars, Grant!TypeOK
<1>. QED  BY <1>1, <1>2, <1>3, <1>4, <1>5, <1>6, <1>7, <1>8, <1>9, <1>10, <1>11, <1>12, <1>13, <1>14, <1>15, <1>16, <1>17, <1>18, <1>19, <1>20, <1>21, <1>22, <1>23, <1>24, <1>25, <1>26, <1>27, <1>28, <1>29 DEF Grant!Next, grantVars

\* A step of a run leaves the others where they are.
LEMMA StepMoves ==
    ASSUME handler \in [Handlers -> HandlerRun], NEW p \in Handlers, NEW from, NEW to, Grant!Step(p, from, to)
    PROVE  /\ handler[p].at = from /\ handler'[p].at = to /\ handler'[p].read = handler[p].read
           /\ handler'[p].tried = handler[p].tried /\ handler'[p].result = handler[p].result
           /\ \A q \in Handlers : q # p => handler'[q] = handler[q]
    BY DEF Grant!Step, HandlerRun

\* What a step may leave of the pair and of the intent, and the intents that a later operation may overtake.
KeepsPair ==
    grant'.cred = grant.cred /\ grant'.gen = grant.gen /\ grant'.epoch = grant.epoch /\ grant'.connected = grant.connected

KeepsIntent == grant'.intent = grant.intent /\ grant'.bound = grant.bound /\ grant'.alias = grant.alias

DropsIntent ==
    /\ grant'.intent.id = None /\ grant'.intent.kind = "business" /\ grant'.intent.phase = "reserved"
    /\ grant'.bound = None /\ grant'.alias = None

KeepsQuarantine == grant'.quarantined = grant.quarantined

Unheld == grant.bound = None \/ grant.intent.phase = "reserved"

LEMMA ClearWrites ==
    ASSUME grant \in GrantFields, grant' = Grant!Clear(grant)
    PROVE  KeepsPair /\ DropsIntent /\ KeepsQuarantine
    BY DEF GrantFields, Grant!Clear, Grant!NoIntent, KeepsPair, DropsIntent, KeepsQuarantine

LEMMA QuarantineWrites ==
    ASSUME grant \in GrantFields, grant' = Grant!Quarantine(grant)
    PROVE  KeepsPair /\ DropsIntent /\ grant'.quarantined
    BY DEF GrantFields, Grant!Clear, Grant!Quarantine, Grant!NoIntent, KeepsPair, DropsIntent

\* An intent that is mine is valid: nothing of another operation is left in the record.
LEMMA MineReads ==
    ASSUME grant \in GrantFields, NEW p, NEW kind, NEW phases, Grant!Mine(p, kind, phases)
    PROVE  /\ ~grant.quarantined /\ grant.intent.id = p /\ grant.intent.kind = kind /\ grant.intent.phase \in phases
           /\ grant.intent.id # None
           /\ grant.bound # None => kind = "business" /\ grant.alias = None
           /\ grant.alias # None => kind = "refresh"
    BY StatusReads DEF Grant!Mine, Grant!Consistent

\* The kind of intent that a run reserves.
LEMMA IntentKinds ==
    ASSUME NEW p \in Handlers
    PROVE  /\ HandlerKind[p] = "refresh" => Grant!IntentKind(p) = "refresh"
           /\ HandlerKind[p] \in {"business", "patch"} => Grant!IntentKind(p) = "business"
    BY DEF Grant!IntentKind

\* A record that is written replaces the one of its generation only.
LEMMA RecordedReads ==
    ASSUME NEW g, NEW r, revocation' = Grant!Recorded(g, r)
    PROVE  /\ DOMAIN revocation' = DOMAIN revocation \cup {g}
           /\ Entry(revocation', g) = r
           /\ \A h : h # g => Entry(revocation', h) = Entry(revocation, h)
    BY DEF Grant!Recorded, Entry

LEMMA NewReads ==
    ASSUME NEW owner
    PROVE  /\ Grant!NewRevocation("provider_request_started", owner).outbox = "provider_request_started"
           /\ Grant!NewRevocation("provider_request_started", owner).claim = owner
           /\ ~Grant!NewRevocation("provider_request_started", owner).final
           /\ Grant!NewRevocation("not_attempted_unavailable", owner).outbox = "not_attempted_unavailable"
           /\ Grant!NewRevocation("not_attempted_unavailable", owner).audit = "not_attempted_unavailable"
           /\ "not_attempted_unavailable" \in Grant!TERMINAL_REVOCATION_STATUSES
           /\ "provider_request_started" \notin Grant!TERMINAL_REVOCATION_STATUSES
           /\ "none" \notin Grant!TERMINAL_REVOCATION_STATUSES
    BY DEF Grant!NewRevocation, Grant!TERMINAL_REVOCATION_STATUSES, Grant!Outcomes

-----------------------------------------------------------------------------
(* What each operation writes.                                             *)

LEMMA PreflightWrites ==
    ASSUME grant \in GrantFields, NEW p \in Handlers, Grant!check_and_recover_expired_intent_preflight_cas(p)
    PROVE  \/ UNCHANGED grant
           \/ KeepsPair /\ DropsIntent /\ KeepsQuarantine /\ ~grant.quarantined /\ grant.intent.phase = "reserved"
           \/ KeepsPair /\ DropsIntent /\ grant'.quarantined /\ Unheld
<1>1. \/ UNCHANGED grant
      \/ /\ Grant!Status = "valid" /\ ~Grant!HeldByOperation(grant)
         /\ (grant' = Grant!Clear(grant) /\ grant.intent.phase = "reserved") \/ grant' = Grant!Quarantine(grant)
    BY DEF Grant!check_and_recover_expired_intent_preflight_cas
<1>. QED  BY <1>1, StatusReads, ClearWrites, QuarantineWrites DEF Grant!HeldByOperation, Unheld

LEMMA AcquireMoves ==
    ASSUME handler \in [Handlers -> HandlerRun], NEW p \in Handlers, handler[p].at = "acquire",
           Grant!acquire_provider_operation_intent_cas(p)
    PROVE  /\ handler[p].at = "acquire" /\ handler'[p].at \in {"start", "done"} /\ handler'[p].read = handler[p].read
           /\ handler'[p].tried = handler[p].tried /\ handler'[p].result = handler[p].result
           /\ \A q \in Handlers : q # p => handler'[q] = handler[q]
<1>1. \E to \in {"start", "done"} : Grant!Step(p, "acquire", to)
    BY DEF Grant!acquire_provider_operation_intent_cas
<1>. QED  BY <1>1, StepMoves

LEMMA AcquireWrites ==
    ASSUME grant \in GrantFields, GrantIsWhole, handler \in [Handlers -> HandlerRun], NEW p \in Handlers,
           Grant!acquire_provider_operation_intent_cas(p)
    PROVE  /\ \/ UNCHANGED grant
              \/ KeepsPair /\ DropsIntent /\ grant'.quarantined /\ Unheld
              \/ /\ KeepsPair /\ KeepsQuarantine /\ ~grant.quarantined /\ Unheld
                 /\ grant'.intent.id = p /\ grant'.intent.phase = "reserved"
                 /\ grant.intent.phase # "provider_request_started"
           /\ handler'[p].at = "start" => grant'.intent.id = p /\ (HandlerKind[p] = "patch" => grant'.bound = p)
<1> DEFINE next == [grant EXCEPT !.intent = Grant!Reserved(p, Grant!IntentKind(p)),
                                 !.bound = IF HandlerKind[p] = "patch" THEN p ELSE @,
                                 !.alias = IF HandlerKind[p] = "refresh" THEN p ELSE @]
           busy == Grant!Status = "valid" /\ (Grant!HeldByOperation(grant) \/ ~grant.intent.aged)
           takes == ~grant.quarantined /\ grant.connected /\ Grant!SameGrant(handler[p].read)
                    /\ Grant!Status \in {"absent", "valid"} /\ ~busy
           unknown == Grant!Status = "valid" /\ grant.intent.phase = "provider_request_started"
<1>1. \/ ~takes /\ UNCHANGED grant
      \/ takes /\ unknown /\ grant' = Grant!Quarantine(grant)
      \/ takes /\ ~unknown /\ grant' = next
    BY DEF Grant!acquire_provider_operation_intent_cas
<1>2. \/ Grant!Step(p, "acquire", "done")
      \/ Grant!Step(p, "acquire", "start") /\ takes /\ ~unknown /\ (next.bound = p <=> HandlerKind[p] = "patch")
    BY DEF Grant!acquire_provider_operation_intent_cas
<1>3. next.intent.id = p /\ next.intent.phase = "reserved"
    BY DEF GrantFields, Grant!Reserved
<1>4. grant' = next => KeepsPair /\ KeepsQuarantine
    BY DEF GrantFields, KeepsPair, KeepsQuarantine
<1>5. handler'[p].at = "start" => takes /\ ~unknown /\ (HandlerKind[p] = "patch" => next.bound = p)
    BY <1>2, StepMoves
<1>6. takes => ~grant.quarantined /\ (grant.intent.id # None => ~Grant!HeldByOperation(grant) /\ Grant!Status = "valid")
    BY StatusReads
<1> HIDE DEF next
<1>7. CASE ~takes /\ UNCHANGED grant
    BY <1>5, <1>7
<1>8. CASE takes /\ unknown /\ grant' = Grant!Quarantine(grant)
    BY <1>5, <1>6, <1>8, StatusReads, QuarantineWrites DEF Grant!HeldByOperation, Unheld
<1>9. CASE takes /\ ~unknown /\ grant' = next
    <2>1. grant.intent.phase # "provider_request_started" /\ Unheld
        BY <1>6, <1>9 DEF Grant!HeldByOperation, Unheld, GrantIsWhole
    <2>. QED  BY <1>3, <1>4, <1>5, <1>6, <1>9, <2>1
<1>. QED  BY <1>1, <1>7, <1>8, <1>9

LEMMA StartWrites ==
    ASSUME grant \in GrantFields, handler \in [Handlers -> HandlerRun], NEW p \in Handlers,
           Grant!transition_provider_operation_intent_to_started_cas(p)
    PROVE  \/ UNCHANGED grant /\ handler'[p].at = "done"
           \/ /\ handler'[p].at = "done" /\ grant.intent.id = p /\ grant.intent.phase = "reserved"
              /\ KeepsPair /\ DropsIntent /\ KeepsQuarantine
           \/ /\ handler'[p].at = "http" /\ handler[p].read = Grant!Now /\ ~grant.quarantined
              /\ KeepsPair /\ KeepsQuarantine /\ grant'.bound = grant.bound /\ grant'.alias = grant.alias
              /\ grant.intent.id = p /\ grant.intent.phase = "reserved" /\ grant.intent.kind = Grant!IntentKind(p)
              /\ grant'.intent.id = p /\ grant'.intent.kind = grant.intent.kind
              /\ grant'.intent.phase = "provider_request_started"
              /\ grant.alias # None => grant.intent.kind = "refresh"
<1>1. \/ Grant!Step(p, "start", "done") /\ UNCHANGED grant
      \/ Grant!Step(p, "start", "done") /\ Grant!Mine(p, Grant!IntentKind(p), {"reserved"}) /\ grant' = Grant!Clear(grant)
      \/ /\ Grant!Step(p, "start", "http") /\ Grant!Mine(p, Grant!IntentKind(p), {"reserved"})
         /\ Grant!SameGrant(handler[p].read) /\ grant' = [grant EXCEPT !.intent = Grant!Started(@)]
    BY DEF Grant!transition_provider_operation_intent_to_started_cas, Grant!release_provider_operation_intent_cas, Grant!Startable
<1>2. CASE Grant!Step(p, "start", "done") /\ UNCHANGED grant
    BY <1>2, StepMoves
<1>3. CASE Grant!Step(p, "start", "done") /\ Grant!Mine(p, Grant!IntentKind(p), {"reserved"}) /\ grant' = Grant!Clear(grant)
    BY <1>3, StepMoves, MineReads, ClearWrites
<1>4. CASE /\ Grant!Step(p, "start", "http") /\ Grant!Mine(p, Grant!IntentKind(p), {"reserved"})
           /\ Grant!SameGrant(handler[p].read) /\ grant' = [grant EXCEPT !.intent = Grant!Started(@)]
    <2>1. /\ KeepsPair /\ KeepsQuarantine /\ grant'.bound = grant.bound /\ grant'.alias = grant.alias
          /\ grant'.intent.id = grant.intent.id /\ grant'.intent.kind = grant.intent.kind
          /\ grant'.intent.phase = "provider_request_started"
        BY <1>4 DEF GrantFields, Grant!Intent, Grant!Started, KeepsPair, KeepsQuarantine
    <2>2. /\ ~grant.quarantined /\ grant.intent.id = p /\ grant.intent.kind = Grant!IntentKind(p)
          /\ grant.intent.phase = "reserved" /\ (grant.alias # None => grant.intent.kind = "refresh")
        BY <1>4, MineReads
    <2>3. handler'[p].at = "http" /\ handler[p].read = Grant!Now
        BY <1>4, StepMoves DEF Grant!SameGrant
    <2>. QED  BY <2>1, <2>2, <2>3
<1>. QED  BY <1>1, <1>2, <1>3, <1>4

LEMMA SendPresents ==
    ASSUME grant.gen \in Nat, handler \in [Handlers -> HandlerRun], NothingIsAhead, NEW p \in Handlers, Grant!Send(p)
    PROVE  presented' \subseteq 1 .. grant.gen
<1>1. handler[p].read.cred \in 1 .. grant.gen /\ presented \subseteq 1 .. grant.gen
    BY DEF Grant!Send, Grant!Step, NothingIsAhead, HandlerRun, Grant!Read
<1>. QED  BY <1>1 DEF Grant!Send

LEMMA RetryWrites ==
    ASSUME grant \in GrantFields, NEW p \in Handlers, Grant!Retry(p)
    PROVE  KeepsPair /\ DropsIntent /\ KeepsQuarantine /\ grant.intent.id = p /\ grant.intent.kind = "business"
    BY MineReads, ClearWrites DEF Grant!Retry

LEMMA TerminalizeWrites ==
    ASSUME grant \in GrantFields, NEW p \in Handlers, Grant!terminalize_provider_operation_intent_cas(p)
    PROVE  \/ UNCHANGED grant
           \/ /\ KeepsPair /\ DropsIntent /\ KeepsQuarantine
              /\ grant.intent.id = p /\ grant.intent.kind = Grant!IntentKind(p)
    BY MineReads, ClearWrites DEF Grant!terminalize_provider_operation_intent_cas

LEMMA PersistWrites ==
    ASSUME grant \in GrantFields, NEW p \in Handlers, Grant!persist_refreshed_tokens_cas(p)
    PROVE  \/ UNCHANGED grant
           \/ /\ DropsIntent /\ KeepsQuarantine /\ ~grant.quarantined /\ grant'.connected = grant.connected /\ grant'.epoch = grant.epoch
              /\ grant'.cred = grant.gen + 1 /\ grant'.gen = grant.gen + 1
              /\ grant.intent.id = p /\ grant.intent.kind = "refresh" /\ handler[p].read.cred = grant.cred
<1>1. \/ UNCHANGED grant
      \/ /\ Grant!Mine(p, "refresh", {"provider_request_started"}) /\ Grant!SameGrant(handler[p].read)
         /\ grant' = [Grant!Clear(grant) EXCEPT !.cred = grant.gen + 1, !.gen = grant.gen + 1]
    BY DEF Grant!persist_refreshed_tokens_cas, Grant!Persistable, Grant!Refreshed
<1>2. CASE UNCHANGED grant
    BY <1>2
<1>3. CASE /\ Grant!Mine(p, "refresh", {"provider_request_started"}) /\ Grant!SameGrant(handler[p].read)
           /\ grant' = [Grant!Clear(grant) EXCEPT !.cred = grant.gen + 1, !.gen = grant.gen + 1]
    <2>1. /\ DropsIntent /\ KeepsQuarantine /\ grant'.connected = grant.connected /\ grant'.epoch = grant.epoch
          /\ grant'.cred = grant.gen + 1 /\ grant'.gen = grant.gen + 1
        BY <1>3 DEF GrantFields, Grant!Clear, Grant!NoIntent, DropsIntent, KeepsQuarantine
    <2>2. handler[p].read.cred = grant.cred
        BY <1>3 DEF Grant!SameGrant, Grant!Now
    <2>. QED  BY <1>3, <2>1, <2>2, MineReads
<1>. QED  BY <1>1, <1>2, <1>3

LEMMA ReauthWrites ==
    ASSUME grant \in GrantFields, NEW p \in Handlers, Grant!quarantine_provider_reauth_cas(p)
    PROVE  \/ UNCHANGED grant
           \/ KeepsPair /\ DropsIntent /\ grant'.quarantined /\ grant.intent.id = p /\ grant.intent.kind = "refresh"
    BY MineReads, QuarantineWrites DEF Grant!quarantine_provider_reauth_cas

LEMMA ReconciledWrites ==
    ASSUME grant \in GrantFields, NEW p \in Handlers, Grant!clear_reconciled_google_calendar_operation_intent_cas(p)
    PROVE  \/ UNCHANGED grant
           \/ KeepsPair /\ DropsIntent /\ KeepsQuarantine /\ grant.intent.id = Asks[p] /\ grant.intent.kind = "business"
    BY MineReads, ClearWrites DEF Grant!clear_reconciled_google_calendar_operation_intent_cas, Grant!MatchingClaim

LEMMA ConsumeWrites ==
    ASSUME grant \in GrantFields, GrantIsWhole, NEW p \in Handlers, Grant!consume_oauth_state(p)
    PROVE  \/ UNCHANGED grant
           \/ KeepsPair /\ KeepsIntent /\ KeepsQuarantine
           \/ KeepsPair /\ DropsIntent /\ grant'.quarantined /\ Unheld
           \/ /\ KeepsPair /\ KeepsQuarantine /\ ~grant.quarantined /\ Unheld
              /\ grant'.intent.id = p /\ grant.intent.phase # "provider_request_started"
<1> DEFINE expired == Grant!Status = "valid" /\ ~Grant!HeldByOperation(grant) /\ grant.intent.aged
           admits == \/ Grant!Status = "absent"
                     \/ (expired /\ ~(grant.intent.phase = "provider_request_started"))
                     \/ Grant!Status = "quarantined"
                     \/ /\ Grant!Status = "quarantined_reauthorizing"
                        /\ grant.attempt.aged \/ grant.attempt.phase = "reserved"
<1>1. \/ UNCHANGED grant
      \/ grant' = [grant EXCEPT !.attempt = Grant!Reserved(p, "reconnect")]
      \/ expired /\ grant' = Grant!Quarantine(grant)
      \/ admits /\ ~grant.quarantined /\ grant' = [grant EXCEPT !.intent = Grant!Reserved(p, "connect")]
    BY DEF Grant!consume_oauth_state
<1>2. CASE grant' = [grant EXCEPT !.attempt = Grant!Reserved(p, "reconnect")]
    BY <1>2 DEF GrantFields, KeepsPair, KeepsIntent, KeepsQuarantine
<1>3. CASE expired /\ grant' = Grant!Quarantine(grant)
    BY <1>3, QuarantineWrites DEF Grant!HeldByOperation, Unheld
<1>4. CASE admits /\ ~grant.quarantined /\ grant' = [grant EXCEPT !.intent = Grant!Reserved(p, "connect")]
    <2>1. KeepsPair /\ KeepsQuarantine /\ grant'.intent.id = p
        BY <1>4 DEF GrantFields, Grant!Reserved, KeepsPair, KeepsQuarantine
    <2>2. Unheld /\ grant.intent.phase # "provider_request_started"
        BY <1>4, StatusReads DEF GrantIsWhole, Unheld, Grant!HeldByOperation
    <2>. QED  BY <1>4, <2>1, <2>2
<1>. QED  BY <1>1, <1>2, <1>3, <1>4

LEMMA BeginWrites ==
    ASSUME grant \in GrantFields, handler \in [Handlers -> HandlerRun], NEW p \in Handlers,
           Grant!transition_provider_reauthorization_attempt_to_started_cas(p)
    PROVE  \/ UNCHANGED grant /\ handler'[p].at = "done"
           \/ KeepsPair /\ KeepsIntent /\ KeepsQuarantine /\ grant.quarantined
           \/ /\ KeepsPair /\ KeepsQuarantine /\ grant'.bound = grant.bound /\ grant'.alias = grant.alias /\ ~grant.quarantined
              /\ grant.intent.id = p /\ grant.intent.phase = "reserved"
              /\ grant'.intent.id = p /\ grant'.intent.phase = "provider_request_started"
<1>1. \/ UNCHANGED grant /\ Grant!Step(p, "begin", "done")
      \/ Grant!Status = "quarantined_reauthorizing" /\ grant' = [grant EXCEPT !.attempt = Grant!Started(@)]
      \/ Grant!Mine(p, "connect", {"reserved"}) /\ grant' = [grant EXCEPT !.intent = Grant!Started(@)]
    BY DEF Grant!transition_provider_reauthorization_attempt_to_started_cas, Grant!MyAttempt, Grant!Startable
<1>2. CASE UNCHANGED grant /\ Grant!Step(p, "begin", "done")
    BY <1>2, StepMoves
<1>3. CASE Grant!Status = "quarantined_reauthorizing" /\ grant' = [grant EXCEPT !.attempt = Grant!Started(@)]
    <2>1. KeepsPair /\ KeepsIntent /\ KeepsQuarantine
        BY <1>3 DEF GrantFields, KeepsPair, KeepsIntent, KeepsQuarantine
    <2>. QED  BY <1>3, <2>1, StatusReads
<1>4. CASE Grant!Mine(p, "connect", {"reserved"}) /\ grant' = [grant EXCEPT !.intent = Grant!Started(@)]
    <2>1. /\ KeepsPair /\ KeepsQuarantine /\ grant'.bound = grant.bound /\ grant'.alias = grant.alias
          /\ grant'.intent.id = grant.intent.id /\ grant'.intent.phase = "provider_request_started"
        BY <1>4 DEF GrantFields, Grant!Intent, Grant!Started, KeepsPair, KeepsQuarantine
    <2>. QED  BY <1>4, <2>1, MineReads
<1>. QED  BY <1>1, <1>2, <1>3, <1>4

LEMMA CallbackWrites ==
    ASSUME grant \in GrantFields, NEW p \in Handlers, Grant!google_calendar_callback(p)
    PROVE  \/ UNCHANGED grant
           \/ KeepsPair /\ KeepsIntent /\ KeepsQuarantine
           \/ KeepsPair /\ DropsIntent /\ KeepsQuarantine /\ grant.intent.id = p /\ grant.intent.kind = "connect"
<1>1. \/ UNCHANGED grant
      \/ grant' = [grant EXCEPT !.attempt = Grant!NoIntent]
      \/ Grant!Mine(p, "connect", Grant!Phases) /\ grant' = Grant!Clear(grant)
    BY DEF Grant!google_calendar_callback
<1>2. CASE grant' = [grant EXCEPT !.attempt = Grant!NoIntent]
    BY <1>2 DEF GrantFields, KeepsPair, KeepsIntent, KeepsQuarantine
<1>3. CASE Grant!Mine(p, "connect", Grant!Phases) /\ grant' = Grant!Clear(grant)
    BY <1>3, MineReads, ClearWrites
<1>. QED  BY <1>1, <1>2, <1>3

LEMMA ConnectWrites ==
    ASSUME grant \in GrantFields, NEW p \in Handlers, Grant!connect_provider_cas(p)
    PROVE  \/ UNCHANGED grant
           \/ /\ DropsIntent /\ grant'.cred = grant.gen + 1 /\ grant'.gen = grant.gen + 1 /\ grant'.epoch = grant.epoch + 1
              /\ grant'.connected /\ ~grant'.quarantined /\ handler[p].read = Grant!Now
              /\ grant.quarantined \/ (grant.intent.id = p /\ grant.intent.kind = "connect")
<1>1. \/ UNCHANGED grant
      \/ /\ grant.quarantined \/ Grant!Mine(p, "connect", {"provider_request_started"})
         /\ handler[p].read = Grant!Now
         /\ grant' = [Grant!Clear(grant) EXCEPT !.connected = TRUE, !.cred = grant.gen + 1, !.gen = grant.gen + 1,
                                                !.epoch = grant.epoch + 1, !.quarantined = FALSE, !.attempt = Grant!NoIntent]
    BY DEF Grant!connect_provider_cas, Grant!Connectable, Grant!Connected, Grant!SameGrant
<1>2. ASSUME grant' = [Grant!Clear(grant) EXCEPT !.connected = TRUE, !.cred = grant.gen + 1, !.gen = grant.gen + 1,
                                                 !.epoch = grant.epoch + 1, !.quarantined = FALSE, !.attempt = Grant!NoIntent]
      PROVE  /\ DropsIntent /\ grant'.cred = grant.gen + 1 /\ grant'.gen = grant.gen + 1 /\ grant'.epoch = grant.epoch + 1
             /\ grant'.connected /\ ~grant'.quarantined
    BY <1>2 DEF GrantFields, Grant!Clear, Grant!NoIntent, DropsIntent
<1>. QED  BY <1>1, <1>2, MineReads

LEMMA DisconnectWrites ==
    ASSUME grant \in GrantFields, NEW p \in Handlers, Grant!disconnect_provider_envelope_cas(p)
    PROVE  \/ UNCHANGED grant
           \/ /\ DropsIntent /\ KeepsQuarantine /\ ~grant.quarantined /\ ~grant'.connected
              /\ grant'.cred = 0 /\ grant'.gen = grant.gen + 1
              /\ grant.intent.id = None \/ grant.intent.phase = "reserved"
<1>1. UNCHANGED grant \/ (Grant!Disconnectable /\ grant' = Grant!Disconnected)
    BY DEF Grant!disconnect_provider_envelope_cas
<1>2. ASSUME grant' = Grant!Disconnected
      PROVE  DropsIntent /\ KeepsQuarantine /\ ~grant'.connected /\ grant'.cred = 0 /\ grant'.gen = grant.gen + 1
    BY <1>2 DEF GrantFields, Grant!Disconnected, Grant!Clear, Grant!NoIntent, DropsIntent, KeepsQuarantine
<1>3. Grant!Disconnectable => ~grant.quarantined /\ (grant.intent.id = None \/ grant.intent.phase = "reserved")
    BY StatusReads DEF Grant!Disconnectable
<1>. QED  BY <1>1, <1>2, <1>3

LEMMA DisconnectRecords ==
    ASSUME grant \in GrantFields, handler \in [Handlers -> HandlerRun], NEW p \in Handlers,
           Grant!disconnect_provider_envelope_cas(p)
    PROVE  \/ /\ UNCHANGED revocation /\ handler'[p].at \in {"done", "finalize", "verify"}
              /\ handler'[p].at = "finalize" =>
                    grant'.gen = grant.gen /\ Entry(revocation, grant.gen).outbox \in Grant!TERMINAL_REVOCATION_STATUSES
           \/ /\ grant'.gen = grant.gen + 1 /\ handler'[p].at = "revoke"
              /\ revocation' = Grant!Recorded(grant.gen + 1, Grant!NewRevocation("provider_request_started", p))
           \/ /\ grant'.gen = grant.gen + 1 /\ handler'[p].at = "verify"
              /\ revocation' = Grant!Recorded(grant.gen + 1, Grant!NewRevocation("not_attempted_unavailable", None))
           \/ /\ grant'.gen = grant.gen /\ handler'[p].at = "verify" /\ Entry(revocation, grant.gen).outbox = "none"
              /\ revocation' = Grant!Recorded(grant.gen, Grant!NewRevocation("not_attempted_unavailable", None))
           \/ /\ grant'.gen = grant.gen /\ handler'[p].at = "verify"
              /\ Entry(revocation, grant.gen).final /\ Entry(revocation, grant.gen).outbox # "none"
              /\ revocation' = Grant!Recorded(grant.gen, [Entry(revocation, grant.gen) EXCEPT !.audit = Entry(revocation, grant.gen).outbox])
<1> DEFINE r == Entry(revocation, grant.gen)
           to == CASE ~Grant!Disconnectable -> "done"
                   [] Grant!Disconnectable /\ Grant!Tombstone /\ r.outbox \in Grant!TERMINAL_REVOCATION_STATUSES /\ ~r.final -> "finalize"
                   [] Grant!Disconnectable /\ ~Grant!Tombstone /\ grant.cred # 0 -> "revoke"
                   [] OTHER -> "verify"
<1>1. handler'[p].at = to
    BY DEF Grant!disconnect_provider_envelope_cas, HandlerRun, Entry, Grant!OnRecord
<1>2. Grant!Disconnected.gen = grant.gen + 1
    BY DEF GrantFields, Grant!Disconnected, Grant!Clear
<1>3. CASE ~Grant!Disconnectable
    BY <1>1, <1>3 DEF Grant!disconnect_provider_envelope_cas
<1>4. CASE Grant!Disconnectable /\ ~Grant!Tombstone
    BY <1>1, <1>2, <1>4 DEF Grant!disconnect_provider_envelope_cas
<1>5. CASE Grant!Disconnectable /\ Grant!Tombstone
    BY <1>1, <1>5, NewReads DEF Grant!disconnect_provider_envelope_cas, Entry, Grant!OnRecord
<1>. QED  BY <1>3, <1>4, <1>5

-----------------------------------------------------------------------------
(* What is on record of a disconnect.                                      *)

\* One run moves and writes one record: an outcome that was learnt stays, and nobody else's claim is touched.
LEMMA RecordMoves ==
    ASSUME RecordsStand, NEW p \in Handlers, NEW g, DOMAIN revocation' = DOMAIN revocation \cup {g},
           \A q \in Handlers : q # p => handler'[q] = handler[q],
           \A h : h # g => Entry(revocation', h) = Entry(revocation, h),
           Entry(revocation, g).outbox \in Grant!TERMINAL_REVOCATION_STATUSES =>
              Entry(revocation', g).outbox = Entry(revocation, g).outbox,
           \A q \in Handlers : q # p /\ handler[q].at \in {"revoke", "record"} /\ handler[q].read.gen = g =>
              Entry(revocation', g).claim = Entry(revocation, g).claim /\ Entry(revocation', g).outbox = Entry(revocation, g).outbox,
           Entry(revocation', g).final =>
              /\ Entry(revocation', g).audit = Entry(revocation', g).outbox
              /\ Entry(revocation', g).outbox \in Grant!TERMINAL_REVOCATION_STATUSES,
           handler'[p].at \in {"revoke", "record"} =>
              /\ Entry(revocation', handler'[p].read.gen).claim = p
              /\ Entry(revocation', handler'[p].read.gen).outbox = "provider_request_started",
           handler'[p].at = "record" => handler'[p].result \in Grant!TERMINAL_REVOCATION_STATUSES,
           handler'[p].at = "finalize" =>
              Entry(revocation', handler'[p].read.gen).outbox \in Grant!TERMINAL_REVOCATION_STATUSES,
           HandlerKind[p] = "disconnect" => ~handler'[p].tried
    PROVE  RecordsStand'
<1>1. \A h \in (DOMAIN revocation)' : Entry(revocation', h).final =>
          /\ Entry(revocation', h).audit = Entry(revocation', h).outbox
          /\ Entry(revocation', h).outbox \in Grant!TERMINAL_REVOCATION_STATUSES
    BY DEF RecordsStand
<1>2. \A h : Entry(revocation, h).outbox \in Grant!TERMINAL_REVOCATION_STATUSES =>
          Entry(revocation', h).outbox = Entry(revocation, h).outbox
    OBVIOUS
<1>3. ASSUME NEW q \in Handlers, q # p
      PROVE  /\ handler'[q].at \in {"revoke", "record"} =>
                   /\ Entry(revocation', handler'[q].read.gen).claim = q
                   /\ Entry(revocation', handler'[q].read.gen).outbox = "provider_request_started"
             /\ handler'[q].at = "record" => handler'[q].result \in Grant!TERMINAL_REVOCATION_STATUSES
             /\ handler'[q].at = "finalize" =>
                   Entry(revocation', handler'[q].read.gen).outbox \in Grant!TERMINAL_REVOCATION_STATUSES
             /\ HandlerKind[q] = "disconnect" =>
                   /\ handler'[q].tried => handler'[q].at \in {"done", "gone"}
                   /\ handler'[q].tried =>
                         /\ Entry(revocation', handler'[q].read.gen).outbox = handler'[q].result
                         /\ handler'[q].result \in Grant!TERMINAL_REVOCATION_STATUSES
    BY <1>2, <1>3 DEF RecordsStand
<1>. QED  BY <1>1, <1>3 DEF RecordsStand

\* A record that is not claimed is nobody's business until its outcome is known.
LEMMA DisconnectKeepsRecords ==
    ASSUME grant \in GrantFields, GrantIsWhole, NothingIsAhead, RecordsStand, handler \in [Handlers -> HandlerRun],
           DOMAIN revocation \subseteq Nat, revocation \in [DOMAIN revocation -> Grant!Revocation],
           NEW p \in Handlers, Grant!disconnect_provider_envelope_cas(p)
    PROVE  RecordsStand' /\ DOMAIN revocation' \subseteq 0 .. grant'.gen
<1> DEFINE old == Entry(revocation, grant.gen)
<1>1. /\ handler[p].at = "idle" /\ handler'[p].at \in {"done", "finalize", "revoke", "verify"} /\ handler'[p].read.gen = grant'.gen
      /\ handler'[p].tried = handler[p].tried
      /\ \A q \in Handlers : q # p => handler'[q] = handler[q]
      /\ HandlerKind[p] = "disconnect"
    BY DEF Grant!disconnect_provider_envelope_cas, HandlerRun
<1>2. ~handler'[p].tried /\ grant.gen \in Nat /\ grant'.gen \in {grant.gen, grant.gen + 1}
    BY <1>1, DisconnectWrites DEF RecordsStand, GrantFields
<1>3. /\ old \in Grant!Revocation /\ (old.outbox # "none" => grant.gen \in DOMAIN revocation)
      /\ grant.gen + 1 \notin DOMAIN revocation
      /\ \A q \in Handlers : handler[q].read.gen # grant.gen + 1
    BY <1>2 DEF Entry, Grant!Revocation, Grant!NoRevocation, Grant!Outcomes, NothingIsAhead, HandlerRun, Grant!Read
<1>4. old.final => old.audit = old.outbox /\ old.outbox \in Grant!TERMINAL_REVOCATION_STATUSES
    BY <1>3 DEF RecordsStand, Entry, Grant!NoRevocation
<1>5. Entry(revocation, grant.gen + 1).outbox = "none"
    BY <1>3 DEF Entry, Grant!NoRevocation
<1>6. "provider_request_started" \notin Grant!TERMINAL_REVOCATION_STATUSES /\ "none" \notin Grant!TERMINAL_REVOCATION_STATUSES
    BY DEF Grant!TERMINAL_REVOCATION_STATUSES
<1>7. old.outbox = "none" \/ old.final =>
          \A q \in Handlers : handler[q].at \in {"revoke", "record"} => handler[q].read.gen # grant.gen
    BY <1>4, <1>6 DEF RecordsStand
<1>8. CASE UNCHANGED revocation /\ handler'[p].at \in {"done", "finalize", "verify"}
           /\ (handler'[p].at = "finalize" => grant'.gen = grant.gen /\ old.outbox \in Grant!TERMINAL_REVOCATION_STATUSES)
    <2>1. \A h : Entry(revocation', h) = Entry(revocation, h)
        BY <1>8 DEF Entry
    <2>2. RecordsStand'
        BY <1>1, <1>2, <1>8, <2>1 DEF RecordsStand
    <2>. QED  BY <1>2, <1>8, <2>2 DEF NothingIsAhead
<1>9. ASSUME grant'.gen = grant.gen + 1,
             \/ /\ handler'[p].at = "revoke"
                /\ revocation' = Grant!Recorded(grant.gen + 1, Grant!NewRevocation("provider_request_started", p))
             \/ /\ handler'[p].at = "verify"
                /\ revocation' = Grant!Recorded(grant.gen + 1, Grant!NewRevocation("not_attempted_unavailable", None))
      PROVE  RecordsStand' /\ DOMAIN revocation' \subseteq 0 .. grant'.gen
    <2>1. /\ DOMAIN revocation' = DOMAIN revocation \cup {grant.gen + 1}
          /\ \A h : h # grant.gen + 1 => Entry(revocation', h) = Entry(revocation, h)
          /\ \/ /\ handler'[p].at = "revoke" /\ ~Entry(revocation', grant.gen + 1).final
                /\ Entry(revocation', grant.gen + 1).claim = p
                /\ Entry(revocation', grant.gen + 1).outbox = "provider_request_started"
             \/ /\ handler'[p].at = "verify"
                /\ Entry(revocation', grant.gen + 1).audit = Entry(revocation', grant.gen + 1).outbox
                /\ Entry(revocation', grant.gen + 1).outbox \in Grant!TERMINAL_REVOCATION_STATUSES
        <3>1. CASE handler'[p].at = "revoke" /\ revocation' = Grant!Recorded(grant.gen + 1, Grant!NewRevocation("provider_request_started", p))
            <4> DEFINE r == Grant!NewRevocation("provider_request_started", p)
            <4>1. r.outbox = "provider_request_started" /\ r.claim = p /\ ~r.final
                BY NewReads
            <4>2. revocation' = Grant!Recorded(grant.gen + 1, r)
                BY <3>1
            <4> HIDE DEF r
            <4>. QED  BY <1>6, <1>9, <3>1, <4>1, <4>2, RecordedReads
        <3>2. CASE handler'[p].at = "verify" /\ revocation' = Grant!Recorded(grant.gen + 1, Grant!NewRevocation("not_attempted_unavailable", None))
            <4> DEFINE r == Grant!NewRevocation("not_attempted_unavailable", None)
            <4>1. r.outbox = "not_attempted_unavailable" /\ r.audit = r.outbox /\ r.outbox \in Grant!TERMINAL_REVOCATION_STATUSES
                BY NewReads
            <4>2. revocation' = Grant!Recorded(grant.gen + 1, r)
                BY <3>2
            <4> HIDE DEF r
            <4>. QED  BY <1>9, <3>2, <4>1, <4>2, RecordedReads
        <3>. QED  BY <1>9, <3>1, <3>2
    <2>2. RecordsStand'
        BY <1>1, <1>2, <1>3, <1>5, <1>6, <1>9, <2>1, RecordMoves
    <2>. QED  BY <1>2, <1>9, <2>1, <2>2 DEF NothingIsAhead
<1>10. ASSUME grant'.gen = grant.gen, handler'[p].at = "verify",
              \/ /\ old.outbox = "none"
                 /\ revocation' = Grant!Recorded(grant.gen, Grant!NewRevocation("not_attempted_unavailable", None))
              \/ /\ old.final /\ old.outbox # "none"
                 /\ revocation' = Grant!Recorded(grant.gen, [old EXCEPT !.audit = old.outbox])
       PROVE  RecordsStand' /\ DOMAIN revocation' \subseteq 0 .. grant'.gen
    <2>1. [old EXCEPT !.audit = old.outbox].outbox = old.outbox /\ [old EXCEPT !.audit = old.outbox].audit = old.outbox
        BY <1>3 DEF Grant!Revocation
    <2>2. /\ DOMAIN revocation' = DOMAIN revocation \cup {grant.gen}
          /\ \A h : h # grant.gen => Entry(revocation', h) = Entry(revocation, h)
          /\ Entry(revocation', grant.gen).audit = Entry(revocation', grant.gen).outbox
          /\ Entry(revocation', grant.gen).outbox \in Grant!TERMINAL_REVOCATION_STATUSES
          /\ old.outbox \in Grant!TERMINAL_REVOCATION_STATUSES => Entry(revocation', grant.gen).outbox = old.outbox
        <3>1. CASE old.outbox = "none" /\ revocation' = Grant!Recorded(grant.gen, Grant!NewRevocation("not_attempted_unavailable", None))
            <4> DEFINE r == Grant!NewRevocation("not_attempted_unavailable", None)
            <4>1. r.outbox = "not_attempted_unavailable" /\ r.audit = r.outbox /\ r.outbox \in Grant!TERMINAL_REVOCATION_STATUSES
                BY NewReads
            <4>2. revocation' = Grant!Recorded(grant.gen, r)
                BY <3>1
            <4> HIDE DEF r
            <4>. QED  BY <1>6, <1>10, <3>1, <4>1, <4>2, RecordedReads
        <3>2. CASE old.final /\ revocation' = Grant!Recorded(grant.gen, [old EXCEPT !.audit = old.outbox])
            <4>1. Entry(revocation', grant.gen) = [old EXCEPT !.audit = old.outbox]
                BY <3>2, RecordedReads
            <4>. QED  BY <3>2, <4>1, <2>1, <1>4, RecordedReads
        <3>. QED  BY <1>10, <3>1, <3>2
    <2>3. \A q \in Handlers : handler[q].at \in {"revoke", "record"} => handler[q].read.gen # grant.gen
        BY <1>7, <1>10
    <2> HIDE DEF old
    <2>4. RecordsStand'
        BY <1>1, <1>2, <2>2, <2>3, RecordMoves, <1>10 DEF old
    <2>. QED  BY <1>2, <1>10, <2>2, <2>4 DEF NothingIsAhead
<1>. QED  BY <1>8, <1>9, <1>10, DisconnectRecords

LEMMA RecordKeepsRecords ==
    ASSUME RecordsStand, handler \in [Handlers -> HandlerRun],
           DOMAIN revocation \subseteq Nat, revocation \in [DOMAIN revocation -> Grant!Revocation],
           NEW p \in Handlers, HandlerKind[p] = "disconnect", Grant!record_revocation_outcome_cas(p)
    PROVE  RecordsStand' /\ DOMAIN revocation' = DOMAIN revocation
<1> DEFINE g == handler[p].read.gen
           old == Entry(revocation, g)
<1>1. /\ handler[p].at = "record" /\ handler'[p].at = "finalize" /\ handler'[p].read = handler[p].read
      /\ handler'[p].tried = handler[p].tried
      /\ \A q \in Handlers : q # p => handler'[q] = handler[q]
    BY StepMoves DEF Grant!record_revocation_outcome_cas
<1>2. /\ old.claim = p /\ old.outbox = "provider_request_started" /\ ~handler'[p].tried
      /\ handler[p].result \in Grant!TERMINAL_REVOCATION_STATUSES
      /\ \A q \in Handlers : q # p /\ handler[q].at \in {"revoke", "record"} => handler[q].read.gen # g
    BY <1>1 DEF RecordsStand
<1>3. old \in Grant!Revocation /\ g \in DOMAIN revocation
    BY <1>2 DEF Entry, Grant!NoRevocation
<1>4. revocation' = Grant!Recorded(g, [old EXCEPT !.outbox = handler[p].result])
    BY <1>2 DEF Grant!record_revocation_outcome_cas, Entry, Grant!OnRecord
<1>5. "provider_request_started" \notin Grant!TERMINAL_REVOCATION_STATUSES
    BY DEF Grant!TERMINAL_REVOCATION_STATUSES
<1>6. ~old.final
    BY <1>2, <1>3, <1>5 DEF RecordsStand
<1>7. /\ Entry(revocation', g).outbox = handler[p].result /\ ~Entry(revocation', g).final
      /\ DOMAIN revocation' = DOMAIN revocation \cup {g}
      /\ \A h : h # g => Entry(revocation', h) = Entry(revocation, h)
    <2>1. [old EXCEPT !.outbox = handler[p].result].outbox = handler[p].result
          /\ ~[old EXCEPT !.outbox = handler[p].result].final
        BY <1>3, <1>6 DEF Grant!Revocation
    <2>2. Entry(revocation', g) = [old EXCEPT !.outbox = handler[p].result]
        BY <1>4, RecordedReads
    <2>. QED  BY <1>4, <2>1, <2>2, RecordedReads
<1>8. handler'[p].read.gen = g
    BY <1>1
<1>9. RecordsStand'
    <2> HIDE DEF g, old
    <2>. QED  BY <1>1, <1>2, <1>5, <1>7, <1>8, RecordMoves DEF old
<1>. QED  BY <1>3, <1>7, <1>9

LEMMA FinalizeKeepsRecords ==
    ASSUME RecordsStand, handler \in [Handlers -> HandlerRun],
           DOMAIN revocation \subseteq Nat, revocation \in [DOMAIN revocation -> Grant!Revocation],
           NEW p \in Handlers, HandlerKind[p] = "disconnect", Grant!finalize_revocation_audit_cas(p)
    PROVE  RecordsStand' /\ DOMAIN revocation' = DOMAIN revocation
<1> DEFINE g == handler[p].read.gen
           old == Entry(revocation, g)
<1>1. /\ handler[p].at = "finalize" /\ handler'[p].at = "verify" /\ handler'[p].read = handler[p].read
      /\ handler'[p].tried = handler[p].tried
      /\ \A q \in Handlers : q # p => handler'[q] = handler[q]
    BY StepMoves DEF Grant!finalize_revocation_audit_cas
<1>2. old.outbox \in Grant!TERMINAL_REVOCATION_STATUSES /\ ~handler'[p].tried
    BY <1>1 DEF RecordsStand
<1>3. old \in Grant!Revocation /\ g \in DOMAIN revocation
    BY <1>2 DEF Entry, Grant!NoRevocation, Grant!TERMINAL_REVOCATION_STATUSES
<1>4. CASE UNCHANGED revocation
    <2>1. \A h : Entry(revocation', h) = Entry(revocation, h)
        BY <1>4 DEF Entry
    <2>. QED  BY <1>1, <1>2, <1>4, <2>1 DEF RecordsStand
<1>5. CASE revocation' = Grant!Recorded(g, [old EXCEPT !.audit = old.outbox, !.final = TRUE])
    <2>1. /\ [old EXCEPT !.audit = old.outbox, !.final = TRUE].outbox = old.outbox
          /\ [old EXCEPT !.audit = old.outbox, !.final = TRUE].audit = old.outbox
          /\ [old EXCEPT !.audit = old.outbox, !.final = TRUE].claim = old.claim
        BY <1>3 DEF Grant!Revocation
    <2>2. /\ Entry(revocation', g).outbox = old.outbox /\ Entry(revocation', g).audit = old.outbox
          /\ Entry(revocation', g).claim = old.claim
          /\ DOMAIN revocation' = DOMAIN revocation \cup {g}
          /\ \A h : h # g => Entry(revocation', h) = Entry(revocation, h)
        BY <1>5, <2>1, RecordedReads
    <2>3. handler'[p].read.gen = g
        BY <1>1
    <2>4. RecordsStand'
        <3> HIDE DEF g, old
        <3>. QED  BY <1>1, <1>2, <2>2, <2>3, RecordMoves DEF old
    <2>. QED  BY <1>3, <2>2, <2>4
<1>. QED  BY <1>4, <1>5 DEF Grant!finalize_revocation_audit_cas, Entry, Grant!OnRecord


GrantParts ==
    /\ KeepsToItsSteps /\ GrantIsWhole /\ NothingIsAhead /\ PairsAreFenced /\ PatchesAreHeld
    /\ RequestsAreAnnounced /\ ConsentFits /\ RecordsStand

LEMMA GrantStep == GrantInv /\ Grant!TypeOK' /\ [Grant!Next]_grantVars => GrantParts'
<1> SUFFICES ASSUME Grant!TypeOK, GrantParts, Grant!TypeOK', [Grant!Next]_grantVars PROVE GrantParts'
    BY DEF GrantInv, GrantParts
<1>t. /\ grant \in GrantFields /\ handler \in [Handlers -> HandlerRun]
      /\ moved \in [Handlers -> {"none", "flying", "moved", "refused", "known"}]
      /\ states \in [ConsentPages -> [at : {"none", "fresh", "expired", "gone"}, read : Grant!Read]]
      /\ DOMAIN revocation \subseteq Nat /\ revocation \in [DOMAIN revocation -> Grant!Revocation]
    BY DEF Grant!TypeOK, GrantFields, HandlerRun
<1>n. /\ grant.gen \in Nat /\ grant.epoch \in Nat /\ grant.cred \in Nat /\ grant.quarantined \in BOOLEAN /\ grant.connected \in BOOLEAN
      /\ \A p \in Handlers : handler[p].read.gen \in Nat /\ handler[p].read.cred \in Nat
      /\ presented \subseteq Nat
    BY <1>t DEF GrantFields, HandlerRun, Grant!Read, Grant!TypeOK
<1>k. /\ \A p \in Handlers : HandlerKind[p] \in HandlerKinds
      /\ \A p \in Handlers : HandlerKind[p] = "reconcile" => Asks[p] \in Handlers /\ HandlerKind[Asks[p]] = "patch"
      /\ \A p \in Handlers : HandlerKind[p] = "connect" => PageOf[p] \in ConsentPages
      /\ None \notin Handlers
    BY GrantConstants
<1>r. RecordsStand /\ NothingIsAhead /\ GrantIsWhole
    BY DEF GrantParts
<1>p. presented \subseteq 1 .. grant.gen
    BY DEF GrantParts, NothingIsAhead
<1>c. grant.cred = 0 \/ grant.cred \in 1 .. grant.gen
    BY <1>n DEF GrantParts, NothingIsAhead
<1> USE <1>n, <1>k DEF GrantParts, KeepsToItsSteps, GrantIsWhole, NothingIsAhead, PairsAreFenced, PatchesAreHeld,
    RequestsAreAnnounced, ConsentFits, RecordsStand, Held, Refreshing, HandlerKinds, KeepsPair, KeepsIntent, DropsIntent, KeepsQuarantine, Unheld
<1>1. ASSUME Grant!Expire PROVE GrantParts'
    <2>1. UNCHANGED <<handler, revocation, presented, moved>>
        BY <1>1 DEF Grant!Expire
    <2>2. /\ grant'.connected = grant.connected /\ grant'.gen = grant.gen /\ grant'.epoch = grant.epoch /\ grant'.cred = grant.cred
          /\ grant'.quarantined = grant.quarantined /\ grant'.bound = grant.bound /\ grant'.alias = grant.alias
          /\ grant'.intent.id = grant.intent.id /\ grant'.intent.kind = grant.intent.kind /\ grant'.intent.phase = grant.intent.phase
        BY <1>1, <1>t DEF Grant!Expire, GrantFields, Grant!Intent
    <2>3. \A page \in ConsentPages : states'[page].read = states[page].read /\ (states[page].at # "none" => states'[page].at # "none")
        BY <1>1, <1>t DEF Grant!Expire
    <2>. QED  BY <2>1, <2>2, <2>3 DEF Grant!Now
<1>2. ASSUME NEW page \in ConsentPages, Grant!create_oauth_state(page) PROVE GrantParts'
    <2>1. UNCHANGED <<grant, handler, revocation, presented, moved>>
        BY <1>2 DEF Grant!create_oauth_state
    <2>2. \A c \in ConsentPages : states[c].at # "none" => states'[c] = states[c]
        BY <1>2, <1>t DEF Grant!create_oauth_state
    <2>. QED  BY <2>1, <2>2 DEF Grant!Now
<1>3. ASSUME NEW p \in Handlers, Grant!Open(p) PROVE GrantParts'
    <2>1. UNCHANGED <<grant, revocation, states, presented, moved>>
        BY <1>3 DEF Grant!Open, Grant!Ledger
    <2>2. /\ handler[p].at = "idle" /\ handler'[p].at \in {"preflight", "read"} /\ handler'[p].read = handler[p].read
          /\ handler'[p].tried = handler[p].tried /\ handler'[p].result = handler[p].result
          /\ \A q \in Handlers : q # p => handler'[q] = handler[q]
          /\ (handler'[p].at = "preflight" => HandlerKind[p] = "refresh")
          /\ HandlerKind[p] \in {"refresh", "business", "patch"}
        BY <1>3, <1>t, StepMoves DEF Grant!Open
    <2>. QED  BY <2>1, <2>2 DEF Grant!Now
<1>4. ASSUME NEW p \in Handlers, Grant!check_and_recover_expired_intent_preflight_cas(p) PROVE GrantParts'
    <2>1. UNCHANGED <<revocation, states, presented, moved>>
        BY <1>4 DEF Grant!check_and_recover_expired_intent_preflight_cas, Grant!Ledger
    <2>2. /\ handler[p].at = "preflight" /\ handler'[p].at \in {"read", "done"} /\ handler'[p].read = handler[p].read
          /\ handler'[p].tried = handler[p].tried /\ handler'[p].result = handler[p].result
          /\ \A q \in Handlers : q # p => handler'[q] = handler[q]
        BY <1>4, <1>t, StepMoves DEF Grant!check_and_recover_expired_intent_preflight_cas
    <2>3. \/ UNCHANGED grant
          \/ KeepsPair /\ DropsIntent /\ KeepsQuarantine /\ ~grant.quarantined /\ grant.intent.phase = "reserved"
          \/ KeepsPair /\ DropsIntent /\ grant'.quarantined /\ Unheld
        BY <1>4, <1>t, PreflightWrites
    <2>. QED  BY <2>1, <2>2, <2>3 DEF Grant!Now
<1>5. ASSUME NEW p \in Handlers, Grant!ReadGrant(p) PROVE GrantParts'
    <2>1. UNCHANGED <<grant, revocation, states, presented, moved>>
        BY <1>5 DEF Grant!ReadGrant, Grant!Ledger
    <2>2. /\ handler[p].at = "read" /\ handler'[p].tried = handler[p].tried /\ handler'[p].result = handler[p].result
          /\ \A q \in Handlers : q # p => handler'[q] = handler[q]
          /\ \/ handler'[p].at = "done" /\ handler'[p].read = handler[p].read
             \/ handler'[p].at = "acquire" /\ handler'[p].read = Grant!Now /\ grant.connected
        BY <1>5, <1>t DEF Grant!ReadGrant, Grant!Step, Grant!load_durable_provider_snapshot, HandlerRun
    <2>. QED  BY <2>1, <2>2 DEF Grant!Now
<1>6. ASSUME NEW p \in Handlers, handler[p].at = "acquire", Grant!acquire_provider_operation_intent_cas(p) PROVE GrantParts'
    <2>1. UNCHANGED <<revocation, states, presented, moved>>
        BY <1>6 DEF Grant!acquire_provider_operation_intent_cas, Grant!Ledger
    <2>2. /\ handler[p].at = "acquire" /\ handler'[p].at \in {"start", "done"} /\ handler'[p].read = handler[p].read
          /\ handler'[p].tried = handler[p].tried /\ handler'[p].result = handler[p].result
          /\ \A q \in Handlers : q # p => handler'[q] = handler[q]
        BY <1>6, <1>t, AcquireMoves
    <2>3. /\ \/ UNCHANGED grant
             \/ KeepsPair /\ DropsIntent /\ grant'.quarantined /\ Unheld
             \/ /\ KeepsPair /\ KeepsQuarantine /\ ~grant.quarantined /\ Unheld
                /\ grant'.intent.id = p /\ grant'.intent.phase = "reserved"
                /\ grant.intent.phase # "provider_request_started"
          /\ handler'[p].at = "start" => grant'.intent.id = p /\ (HandlerKind[p] = "patch" => grant'.bound = p)
        BY <1>6, <1>t, AcquireWrites
    <2>4. KeepsToItsSteps'
        BY <2>1, <2>2, <2>3 DEF Grant!Now
    <2>5. GrantIsWhole'
        BY <2>1, <2>2, <2>3 DEF Grant!Now
    <2>6. NothingIsAhead'
        BY <2>1, <2>2, <2>3 DEF Grant!Now
    <2>7. PairsAreFenced'
        BY <2>1, <2>2, <2>3 DEF Grant!Now
    <2>8. PatchesAreHeld'
        BY <2>1, <2>2, <2>3 DEF Grant!Now
    <2>9. RequestsAreAnnounced'
        BY <2>1, <2>2, <2>3 DEF Grant!Now
    <2>10. ConsentFits'
        BY <2>1, <2>2, <2>3 DEF Grant!Now
    <2>11. RecordsStand'
        BY <2>1, <2>2, <2>3 DEF Grant!Now
    <2>. QED  BY <2>4, <2>5, <2>6, <2>7, <2>8, <2>9, <2>10, <2>11
<1>7. ASSUME NEW p \in Handlers, handler[p].at = "start", Grant!transition_provider_operation_intent_to_started_cas(p) PROVE GrantParts'
    <2>1. UNCHANGED <<revocation, states, presented, moved>>
        BY <1>7 DEF Grant!transition_provider_operation_intent_to_started_cas, Grant!release_provider_operation_intent_cas, Grant!Ledger
    <2>2. /\ handler[p].at = "start" /\ handler'[p].at \in {"http", "done"} /\ handler'[p].read = handler[p].read
          /\ handler'[p].tried = handler[p].tried /\ handler'[p].result = handler[p].result
          /\ \A q \in Handlers : q # p => handler'[q] = handler[q]
        BY <1>7, <1>t, StepMoves DEF Grant!transition_provider_operation_intent_to_started_cas, Grant!release_provider_operation_intent_cas
    <2>3. \/ UNCHANGED grant /\ handler'[p].at = "done"
          \/ /\ handler'[p].at = "done" /\ grant.intent.id = p /\ grant.intent.phase = "reserved"
             /\ KeepsPair /\ DropsIntent /\ KeepsQuarantine
          \/ /\ handler'[p].at = "http" /\ handler[p].read = Grant!Now /\ ~grant.quarantined
             /\ KeepsPair /\ KeepsQuarantine /\ grant'.bound = grant.bound /\ grant'.alias = grant.alias
             /\ grant.intent.id = p /\ grant.intent.phase = "reserved" /\ grant.intent.kind = Grant!IntentKind(p)
             /\ grant'.intent.id = p /\ grant'.intent.kind = grant.intent.kind
             /\ grant'.intent.phase = "provider_request_started"
             /\ grant.alias # None => grant.intent.kind = "refresh"
        BY <1>7, <1>t, StartWrites
    <2>4. /\ HandlerKind[p] = "refresh" => Grant!IntentKind(p) = "refresh"
          /\ HandlerKind[p] \in {"business", "patch"} => Grant!IntentKind(p) = "business"
        BY IntentKinds
    <2>. QED  BY <2>1, <2>2, <2>3, <2>4 DEF Grant!Now
<1>8. ASSUME NEW p \in Handlers, Grant!Send(p) PROVE GrantParts'
    <2>1. UNCHANGED <<grant, revocation, states>>
        BY <1>8 DEF Grant!Send
    <2>2. /\ handler[p].at = "http" /\ handler'[p].at = "answer" /\ handler'[p].read = handler[p].read
          /\ handler'[p].tried = handler[p].tried /\ handler'[p].result = handler[p].result
          /\ \A q \in Handlers : q # p => handler'[q] = handler[q]
        BY <1>8, <1>t, StepMoves DEF Grant!Send
    <2>3. presented' = IF HandlerKind[p] = "refresh" THEN presented \cup {handler[p].read.cred} ELSE presented
        BY <1>8 DEF Grant!Send
    <2>4. /\ \A q \in Handlers : q # p => moved'[q] = moved[q]
          /\ moved'[p] = IF HandlerKind[p] = "patch" THEN "flying" ELSE moved[p]
        BY <1>8, <1>t DEF Grant!Send
    <2>5. handler[p].read.cred \in 1 .. grant.gen
        BY <2>2
    <2>6. presented' \subseteq 1 .. grant.gen
        BY <1>8, <1>r, <1>t, SendPresents
    <2>7. KeepsToItsSteps'
        BY <2>1, <2>2, <2>3, <2>4, <2>5, <2>6 DEF Grant!Now
    <2>8. GrantIsWhole'
        BY <2>1, <2>2, <2>3, <2>4, <2>5, <2>6 DEF Grant!Now
    <2>9. NothingIsAhead'
        BY <2>1, <2>2, <2>3, <2>4, <2>5, <2>6 DEF Grant!Now
    <2>10. PairsAreFenced'
        BY <2>1, <2>2, <2>3, <2>4, <2>5, <2>6 DEF Grant!Now
    <2>11. PatchesAreHeld'
        BY <2>1, <2>2, <2>3, <2>4, <2>5, <2>6 DEF Grant!Now
    <2>12. RequestsAreAnnounced'
        BY <2>1, <2>2, <2>3, <2>4, <2>5, <2>6 DEF Grant!Now
    <2>13. ConsentFits'
        BY <2>1, <2>2, <2>3, <2>4, <2>5, <2>6 DEF Grant!Now
    <2>14. RecordsStand'
        BY <2>1, <2>2, <2>3, <2>4, <2>5, <2>6 DEF Grant!Now
    <2>. QED  BY <2>7, <2>8, <2>9, <2>10, <2>11, <2>12, <2>13, <2>14
<1>9. ASSUME NEW p \in Handlers, Grant!Arrive(p) PROVE GrantParts'
    <2>1. UNCHANGED <<grant, revocation, states, handler, presented>>
        BY <1>9 DEF Grant!Arrive
    <2>2. /\ \A q \in Handlers : q # p => moved'[q] = moved[q]
          /\ moved[p] = "flying" /\ moved'[p] \in {"moved", "refused"}
        BY <1>9, <1>t DEF Grant!Arrive
    <2>. QED  BY <2>1, <2>2 DEF Grant!Now
<1>10. ASSUME NEW p \in Handlers, Grant!Answer(p) PROVE GrantParts'
    <2>1. UNCHANGED <<grant, revocation, states, presented>>
        BY <1>10 DEF Grant!Answer, Grant!RefreshAnswer, Grant!CallAnswer, Grant!PatchAnswer
    <2>2. \A q \in Handlers : q # p => moved'[q] = moved[q]
        BY <1>10, <1>t DEF Grant!Answer, Grant!RefreshAnswer, Grant!CallAnswer, Grant!PatchAnswer
    <2>3. /\ handler[p].at = "answer" /\ handler'[p].at \in {"persist", "quarantine", "terminalize", "done", "uncertain"} /\ handler'[p].read = handler[p].read
          /\ handler'[p].tried = handler[p].tried /\ handler'[p].result = handler[p].result
          /\ \A q \in Handlers : q # p => handler'[q] = handler[q]
        BY <1>10, <1>t, StepMoves DEF Grant!Answer, Grant!RefreshAnswer, Grant!CallAnswer, Grant!PatchAnswer
    <2>4. \/ HandlerKind[p] = "refresh" /\ handler'[p].at \in {"persist", "quarantine"} /\ moved'[p] = moved[p]
          \/ HandlerKind[p] = "business" /\ handler'[p].at \in {"terminalize", "done"} /\ moved'[p] = moved[p]
          \/ HandlerKind[p] = "patch" /\ handler'[p].at = "uncertain" /\ moved'[p] = moved[p]
          \/ /\ HandlerKind[p] = "patch" /\ handler'[p].at = "terminalize" /\ moved[p] \in {"moved", "refused"}
             /\ moved'[p] = IF moved[p] = "moved" THEN "known" ELSE moved[p]
        BY <1>10, <1>t, StepMoves DEF Grant!Answer, Grant!RefreshAnswer, Grant!CallAnswer, Grant!PatchAnswer
    <2>. QED  BY <2>1, <2>2, <2>3, <2>4 DEF Grant!Now
<1>11. ASSUME NEW p \in Handlers, Grant!Retry(p) PROVE GrantParts'
    <2>1. UNCHANGED <<revocation, states, presented, moved>>
        BY <1>11 DEF Grant!Retry, Grant!Ledger
    <2>2. /\ handler[p].at = "terminalize" /\ handler'[p].at = "read" /\ handler'[p].read = handler[p].read /\ handler'[p].result = handler[p].result
          /\ \A q \in Handlers : q # p => handler'[q] = handler[q]
          /\ HandlerKind[p] \in {"business", "patch"} /\ moved[p] # "known"
        BY <1>11, <1>t DEF Grant!Retry, HandlerRun
    <2>3. KeepsPair /\ DropsIntent /\ KeepsQuarantine /\ grant.intent.id = p /\ grant.intent.kind = "business"
        BY <1>11, <1>t, RetryWrites
    <2>. QED  BY <2>1, <2>2, <2>3 DEF Grant!Now
<1>12. ASSUME NEW p \in Handlers, Grant!terminalize_provider_operation_intent_cas(p) PROVE GrantParts'
    <2>1. UNCHANGED <<revocation, states, presented, moved>>
        BY <1>12 DEF Grant!terminalize_provider_operation_intent_cas, Grant!Ledger
    <2>2. /\ handler[p].at = "terminalize" /\ handler'[p].at = "done" /\ handler'[p].read = handler[p].read
          /\ handler'[p].tried = handler[p].tried /\ handler'[p].result = handler[p].result
          /\ \A q \in Handlers : q # p => handler'[q] = handler[q]
        BY <1>12, <1>t, StepMoves DEF Grant!terminalize_provider_operation_intent_cas
    <2>3. \/ UNCHANGED grant
          \/ /\ KeepsPair /\ DropsIntent /\ KeepsQuarantine
             /\ grant.intent.id = p /\ grant.intent.kind = Grant!IntentKind(p)
        BY <1>12, <1>t, TerminalizeWrites
    <2>4. HandlerKind[p] \in {"business", "patch"} => Grant!IntentKind(p) = "business"
        BY IntentKinds
    <2>. QED  BY <2>1, <2>2, <2>3, <2>4 DEF Grant!Now
<1>13. ASSUME NEW p \in Handlers, Grant!persist_refreshed_tokens_cas(p) PROVE GrantParts'
    <2>1. UNCHANGED <<revocation, states, presented, moved>>
        BY <1>13 DEF Grant!persist_refreshed_tokens_cas, Grant!Persistable, Grant!Refreshed, Grant!Ledger
    <2>2. /\ handler[p].at = "persist" /\ handler'[p].at \in {"done", "quarantine"} /\ handler'[p].read = handler[p].read
          /\ handler'[p].tried = handler[p].tried /\ handler'[p].result = handler[p].result
          /\ \A q \in Handlers : q # p => handler'[q] = handler[q]
        BY <1>13, <1>t, StepMoves DEF Grant!persist_refreshed_tokens_cas, Grant!Persistable, Grant!Refreshed
    <2>3. \/ UNCHANGED grant
          \/ /\ DropsIntent /\ KeepsQuarantine /\ ~grant.quarantined /\ grant'.connected = grant.connected /\ grant'.epoch = grant.epoch
             /\ grant'.cred = grant.gen + 1 /\ grant'.gen = grant.gen + 1
             /\ grant.intent.id = p /\ grant.intent.kind = "refresh" /\ handler[p].read.cred = grant.cred
        BY <1>13, <1>t, PersistWrites
    <2>. QED  BY <2>1, <2>2, <2>3 DEF Grant!Now
<1>14. ASSUME NEW p \in Handlers, Grant!quarantine_provider_reauth_cas(p) PROVE GrantParts'
    <2>1. UNCHANGED <<revocation, states, presented, moved>>
        BY <1>14 DEF Grant!quarantine_provider_reauth_cas, Grant!Ledger
    <2>2. /\ handler[p].at = "quarantine" /\ handler'[p].at = "done" /\ handler'[p].read = handler[p].read
          /\ handler'[p].tried = handler[p].tried /\ handler'[p].result = handler[p].result
          /\ \A q \in Handlers : q # p => handler'[q] = handler[q]
        BY <1>14, <1>t, StepMoves DEF Grant!quarantine_provider_reauth_cas
    <2>3. \/ UNCHANGED grant
          \/ KeepsPair /\ DropsIntent /\ grant'.quarantined /\ grant.intent.id = p /\ grant.intent.kind = "refresh"
        BY <1>14, <1>t, ReauthWrites
    <2>. QED  BY <2>1, <2>2, <2>3 DEF Grant!Now
<1>15. ASSUME NEW p \in Handlers, Grant!transition_google_calendar_operation_intent_to_outcome_uncertain_cas(p) PROVE GrantParts'
    <2>1. UNCHANGED <<revocation, states, presented, moved>>
        BY <1>15 DEF Grant!transition_google_calendar_operation_intent_to_outcome_uncertain_cas, Grant!Ledger
    <2>2. /\ handler[p].at = "uncertain" /\ handler'[p].at = "done" /\ handler'[p].read = handler[p].read
          /\ handler'[p].tried = handler[p].tried /\ handler'[p].result = handler[p].result
          /\ \A q \in Handlers : q # p => handler'[q] = handler[q]
        BY <1>15, <1>t, StepMoves DEF Grant!transition_google_calendar_operation_intent_to_outcome_uncertain_cas
    <2>3. \/ UNCHANGED grant
          \/ /\ grant'.cred = grant.cred /\ grant'.gen = grant.gen /\ grant'.epoch = grant.epoch /\ grant'.connected = grant.connected
             /\ grant'.quarantined = grant.quarantined /\ grant'.bound = grant.bound /\ grant'.alias = grant.alias
             /\ grant.intent.id = p /\ grant.intent.kind = "business" /\ grant'.intent.id = p /\ grant'.intent.kind = "business"
             /\ grant'.intent.phase = "provider_outcome_uncertain" /\ ~grant.quarantined
        BY <1>15, <1>t, MineReads DEF Grant!transition_google_calendar_operation_intent_to_outcome_uncertain_cas, GrantFields, Grant!Intent
    <2>. QED  BY <2>1, <2>2, <2>3 DEF Grant!Now
<1>16. ASSUME NEW p \in Handlers, Grant!reconcile_reschedule_appointment(p) PROVE GrantParts'
    <2>1. UNCHANGED <<grant, revocation, states, presented, moved>>
        BY <1>16 DEF Grant!reconcile_reschedule_appointment, Grant!Ledger
    <2>2. /\ handler[p].at = "idle" /\ handler'[p].at \in {"ask", "done"} /\ handler'[p].read = handler[p].read
          /\ handler'[p].tried = handler[p].tried /\ handler'[p].result = handler[p].result
          /\ \A q \in Handlers : q # p => handler'[q] = handler[q]
          /\ HandlerKind[p] = "reconcile"
        BY <1>16, <1>t, StepMoves DEF Grant!reconcile_reschedule_appointment
    <2>. QED  BY <2>1, <2>2 DEF Grant!Now
<1>17. ASSUME NEW p \in Handlers, Grant!AskCalendar(p) PROVE GrantParts'
    <2>1. UNCHANGED <<grant, revocation, states, presented>>
        BY <1>17 DEF Grant!AskCalendar
    <2>2. /\ handler[p].at = "ask" /\ handler'[p].at \in {"clear", "done"} /\ handler'[p].read = handler[p].read
          /\ handler'[p].tried = handler[p].tried /\ handler'[p].result = handler[p].result
          /\ \A q \in Handlers : q # p => handler'[q] = handler[q]
          /\ HandlerKind[p] = "reconcile" /\ Asks[p] \in Handlers /\ HandlerKind[Asks[p]] = "patch"
        BY <1>17, <1>t, StepMoves DEF Grant!AskCalendar
    <2>3. \/ UNCHANGED moved /\ handler'[p].at = "done"
          \/ /\ moved[Asks[p]] \in {"moved", "known"} /\ moved'[Asks[p]] = "known"
             /\ \A q \in Handlers : q # Asks[p] => moved'[q] = moved[q]
        BY <1>17, <1>t, <2>2, StepMoves DEF Grant!AskCalendar
    <2>. QED  BY <2>1, <2>2, <2>3 DEF Grant!Now
<1>18. ASSUME NEW p \in Handlers, Grant!clear_reconciled_google_calendar_operation_intent_cas(p) PROVE GrantParts'
    <2>1. UNCHANGED <<revocation, states, presented, moved>>
        BY <1>18 DEF Grant!clear_reconciled_google_calendar_operation_intent_cas, Grant!Ledger
    <2>2. /\ handler[p].at = "clear" /\ handler'[p].at = "done" /\ handler'[p].read = handler[p].read
          /\ handler'[p].tried = handler[p].tried /\ handler'[p].result = handler[p].result
          /\ \A q \in Handlers : q # p => handler'[q] = handler[q]
        BY <1>18, <1>t, StepMoves DEF Grant!clear_reconciled_google_calendar_operation_intent_cas
    <2>3. \/ UNCHANGED grant
          \/ KeepsPair /\ DropsIntent /\ KeepsQuarantine /\ grant.intent.id = Asks[p] /\ grant.intent.kind = "business"
        BY <1>18, <1>t, ReconciledWrites
    <2>. QED  BY <2>1, <2>2, <2>3 DEF Grant!Now
<1>19. ASSUME NEW p \in Handlers, Grant!consume_oauth_state(p) PROVE GrantParts'
    <2>1. UNCHANGED <<revocation, presented, moved>>
        BY <1>19 DEF Grant!consume_oauth_state
    <2>2. /\ handler[p].at = "idle" /\ handler'[p].at \in {"begin", "done"} /\ handler'[p].read = Grant!Now /\ handler'[p].result = handler[p].result
          /\ \A q \in Handlers : q # p => handler'[q] = handler[q]
          /\ HandlerKind[p] = "connect"
        BY <1>19, <1>t DEF Grant!consume_oauth_state, HandlerRun
    <2>3. /\ PageOf[p] \in ConsentPages /\ states[PageOf[p]].at # "none" /\ states'[PageOf[p]].at = "gone" /\ states'[PageOf[p]].read = states[PageOf[p]].read
          /\ \A c \in ConsentPages : c # PageOf[p] => states'[c] = states[c]
        BY <1>19, <1>t DEF Grant!consume_oauth_state
    <2>4. handler'[p].at = "begin" => states[PageOf[p]].read = Grant!Now
        BY <1>19, <1>t DEF Grant!consume_oauth_state, Grant!consumable, Grant!SameGrant, HandlerRun
    <2>5. \/ UNCHANGED grant
          \/ KeepsPair /\ KeepsIntent /\ KeepsQuarantine
          \/ KeepsPair /\ DropsIntent /\ grant'.quarantined /\ Unheld
          \/ /\ KeepsPair /\ KeepsQuarantine /\ ~grant.quarantined /\ Unheld
             /\ grant'.intent.id = p /\ grant.intent.phase # "provider_request_started"
        BY <1>19, <1>t, ConsumeWrites
    <2>. QED  BY <2>1, <2>2, <2>3, <2>4, <2>5 DEF Grant!Now
<1>20. ASSUME NEW p \in Handlers, Grant!transition_provider_reauthorization_attempt_to_started_cas(p) PROVE GrantParts'
    <2>1. UNCHANGED <<revocation, states, presented, moved>>
        BY <1>20 DEF Grant!transition_provider_reauthorization_attempt_to_started_cas, Grant!Ledger
    <2>2. /\ handler[p].at = "begin" /\ handler'[p].at \in {"exchange", "done"} /\ handler'[p].read = handler[p].read
          /\ handler'[p].tried = handler[p].tried /\ handler'[p].result = handler[p].result
          /\ \A q \in Handlers : q # p => handler'[q] = handler[q]
        BY <1>20, <1>t, StepMoves DEF Grant!transition_provider_reauthorization_attempt_to_started_cas
    <2>3. \/ UNCHANGED grant /\ handler'[p].at = "done"
          \/ KeepsPair /\ KeepsIntent /\ KeepsQuarantine /\ grant.quarantined
          \/ /\ KeepsPair /\ KeepsQuarantine /\ grant'.bound = grant.bound /\ grant'.alias = grant.alias /\ ~grant.quarantined
             /\ grant.intent.id = p /\ grant.intent.phase = "reserved"
             /\ grant'.intent.id = p /\ grant'.intent.phase = "provider_request_started"
        BY <1>20, <1>t, BeginWrites
    <2>. QED  BY <2>1, <2>2, <2>3 DEF Grant!Now
<1>21. ASSUME NEW p \in Handlers, Grant!google_calendar_callback(p) PROVE GrantParts'
    <2>1. UNCHANGED <<revocation, states, presented, moved>>
        BY <1>21 DEF Grant!google_calendar_callback, Grant!Ledger
    <2>2. /\ handler[p].at = "exchange" /\ handler'[p].at \in {"connect", "done"} /\ handler'[p].read = handler[p].read
          /\ handler'[p].tried = handler[p].tried /\ handler'[p].result = handler[p].result
          /\ \A q \in Handlers : q # p => handler'[q] = handler[q]
        BY <1>21, <1>t, StepMoves DEF Grant!google_calendar_callback
    <2>3. \/ UNCHANGED grant
          \/ KeepsPair /\ KeepsIntent /\ KeepsQuarantine
          \/ KeepsPair /\ DropsIntent /\ KeepsQuarantine /\ grant.intent.id = p /\ grant.intent.kind = "connect"
        BY <1>21, <1>t, CallbackWrites
    <2>. QED  BY <2>1, <2>2, <2>3 DEF Grant!Now
<1>22. ASSUME NEW p \in Handlers, Grant!connect_provider_cas(p) PROVE GrantParts'
    <2>1. UNCHANGED <<revocation, states, presented, moved>>
        BY <1>22 DEF Grant!connect_provider_cas, Grant!Connectable, Grant!Connected, Grant!Ledger
    <2>2. /\ handler[p].at = "connect" /\ handler'[p].at = "done" /\ handler'[p].read = handler[p].read
          /\ handler'[p].tried = handler[p].tried /\ handler'[p].result = handler[p].result
          /\ \A q \in Handlers : q # p => handler'[q] = handler[q]
        BY <1>22, <1>t, StepMoves DEF Grant!connect_provider_cas, Grant!Connectable, Grant!Connected
    <2>3. \/ UNCHANGED grant
          \/ /\ DropsIntent /\ grant'.cred = grant.gen + 1 /\ grant'.gen = grant.gen + 1 /\ grant'.epoch = grant.epoch + 1
             /\ grant'.connected /\ ~grant'.quarantined /\ handler[p].read = Grant!Now
             /\ grant.quarantined \/ (grant.intent.id = p /\ grant.intent.kind = "connect")
        BY <1>22, <1>t, ConnectWrites
    <2>. QED  BY <2>1, <2>2, <2>3 DEF Grant!Now
<1>23. ASSUME NEW p \in Handlers, Grant!disconnect_provider_envelope_cas(p) PROVE GrantParts'
    <2>1. UNCHANGED <<states, presented, moved>>
        BY <1>23 DEF Grant!disconnect_provider_envelope_cas
    <2>2. /\ handler[p].at = "idle" /\ handler'[p].at \in {"done", "finalize", "revoke", "verify"} /\ handler'[p].read.gen = grant'.gen /\ handler'[p].read.cred = 0
          /\ handler'[p].tried = handler[p].tried /\ handler'[p].result = handler[p].result
          /\ \A q \in Handlers : q # p => handler'[q] = handler[q]
          /\ HandlerKind[p] = "disconnect"
        BY <1>23, <1>t DEF Grant!disconnect_provider_envelope_cas, HandlerRun
    <2>3. \/ UNCHANGED grant
          \/ /\ DropsIntent /\ KeepsQuarantine /\ ~grant.quarantined /\ ~grant'.connected
             /\ grant'.cred = 0 /\ grant'.gen = grant.gen + 1
             /\ grant.intent.id = None \/ grant.intent.phase = "reserved"
        BY <1>23, <1>t, DisconnectWrites
    <2>4. RecordsStand' /\ DOMAIN revocation' \subseteq 0 .. grant'.gen
        BY <1>23, <1>r, <1>t, DisconnectKeepsRecords
    <2>5. KeepsToItsSteps'
        BY <2>1, <2>2, <2>3, <2>4 DEF Grant!Now
    <2>6. GrantIsWhole'
        BY <2>1, <2>2, <2>3, <2>4 DEF Grant!Now
    <2>7. NothingIsAhead'
        BY <2>1, <2>2, <2>3, <2>4 DEF Grant!Now
    <2>8. PairsAreFenced'
        BY <2>1, <2>2, <2>3, <2>4 DEF Grant!Now
    <2>9. PatchesAreHeld'
        BY <2>1, <2>2, <2>3, <2>4 DEF Grant!Now
    <2>10. RequestsAreAnnounced'
        BY <2>1, <2>2, <2>3, <2>4 DEF Grant!Now
    <2>11. ConsentFits'
        BY <2>1, <2>2, <2>3, <2>4 DEF Grant!Now
    <2>12. RecordsStand'
        BY <2>4
    <2>. QED  BY <2>5, <2>6, <2>7, <2>8, <2>9, <2>10, <2>11, <2>12
<1>24. ASSUME NEW p \in Handlers, Grant!RevokeAtGoogle(p) PROVE GrantParts'
    <2>1. UNCHANGED <<grant, revocation, states, presented, moved>>
        BY <1>24 DEF Grant!RevokeAtGoogle, Grant!Ledger
    <2>2. /\ handler[p].at = "revoke" /\ handler'[p].at = "record" /\ handler'[p].read = handler[p].read /\ handler'[p].tried = handler[p].tried
          /\ handler'[p].result \in Grant!TERMINAL_REVOCATION_STATUSES
          /\ \A q \in Handlers : q # p => handler'[q] = handler[q]
        BY <1>24, <1>t DEF Grant!RevokeAtGoogle, HandlerRun, Grant!TERMINAL_REVOCATION_STATUSES, Grant!Outcomes
    <2>. QED  BY <2>1, <2>2 DEF Grant!Now
<1>25. ASSUME NEW p \in Handlers, Grant!record_revocation_outcome_cas(p) PROVE GrantParts'
    <2>1. UNCHANGED <<grant, states, presented, moved>>
        BY <1>25 DEF Grant!record_revocation_outcome_cas
    <2>2. /\ handler[p].at = "record" /\ handler'[p].at = "finalize" /\ handler'[p].read = handler[p].read
          /\ handler'[p].tried = handler[p].tried /\ handler'[p].result = handler[p].result
          /\ \A q \in Handlers : q # p => handler'[q] = handler[q]
        BY <1>25, <1>t, StepMoves DEF Grant!record_revocation_outcome_cas
    <2>3. RecordsStand' /\ DOMAIN revocation' = DOMAIN revocation
        BY <1>25, <1>r, <1>t, <2>2, RecordKeepsRecords
    <2>4. KeepsToItsSteps'
        BY <2>1, <2>2, <2>3 DEF Grant!Now
    <2>5. GrantIsWhole'
        BY <2>1, <2>2, <2>3 DEF Grant!Now
    <2>6. NothingIsAhead'
        BY <2>1, <2>2, <2>3 DEF Grant!Now
    <2>7. PairsAreFenced'
        BY <2>1, <2>2, <2>3 DEF Grant!Now
    <2>8. PatchesAreHeld'
        BY <2>1, <2>2, <2>3 DEF Grant!Now
    <2>9. RequestsAreAnnounced'
        BY <2>1, <2>2, <2>3 DEF Grant!Now
    <2>10. ConsentFits'
        BY <2>1, <2>2, <2>3 DEF Grant!Now
    <2>11. RecordsStand'
        BY <2>3
    <2>. QED  BY <2>4, <2>5, <2>6, <2>7, <2>8, <2>9, <2>10, <2>11
<1>26. ASSUME NEW p \in Handlers, Grant!finalize_revocation_audit_cas(p) PROVE GrantParts'
    <2>1. UNCHANGED <<grant, states, presented, moved>>
        BY <1>26 DEF Grant!finalize_revocation_audit_cas
    <2>2. /\ handler[p].at = "finalize" /\ handler'[p].at = "verify" /\ handler'[p].read = handler[p].read
          /\ handler'[p].tried = handler[p].tried /\ handler'[p].result = handler[p].result
          /\ \A q \in Handlers : q # p => handler'[q] = handler[q]
        BY <1>26, <1>t, StepMoves DEF Grant!finalize_revocation_audit_cas
    <2>3. RecordsStand' /\ DOMAIN revocation' = DOMAIN revocation
        BY <1>26, <1>r, <1>t, <2>2, FinalizeKeepsRecords
    <2>4. KeepsToItsSteps'
        BY <2>1, <2>2, <2>3 DEF Grant!Now
    <2>5. GrantIsWhole'
        BY <2>1, <2>2, <2>3 DEF Grant!Now
    <2>6. NothingIsAhead'
        BY <2>1, <2>2, <2>3 DEF Grant!Now
    <2>7. PairsAreFenced'
        BY <2>1, <2>2, <2>3 DEF Grant!Now
    <2>8. PatchesAreHeld'
        BY <2>1, <2>2, <2>3 DEF Grant!Now
    <2>9. RequestsAreAnnounced'
        BY <2>1, <2>2, <2>3 DEF Grant!Now
    <2>10. ConsentFits'
        BY <2>1, <2>2, <2>3 DEF Grant!Now
    <2>11. RecordsStand'
        BY <2>3
    <2>. QED  BY <2>4, <2>5, <2>6, <2>7, <2>8, <2>9, <2>10, <2>11
<1>27. ASSUME NEW p \in Handlers, Grant!disconnect_and_revoke_provider_orchestration(p) PROVE GrantParts'
    <2>1. UNCHANGED <<grant, revocation, states, presented, moved>>
        BY <1>27 DEF Grant!disconnect_and_revoke_provider_orchestration, Grant!Ledger
    <2>2. /\ handler[p].at = "verify" /\ handler'[p].at = "done" /\ handler'[p].read = handler[p].read
          /\ \A q \in Handlers : q # p => handler'[q] = handler[q]
          /\ handler'[p].tried => /\ handler'[p].result = Entry(revocation, handler[p].read.gen).outbox
                                  /\ handler'[p].result \in Grant!TERMINAL_REVOCATION_STATUSES
        BY <1>27, <1>t DEF Grant!disconnect_and_revoke_provider_orchestration, HandlerRun, Grant!Proven
    <2>. QED  BY <2>1, <2>2 DEF Grant!Now
<1>28. ASSUME NEW p \in Handlers, Grant!Crash(p) PROVE GrantParts'
    <2>1. UNCHANGED <<grant, revocation, states, presented, moved>>
        BY <1>28 DEF Grant!Crash
    <2>2. /\ handler'[p].at = "gone" /\ handler'[p].read = handler[p].read
          /\ handler'[p].tried = handler[p].tried /\ handler'[p].result = handler[p].result /\ handler[p].at # "idle"
          /\ \A q \in Handlers : q # p => handler'[q] = handler[q]
        BY <1>28, <1>t DEF Grant!Crash, HandlerRun
    <2>. QED  BY <2>1, <2>2 DEF Grant!Now
<1>29. ASSUME UNCHANGED grantVars PROVE GrantParts'
    BY <1>29 DEF grantVars, Grant!Now
<1>. QED  BY <1>1, <1>2, <1>3, <1>4, <1>5, <1>6, <1>7, <1>8, <1>9, <1>10, <1>11, <1>12, <1>13, <1>14, <1>15, <1>16, <1>17, <1>18, <1>19, <1>20, <1>21, <1>22, <1>23, <1>24, <1>25, <1>26, <1>27, <1>28, <1>29 DEF Grant!Next, grantVars

\* GrantInv of the initial states.
LEMMA GrantInitial == Grant!Init => GrantInv
<1> SUFFICES ASSUME Grant!Init PROVE GrantInv
    OBVIOUS
<1>1. PICK c \in BOOLEAN :
          grant = [connected |-> c, gen |-> 1, epoch |-> 1, cred |-> IF c THEN 1 ELSE 0, quarantined |-> FALSE,
                   intent |-> Grant!NoIntent, attempt |-> Grant!NoIntent, bound |-> None, alias |-> None]
    BY DEF Grant!Init
<1>2. PICK cast \in GrantCasts :
          handler = [p \in Handlers |-> [at |-> IF p \in cast THEN "idle" ELSE "done", read |-> Grant!NoRead,
                                         tried |-> FALSE, result |-> "none"]]
    BY DEF Grant!Init
<1>3. /\ revocation = [g \in {} |-> Grant!NoRevocation] /\ presented = {} /\ grantFaults = 0
      /\ states = [page \in ConsentPages |-> [at |-> "none", read |-> Grant!NoRead]]
      /\ moved = [p \in Handlers |-> "none"]
    BY DEF Grant!Init
<1>4. DOMAIN revocation = {}
    BY <1>3
<1>5. /\ \A p \in Handlers : handler[p].at \in {"idle", "done"} /\ ~handler[p].tried /\ handler[p].read.gen = 0 /\ handler[p].read.cred = 0
      /\ \A p \in Handlers : moved[p] = "none"
    BY <1>2, <1>3 DEF Grant!NoRead
<1>6. /\ grant.intent.id = None /\ grant.intent.kind = "business" /\ grant.intent.phase = "reserved"
      /\ grant.bound = None /\ grant.alias = None /\ grant.gen = 1 /\ grant.connected \in BOOLEAN
      /\ grant.cred = IF grant.connected THEN 1 ELSE 0
    BY <1>1 DEF Grant!NoIntent
<1>7. Grant!TypeOK
    <2>1. grant \in GrantFields
        BY <1>1, IntentTypes DEF GrantFields
    <2>2. handler \in [Handlers -> HandlerRun]
        BY <1>2 DEF HandlerRun, Grant!NoRead, Grant!Read, Grant!Places, Grant!Outcomes
    <2>3. /\ DOMAIN revocation \subseteq Nat /\ revocation \in [DOMAIN revocation -> Grant!Revocation]
          /\ states \in [ConsentPages -> [at : {"none", "fresh", "expired", "gone"}, read : Grant!Read]]
          /\ presented \subseteq Nat /\ moved \in [Handlers -> {"none", "flying", "moved", "refused", "known"}]
          /\ grantFaults \in 0 .. MaxGrantFaults
        BY <1>3, <1>4, GrantConstants DEF Grant!NoRead, Grant!Read
    <2>. QED  BY <2>1, <2>2, <2>3 DEF Grant!TypeOK, GrantFields, HandlerRun
<1>8. KeepsToItsSteps /\ GrantIsWhole /\ ConsentFits /\ RequestsAreAnnounced /\ PatchesAreHeld
    BY <1>5, <1>6 DEF KeepsToItsSteps, GrantIsWhole, ConsentFits, RequestsAreAnnounced, PatchesAreHeld
<1>9. NothingIsAhead /\ PairsAreFenced /\ RecordsStand
    BY <1>3, <1>4, <1>5, <1>6 DEF NothingIsAhead, PairsAreFenced, RecordsStand
<1>. QED  BY <1>7, <1>8, <1>9 DEF GrantInv

LEMMA GrantInductive == GrantInv /\ [Grant!Next]_grantVars => GrantInv'
    BY GrantTypes, GrantStep DEF GrantInv, GrantParts

LEMMA GrantIsSafe == GrantInv => GrantIsFenced
<1> SUFFICES ASSUME GrantInv PROVE GrantIsFenced
    OBVIOUS
<1>1. Grant!RefreshedPairIsFenced
    BY DEF GrantInv, PairsAreFenced, Refreshing, Grant!RefreshedPairIsFenced
<1>2. Grant!UnlearntPatchIsHeld
    BY DEF GrantInv, PatchesAreHeld, Held, Grant!UnlearntPatchIsHeld
<1>3. Grant!ReceiptIsOnRecord
    <2>1. \A g : Grant!OnRecord(g) = Entry(revocation, g)
        BY DEF Grant!OnRecord, Entry
    <2>2. \A g : ~Entry(revocation, g).final \/ g \in DOMAIN revocation
        BY DEF Entry, Grant!NoRevocation
    <2>. QED  BY <2>1, <2>2 DEF GrantInv, RecordsStand, Grant!ReceiptIsOnRecord
<1>. QED  BY <1>1, <1>2, <1>3 DEF GrantInv, GrantIsFenced

\* Whatever refreshes, calls, reschedulings, consents, disconnects and reconciliations meet, and
\* wherever they stop: no pair that was sent to Google is used again, a rescheduling whose outcome
\* nobody learnt keeps the grant, and a reported disconnect is on record
\* (app/services/integration_token_mutations.py).
THEOREM GrantFenced == AccountSpec => []GrantIsFenced
<1>1. AccountInit => GrantInv
    BY GrantInitial DEF AccountInit
<1>2. GrantInv /\ [AccountNext]_<<part, vars, grantVars, jobberVars>> => GrantInv'
    BY GrantInductive DEF AccountNext
<1>. QED  BY <1>1, <1>2, GrantIsSafe, PTL DEF AccountSpec

-----------------------------------------------------------------------------
(* The changes that give something away.                                   *)

\* Which operations end quarantine, disconnect, or begin a lifecycle.
LEMMA GrantChanges ==
    ASSUME GrantInv, [Grant!Next]_grantVars
    PROVE  /\ grant.quarantined /\ ~grant'.quarantined => \E p \in Handlers : Grant!connect_provider_cas(p)
           /\ grant.connected /\ ~grant'.connected => \E p \in Handlers : Grant!disconnect_provider_envelope_cas(p)
           /\ grant'.epoch # grant.epoch /\ grant'.connected => \E p \in Handlers : Grant!connect_provider_cas(p)
<1>t. grant \in GrantFields /\ handler \in [Handlers -> HandlerRun] /\ GrantIsWhole
    BY DEF GrantInv, Grant!TypeOK, GrantFields, HandlerRun
<1>1. CASE UNCHANGED grant
    BY <1>1
<1>2. CASE Grant!Expire
    BY <1>2, <1>t DEF Grant!Expire, GrantFields
<1> DEFINE Kept == (grant.quarantined => grant'.quarantined) /\ (grant.connected => grant'.connected) /\ (grant'.connected => grant'.epoch = grant.epoch)
<1>3. ASSUME NEW p \in Handlers, Grant!check_and_recover_expired_intent_preflight_cas(p) PROVE Kept
    BY <1>3, <1>t, PreflightWrites DEF KeepsPair, KeepsQuarantine
<1>4. ASSUME NEW p \in Handlers, Grant!acquire_provider_operation_intent_cas(p) PROVE Kept
    BY <1>4, <1>t, AcquireWrites DEF KeepsPair, KeepsQuarantine
<1>5. ASSUME NEW p \in Handlers, Grant!transition_provider_operation_intent_to_started_cas(p) PROVE Kept
    BY <1>5, <1>t, StartWrites DEF KeepsPair, KeepsQuarantine
<1>6. ASSUME NEW p \in Handlers, Grant!Retry(p) PROVE Kept
    BY <1>6, <1>t, RetryWrites DEF KeepsPair, KeepsQuarantine
<1>7. ASSUME NEW p \in Handlers, Grant!terminalize_provider_operation_intent_cas(p) PROVE Kept
    BY <1>7, <1>t, TerminalizeWrites DEF KeepsPair, KeepsQuarantine
<1>8. ASSUME NEW p \in Handlers, Grant!persist_refreshed_tokens_cas(p) PROVE Kept
    BY <1>8, <1>t, PersistWrites DEF KeepsQuarantine
<1>9. ASSUME NEW p \in Handlers, Grant!quarantine_provider_reauth_cas(p) PROVE Kept
    BY <1>9, <1>t, ReauthWrites DEF KeepsPair
<1>10. ASSUME NEW p \in Handlers, Grant!transition_google_calendar_operation_intent_to_outcome_uncertain_cas(p) PROVE Kept
    BY <1>10, <1>t DEF GrantFields, Grant!transition_google_calendar_operation_intent_to_outcome_uncertain_cas
<1>11. ASSUME NEW p \in Handlers, Grant!clear_reconciled_google_calendar_operation_intent_cas(p) PROVE Kept
    BY <1>11, <1>t, ReconciledWrites DEF KeepsPair, KeepsQuarantine
<1>12. ASSUME NEW p \in Handlers, Grant!consume_oauth_state(p) PROVE Kept
    BY <1>12, <1>t, ConsumeWrites DEF KeepsPair, KeepsQuarantine
<1>13. ASSUME NEW p \in Handlers, Grant!transition_provider_reauthorization_attempt_to_started_cas(p) PROVE Kept
    BY <1>13, <1>t, BeginWrites DEF KeepsPair, KeepsQuarantine
<1>14. ASSUME NEW p \in Handlers, Grant!google_calendar_callback(p) PROVE Kept
    BY <1>14, <1>t, CallbackWrites DEF KeepsPair, KeepsQuarantine
<1>15. ASSUME NEW p \in Handlers, Grant!connect_provider_cas(p) PROVE grant.connected => grant'.connected
    BY <1>15, <1>t, ConnectWrites
<1>16. ASSUME NEW p \in Handlers, Grant!disconnect_provider_envelope_cas(p)
       PROVE  (grant.quarantined => grant'.quarantined) /\ (grant'.connected => grant'.epoch = grant.epoch)
    BY <1>16, <1>t, DisconnectWrites DEF KeepsQuarantine
<1>. QED  BY <1>1, <1>2, <1>3, <1>4, <1>5, <1>6, <1>7, <1>8, <1>9, <1>10, <1>11, <1>12, <1>13, <1>14, <1>15, <1>16
    DEF Grant!Next, grantVars, Grant!create_oauth_state, Grant!Open, Grant!ReadGrant, Grant!Send, Grant!Arrive, Grant!Answer, Grant!RefreshAnswer, Grant!CallAnswer, Grant!PatchAnswer,
        Grant!reconcile_reschedule_appointment, Grant!AskCalendar, Grant!RevokeAtGoogle, Grant!record_revocation_outcome_cas,
        Grant!finalize_revocation_audit_cas, Grant!disconnect_and_revoke_provider_orchestration, Grant!Crash

LEMMA ConsentStep ==
    ASSUME GrantInv, [Grant!Next]_grantVars, grant.quarantined, ~grant'.quarantined
    PROVE  grant'.epoch = grant.epoch + 1 /\ grant'.cred # grant.cred
<1>t. grant \in GrantFields /\ grant.cred \in Nat /\ grant.gen \in Nat /\ grant.cred <= grant.gen
    BY DEF GrantInv, Grant!TypeOK, GrantFields, NothingIsAhead
<1>1. PICK p \in Handlers : Grant!connect_provider_cas(p)
    BY GrantChanges
<1>. QED  BY <1>t, <1>1, ConnectWrites

LEMMA ConsentFitsStep ==
    ASSUME GrantInv, [Grant!Next]_grantVars, NEW p \in Handlers, HandlerKind[p] = "connect", grant'.epoch # grant.epoch,
           grant'.connected, handler[p].at = "connect", handler'[p].at = "done"
    PROVE  states[PageOf[p]].read = Grant!Now
<1>t. /\ grant \in GrantFields /\ grant.epoch \in Nat /\ handler \in [Handlers -> HandlerRun] /\ GrantIsWhole
      /\ handler[p].read = states[PageOf[p]].read
    BY DEF GrantInv, Grant!TypeOK, GrantFields, HandlerRun, ConsentFits
<1>1. PICK q \in Handlers : Grant!connect_provider_cas(q)
    BY GrantChanges
<1>2. q = p
    BY <1>t, <1>1, StepMoves DEF Grant!connect_provider_cas, Grant!Connectable, Grant!Connected
<1>. QED  BY <1>t, <1>1, <1>2, ConnectWrites

\* A request under way has its intent started, or is not of the grant as it is.
LEMMA DisconnectStep ==
    ASSUME GrantInv, [Grant!Next]_grantVars, grant.connected, ~grant'.connected, NEW q \in Handlers,
           handler[q].at \in {"http", "answer", "exchange"}, moved[q] # "known"
    PROVE  handler[q].read # Grant!Now
<1>t. grant \in GrantFields
    BY DEF GrantInv, Grant!TypeOK, GrantFields
<1>1. PICK p \in Handlers : Grant!disconnect_provider_envelope_cas(p)
    BY GrantChanges
<1>2. ~grant.quarantined /\ (grant.intent.id = None \/ grant.intent.phase = "reserved")
    BY <1>t, <1>1, DisconnectWrites
<1>. QED  BY <1>2, GrantConstants DEF GrantInv, RequestsAreAnnounced

\* The worker hands a number back only while its profile is quiet; quarantine ends by a consent that was given for this
\* very grant; and a disconnect waits for the requests that are on their way
\* (deactivate_contractor, connect_provider_cas, consume_oauth_state, disconnect_provider_envelope_cas).
THEOREM ChangesJustified == AccountSpec => ChangesAreJustified
<1> DEFINE QuietNow == \A n \in Numbers, r \in Releases :
               (r \in deletes'[n] \ deletes[n] /\ Kind[r] = "worker") => profile.seen = {}
           ConsentNow == grant.quarantined /\ ~grant'.quarantined => grant'.epoch = grant.epoch + 1 /\ grant'.cred # grant.cred
           FitsNow == \A p \in Handlers : HandlerKind[p] = "connect" /\ grant'.epoch # grant.epoch /\ grant'.connected
                          /\ handler[p].at = "connect" /\ handler'[p].at = "done" => states[PageOf[p]].read = Grant!Now
           WaitsNow == grant.connected /\ ~grant'.connected =>
               \A p \in Handlers : handler[p].at \in {"http", "answer", "exchange"} /\ moved[p] # "known"
                                    => handler[p].read # Grant!Now
<1>1. AccountInit => NumberInv /\ GrantInv
    BY NumberInitial, GrantInitial DEF AccountInit
<1>2. NumberInv /\ GrantInv /\ [AccountNext]_<<part, vars, grantVars, jobberVars>> => (NumberInv /\ GrantInv)'
    BY NumberInductive, GrantInductive DEF AccountNext
<1>3. NumberInv /\ [Next]_vars => [QuietNow]_vars
    BY QuietStep
<1>4. GrantInv /\ [Grant!Next]_grantVars => [ConsentNow]_grantVars /\ [FitsNow]_grantVars /\ [WaitsNow]_grantVars
    BY ConsentStep, ConsentFitsStep, DisconnectStep
<1>5. [AccountNext]_<<part, vars, grantVars, jobberVars>> => [Next]_vars /\ [Grant!Next]_grantVars
    BY DEF AccountNext
<1>6. AccountSpec => QuietNumbersOnly
    BY <1>1, <1>2, <1>3, <1>5, PTL DEF AccountSpec, QuietNumbersOnly
<1>7. AccountSpec => Grant!QuarantineEndsByConsent
    BY <1>1, <1>2, <1>4, <1>5, PTL DEF AccountSpec, Grant!QuarantineEndsByConsent, Grant!vars, grantVars
<1>8. AccountSpec => Grant!ConsentIsForThisGrant
    BY <1>1, <1>2, <1>4, <1>5, PTL DEF AccountSpec, Grant!ConsentIsForThisGrant, Grant!vars, grantVars
<1>9. AccountSpec => Grant!DisconnectWaitsForRequests
    BY <1>1, <1>2, <1>4, <1>5, PTL DEF AccountSpec, Grant!DisconnectWaitsForRequests, Grant!vars, grantVars
<1>. QED  BY <1>6, <1>7, <1>8, <1>9 DEF ChangesAreJustified
================================================================================
