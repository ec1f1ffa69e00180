----------------------------- MODULE NumberRelease -----------------------------
(***************************************************************************)
(* One contractor's Twilio number: bought, kept while anything speaks for  *)
(* it, and handed back by the owner, by the embedded sweep or by the       *)
(* external worker (src/app/db/contractors.py, the sweep of                *)
(* src/app/services/number_release.py). The DELETE at Twilio cannot join   *)
(* the Firestore transactions around it: a nonce-owned claim on the        *)
(* profile does, and every other write of the profile meets that claim.    *)
(***************************************************************************)
EXTENDS Naturals, FiniteSets

CONSTANTS
    Releases,    \* runs of release_twilio_number, each its own nonce
    Kind,        \* release -> "release", "deletion", "sweep" or "worker"
    Purchases,   \* runs of provision_twilio_number
    Safety,      \* writes of safety evidence: inbound calls, entitlements
    Calls,       \* those of Safety that come from the inbound webhook
    Numbers,     \* phone numbers
    None,        \* no number, no nonce
    ReleaseCasts,   \* which runs take part in a history together
    MaxFaults    \* bound on failures, lost answers and crashes

ASSUME ReleaseAssumption ==
    /\ Kind \in [Releases -> {"release", "deletion", "sweep", "worker"}]
    /\ Calls \subseteq Safety
    /\ None \notin Numbers \cup Releases
    /\ MaxFaults \in Nat
    /\ Releases \cap Purchases = {}
    /\ ReleaseCasts \subseteq SUBSET (Releases \cup Purchases)

Procs == Releases \cup Purchases

VARIABLES
    profile,   \* contractors/{id}: the binding, and the evidence on it
    claim,     \* its number_release_claim
    deferred,  \* the evidence kept in number_release_conflict
    answer,    \* what the author of each piece of evidence was told
    held,      \* the numbers Twilio bills
    deletes,   \* history: DELETE requests for each number, by release
    proc,      \* each run: where it is, the number and the evidence it read
    faults

vars == <<profile, claim, deferred, answer, held, deletes, proc, faults>>

States == {"none", "reserved", "deleting", "cancelled", "needs_attention"}

Places == {"idle", "notice", "recheck", "boundary", "claim", "start", "reserve", "list",
           "begin", "delete", "finalize", "hold", "deactivate", "buy", "store", "done"}

Claim == [state : States, nonce : {None} \cup Releases, number : {None} \cup Numbers, aged : BOOLEAN]

TypeOK ==
    /\ profile \in [active : BOOLEAN, number : {None} \cup Numbers, seen : SUBSET Safety]
    /\ claim \in Claim
    /\ deferred \subseteq Safety
    /\ answer \in [Safety -> {"none", "applied", "held", "unsure"}]
    /\ held \subseteq Numbers
    /\ deletes \in [Numbers -> SUBSET Releases]
    /\ proc \in [Procs -> [at : Places, number : {None} \cup Numbers, seen : SUBSET Safety, from : States]]
    /\ faults \in 0 .. MaxFaults

NoClaim == [state |-> "none", nonce |-> None, number |-> None, aged |-> FALSE]

\* The number may have been removed at Twilio's console.
Init ==
    /\ \E n \in {None} \cup Numbers, before \in SUBSET Calls :
          /\ before # {} => n # None
          /\ profile = [active |-> TRUE, number |-> n, seen |-> before]
          /\ held \in SUBSET ({n} \ {None})
    /\ claim = NoClaim
    /\ deferred = {}
    /\ answer = [w \in Safety |-> "none"]
    /\ deletes = [n \in Numbers |-> {}]
    /\ \E cast \in ReleaseCasts :
          proc = [p \in Procs |-> [at     |-> IF p \in cast THEN "idle" ELSE "done",
                                  number |-> None, seen |-> {}, from |-> "reserved"]]
    /\ faults = 0

Fault == faults < MaxFaults /\ faults' = faults + 1

Charge(outcome) == IF outcome = "ok" THEN UNCHANGED faults ELSE Fault

Goto(p, place) == proc' = [proc EXCEPT ![p].at = place]

At(p, place) == proc[p].at = place

Record == <<profile, claim, deferred, answer>>

Provider == <<held, deletes>>

-----------------------------------------------------------------------------
(* Every other write of the profile meets the claim.                       *)

release_conflict_payload(new) == deferred \cup new

\* Seeded fault: the point of no return does not hold the writes back.
HeldStatesLate == {"needs_attention"}

HeldStates == {"deleting", "needs_attention"}

\* The callback of a transaction that writes `new`, and evidence `ws` with it.
apply_release_aware_contractor_update(new, ws) ==
    IF claim.state \in HeldStates
    THEN /\ claim' = [claim EXCEPT !.state = "needs_attention"]
         /\ deferred' = release_conflict_payload(ws)
         /\ UNCHANGED profile
    ELSE /\ profile' = new
         /\ claim' = IF claim.state = "reserved" THEN [claim EXCEPT !.state = "cancelled"] ELSE claim
         /\ UNCHANGED deferred

Told == IF claim.state \in HeldStates THEN "held" ELSE "applied"

\* update_contractor, and the transactions that write an entitlement: they
\* need an account that is still active.
WriteEvidence(w) ==
    /\ w \notin Calls
    /\ answer[w] = "none"
    /\ profile.active
    /\ apply_release_aware_contractor_update([profile EXCEPT !.seen = @ \cup {w}], {w})
    /\ answer' = [answer EXCEPT ![w] = Told]
    /\ UNCHANGED <<Provider, proc, faults>>

\* The webhook of an inbound call has one attempt, inside a deadline. An
\* hourly stamp stands for the next calls while no release is under way.
record_inbound_call_evidence(w) ==
    /\ w \in Calls
    /\ profile.number # None
    /\ answer[w] = "none"
    /\ \/ /\ claim.state = "none"
          /\ profile.seen \cap Calls # {}
          /\ answer' = [answer EXCEPT ![w] = "applied"]
          /\ UNCHANGED <<profile, claim, deferred, faults>>
       \/ /\ apply_release_aware_contractor_update([profile EXCEPT !.seen = @ \cup {w}], {w})
          /\ \/ answer' = [answer EXCEPT ![w] = Told] /\ UNCHANGED faults
             \/ answer' = [answer EXCEPT ![w] = "unsure"] /\ Fault
       \/ /\ answer' = [answer EXCEPT ![w] = "unsure"]
          /\ Fault
          /\ UNCHANGED <<profile, claim, deferred>>
    /\ UNCHANGED <<Provider, proc>>

-----------------------------------------------------------------------------
(* The sweep of expired accounts.                                          *)

\* _release_reason on a profile: is_safe_to_release_number, or its stricter
\* sibling for a lapsed account, which also asks Apple.
Eligible(seen) == profile.active /\ profile.number # None /\ seen = {}

\* The notice goes out between the decision and the release.
fresh_release_candidate(r) ==
    /\ At(r, "idle")
    /\ Kind[r] \in {"sweep", "worker"}
    /\ \/ Eligible(profile.seen) /\ proc' = [proc EXCEPT ![r].at = "notice", ![r].seen = profile.seen]
       \/ Goto(r, "done")
    /\ UNCHANGED <<Record, Provider, faults>>

\* An uncertain notice stops the worker and not the embedded sweep.
SendNotice(r) ==
    /\ At(r, "notice")
    /\ \E outcome \in {"ok", "failed"} :
          /\ Charge(outcome)
          /\ Goto(r, CASE Kind[r] = "sweep" -> "start"
                       [] Kind[r] # "sweep" /\ outcome = "ok" -> "recheck"
                       [] OTHER             -> "done")
    /\ UNCHANGED <<Record, Provider>>

PostNoticeRead(r) ==
    /\ At(r, "recheck")
    /\ IF Eligible(profile.seen)
       THEN proc' = [proc EXCEPT ![r].at = "boundary", ![r].seen = profile.seen, ![r].number = profile.number]
       ELSE Goto(r, "done")
    /\ UNCHANGED <<Record, Provider, faults>>

\* _same_strict_release_snapshot: every guarded field of the boundary read.
same_strict_release_snapshot(r) ==
    profile.active /\ profile.number = proc[r].number /\ profile.seen = proc[r].seen

BoundaryRead(r) ==
    /\ At(r, "boundary")
    /\ Goto(r, IF same_strict_release_snapshot(r) THEN "claim" ELSE "done")
    /\ UNCHANGED <<Record, Provider, faults>>

-----------------------------------------------------------------------------
(* The claim.                                                              *)

\* The precondition every transaction of release r evaluates.
release_precondition(r) ==
    /\ profile.number = proc[r].number
    /\ Kind[r] = "worker" => same_strict_release_snapshot(r)

\* Seeded fault: a reservation past its time is taken over in any state.
reserved_claim_is_reclaimable_always == claim.aged

reserved_claim_is_reclaimable == claim.state = "reserved" /\ claim.aged

claim_strict_number_release(r, next) ==
    IF /\ claim.state \in {"none", "cancelled"} \/ reserved_claim_is_reclaimable
       /\ profile.number # None
       /\ release_precondition(r)
    THEN /\ \E outcome \in {"ok", "failed", "lost"} :
               /\ Charge(outcome)
               /\ claim' = IF outcome = "failed" THEN claim
                           ELSE [state |-> "reserved", nonce |-> r, number |-> profile.number, aged |-> FALSE]
               /\ Goto(r, IF outcome = "ok" THEN next ELSE "done")
         /\ UNCHANGED <<profile, deferred, answer>>
    ELSE Goto(r, "done") /\ UNCHANGED <<Record, faults>>

StrictClaim(r) ==
    /\ At(r, "claim")
    /\ claim_strict_number_release(r, "start")
    /\ UNCHANGED Provider

\* Seeded fault: the phase is not asked for.
OwnsAny(r, state) == claim.nonce = r

Owns(r, state) == claim.nonce = r /\ claim.state = state

\* Seeded fault: a state no reader of the claim knows.
hold_release_claim_misspelt ==
    /\ claim' = [claim EXCEPT !.state = "attention"]
    /\ deferred' = {}

\* _hold_release_claim overwrites the conflict that was recorded before.
hold_release_claim ==
    /\ claim' = [claim EXCEPT !.state = "needs_attention"]
    /\ deferred' = {}

-----------------------------------------------------------------------------
(* release_twilio_number and deactivate_contractor.                        *)

\* An account without a number is deactivated by an ordinary write.
deactivate_contractor(r) ==
    /\ At(r, "idle")
    /\ Kind[r] = "deletion"
    /\ Goto(r, IF profile.number # None THEN "start" ELSE "deactivate")
    /\ UNCHANGED <<Record, Provider, faults>>

Deactivate(r) ==
    /\ At(r, "deactivate")
    /\ apply_release_aware_contractor_update([profile EXCEPT !.active = FALSE], {})
    /\ Goto(r, "done")
    /\ UNCHANGED <<answer, Provider, faults>>

\* The profile is read once more; a worker's claim is already on it.
ReleaseRead(r) ==
    /\ \/ At(r, "start")
       \/ At(r, "idle") /\ Kind[r] = "release"
    /\ IF profile.number = None \/ (Kind[r] = "worker" /\ ~same_strict_release_snapshot(r))
       THEN Goto(r, "done")
       ELSE proc' = [proc EXCEPT ![r].at = IF Kind[r] = "worker" THEN "list" ELSE "reserve",
                                 ![r].number = profile.number]
    /\ UNCHANGED <<Record, Provider, faults>>

ReleaseReserve(r) ==
    /\ At(r, "reserve")
    /\ claim_strict_number_release(r, "list")
    /\ UNCHANGED Provider

\* A number Twilio does not have is released locally, and held by the worker.
ListNumbers(r) ==
    /\ At(r, "list")
    /\ \E outcome \in {"ok", "failed"} :
          /\ Charge(outcome)
          /\ proc' = [proc EXCEPT ![r].at =
                IF outcome = "failed" \/ (Kind[r] = "worker" /\ proc[r].number \notin held)
                THEN "hold" ELSE "begin"]
    /\ UNCHANGED <<Record, Provider>>

\* The point of no return. A claim whose premise changed is cancelled.
begin_strict_number_release_delete(r) ==
    /\ At(r, "begin")
    /\ \E outcome \in {"ok", "failed", "lost"} :
          /\ Charge(outcome)
          /\ LET may == Owns(r, "reserved") /\ profile.number = claim.number /\ release_precondition(r)
             IN  /\ claim' = IF outcome = "failed" \/ ~Owns(r, "reserved") THEN claim
                             ELSE [claim EXCEPT !.state = IF may THEN "deleting" ELSE "cancelled"]
                 /\ proc' = [proc EXCEPT
                       ![r].at = IF outcome # "ok" \/ ~may THEN "done"
                                 ELSE IF proc[r].number \in held THEN "delete" ELSE "finalize",
                       ![r].from = "deleting"]
    /\ UNCHANGED <<profile, deferred, answer, Provider>>

DeleteNumber(r) ==
    /\ At(r, "delete")
    /\ deletes' = [deletes EXCEPT ![proc[r].number] = @ \cup {r}]
    /\ \E outcome \in {"ok", "failed", "lost"} :
          /\ Charge(outcome)
          /\ held' = IF outcome = "failed" THEN held ELSE held \ {proc[r].number}
          /\ Goto(r, IF outcome = "ok" THEN "finalize" ELSE "hold")
    /\ UNCHANGED Record

\* A confirmed release, with the deactivation of everyone but the phone tab.
finalize_strict_number_release(r) ==
    /\ At(r, "finalize")
    /\ \E outcome \in {"ok", "failed", "lost"} :
          /\ Charge(outcome)
          /\ LET may == profile.number = claim.number /\ release_precondition(r)
             IN  IF outcome = "failed" \/ ~Owns(r, "deleting")
                 THEN UNCHANGED <<profile, claim, deferred>>
                 ELSE IF may
                 THEN /\ profile' = [profile EXCEPT !.number = None,
                                                    !.active = @ /\ Kind[r] = "release"]
                      /\ claim' = NoClaim
                      /\ UNCHANGED deferred
                 ELSE hold_release_claim /\ UNCHANGED profile
          /\ Goto(r, IF outcome = "ok" /\ profile'.number # None THEN "hold" ELSE "done")
    /\ UNCHANGED <<answer, Provider>>

\* Only the owner of the claim, in the phase it left it in.
hold_strict_number_release(r) ==
    /\ At(r, "hold")
    /\ \E outcome \in {"ok", "failed"} :
          /\ Charge(outcome)
          /\ IF outcome = "ok" /\ Owns(r, proc[r].from)
             THEN hold_release_claim
             ELSE UNCHANGED <<claim, deferred>>
    /\ Goto(r, "done")
    /\ UNCHANGED <<profile, answer, Provider>>

-----------------------------------------------------------------------------
(* provision_twilio_number.                                                *)

provision_twilio_number(p) ==
    /\ At(p, "idle")
    /\ p \in Purchases
    /\ Goto(p, IF profile.number = None THEN "buy" ELSE "done")
    /\ UNCHANGED <<Record, Provider, faults>>

BuyNumber(p) ==
    /\ At(p, "buy")
    /\ \E n \in Numbers :
          /\ n \notin held /\ deletes[n] = {} /\ profile.number # n
          /\ held' = held \cup {n}
          /\ proc' = [proc EXCEPT ![p].at = "store", ![p].number = n]
    /\ UNCHANGED <<Record, deletes, faults>>

\* The answer of the write is not looked at.
StoreNumber(p) ==
    /\ At(p, "store")
    /\ apply_release_aware_contractor_update([profile EXCEPT !.number = proc[p].number], {})
    /\ Goto(p, "done")
    /\ UNCHANGED <<answer, Provider, faults>>

-----------------------------------------------------------------------------
Crash(p) ==
    /\ proc[p].at \notin {"idle", "done"}
    /\ Fault
    /\ Goto(p, "done")
    /\ UNCHANGED <<Record, Provider>>

\* Five minutes pass over a reservation.
ReservationAges ==
    /\ claim.nonce # None
    /\ ~claim.aged
    /\ claim' = [claim EXCEPT !.aged = TRUE]
    /\ UNCHANGED <<profile, deferred, answer, Provider, proc, faults>>

ReleaseStep(r) ==
    \/ fresh_release_candidate(r) \/ SendNotice(r) \/ PostNoticeRead(r) \/ BoundaryRead(r)
    \/ StrictClaim(r) \/ deactivate_contractor(r) \/ Deactivate(r) \/ ReleaseRead(r)
    \/ ReleaseReserve(r) \/ ListNumbers(r) \/ begin_strict_number_release_delete(r)
    \/ DeleteNumber(r) \/ finalize_strict_number_release(r) \/ hold_strict_number_release(r)

Next ==
    \/ \E w \in Safety : WriteEvidence(w) \/ record_inbound_call_evidence(w)
    \/ \E r \in Releases : ReleaseStep(r)
    \/ \E p \in Purchases : provision_twilio_number(p) \/ BuyNumber(p) \/ StoreNumber(p)
    \/ \E p \in Procs : Crash(p)
    \/ ReservationAges

Spec == Init /\ [][Next]_vars

-----------------------------------------------------------------------------
(* Properties.                                                             *)

\* "That prevents two paths from deleting the same number" (contractors.py,
\* release_twilio_number): whatever the crashes, lost answers and expired
\* reservations, one release at most sends the DELETE of a number.
OnePathDeletes == \A n \in Numbers : Cardinality(deletes[n]) <= 1

\* A number that a release has handed back stays on the profile only under a
\* claim that nobody may take over: the profile never routes calls to a
\* number Twilio may have given away without saying so.
GoneNumberIsFlagged ==
    (profile.number # None /\ deletes[profile.number] # {}) =>
        claim.state \in {"deleting", "needs_attention"}

\* Evidence is never lost: what was acknowledged is on the profile, and what
\* was held back is in the conflict an operator reconciles from.
EvidenceIsKept ==
    \A w \in Safety :
        /\ answer[w] = "applied" => profile.seen \cap (IF w \in Calls THEN Calls ELSE {w}) # {}
        /\ answer[w] = "held" => w \in deferred

\* The worker never hands back a number with evidence on its profile, however
\* the evidence raced the notice and the claim (same_strict_release_snapshot,
\* which the embedded sweep does not ask).
QuietNumbersOnly ==
    [][\A n \in Numbers, r \in Releases :
          (r \in deletes'[n] \ deletes[n] /\ Kind[r] = "worker") => profile.seen = {}]_vars

================================================================================
