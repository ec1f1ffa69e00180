----------------------------- MODULE CalendarGrant -----------------------------
(***************************************************************************)
(* One contractor's Google Calendar grant: its token pair, and who may use *)
(* it at Google. A request to Google cannot join a Firestore transaction,  *)
(* so each is announced first by an operation intent on the contractor     *)
(* record (src/app/services/integration_token_mutations.py): reserved,     *)
(* then started, then removed with the answer. A refresh whose outcome is  *)
(* unknown leaves the grant in quarantine until its owner consents again;  *)
(* a rescheduling whose outcome is unknown stays bound to its operation    *)
(* until the calendar itself tells what happened.                          *)
(***************************************************************************)
EXTENDS Naturals

CONSTANTS
    Procs,      \* runs of the operations below, each with its own claim id
    Kind,       \* run -> "refresh", "business", "patch", "connect", "disconnect" or "reconcile"
    Target,     \* reconcile run -> the rescheduling it asks about
    Pages,      \* Google consent pages, each with its OAuth state
    Page,       \* connect run -> the page whose answer it handles
    Casts,      \* which runs take part in a history together
    None,
    MaxFaults   \* bound on crashes and lost answers

GrantAssumption ==
    /\ Kind \in [Procs -> {"refresh", "business", "patch", "connect", "disconnect", "reconcile"}]
    /\ Target \in [{p \in Procs : Kind[p] = "reconcile"} -> {p \in Procs : Kind[p] = "patch"}]
    /\ Page \in [{p \in Procs : Kind[p] = "connect"} -> Pages]
    /\ Casts \subseteq SUBSET Procs
    /\ None \notin Procs
    /\ MaxFaults \in Nat

VARIABLES
    grant,      \* the fields google_calendar_* of contractors/{id}
    revocation, \* generation -> the outbox record and the audit record of its disconnect, where there are any
    states,     \* google_oauth_states: the state of each page
    proc,       \* each run: where it is, and the grant it read
    presented,  \* history: token pairs sent to Google for a refresh
    moved,      \* history: what became of each rescheduling in the calendar
    faults

vars == <<grant, revocation, states, proc, presented, moved, faults>>

Phases == {"reserved", "provider_request_started", "provider_outcome_uncertain"}

NoIntent == [id |-> None, kind |-> "business", phase |-> "reserved", aged |-> FALSE,
             gen |-> 0, epoch |-> 0, cred |-> 0]

Intent == [id : {None} \cup Procs, kind : {"business", "refresh", "connect", "reconnect"}, phase : Phases,
           aged : BOOLEAN, gen : Nat, epoch : Nat, cred : Nat]

Read == [gen : Nat, epoch : Nat, cred : Nat]

Places == {"idle", "preflight", "read", "acquire", "start", "http", "answer", "persist", "quarantine",
           "terminalize", "uncertain", "consent", "consume", "begin", "exchange", "connect",
           "revoke", "record", "finalize", "verify", "ask", "clear", "done", "gone"}

Outcomes == {"none", "provider_request_started", "provider_confirmed", "provider_rejected",
             "provider_transport_error", "not_attempted_unavailable"}

Revocation == [outbox : Outcomes, claim : {None} \cup Procs, audit : Outcomes, final : BOOLEAN]

TERMINAL_REVOCATION_STATUSES == Outcomes \ {"none", "provider_request_started"}

\* gen, epoch and cred count; a token pair is named by the generation that
\* stored it, 0 is no pair. bound and alias are the fields
\* operation_intent_bound_operation_id and refresh_claim_id, which are
\* written and removed apart from the rest of the intent.
TypeOK ==
    /\ grant \in [connected : BOOLEAN, gen : Nat, epoch : Nat, cred : Nat,
                  quarantined : BOOLEAN, intent : Intent, attempt : Intent,
                  bound : {None} \cup Procs, alias : {None} \cup Procs]
    /\ DOMAIN revocation \subseteq Nat /\ revocation \in [DOMAIN revocation -> Revocation]
    /\ states \in [Pages -> [at : {"none", "fresh", "expired", "gone"}, read : Read]]
    /\ proc \in [Procs -> [at : Places, read : Read, tried : BOOLEAN, result : Outcomes]]
    /\ presented \subseteq Nat
    /\ moved \in [Procs -> {"none", "flying", "moved", "refused", "known"}]
    /\ faults \in 0 .. MaxFaults

NoRead == [gen |-> 0, epoch |-> 0, cred |-> 0]

NoRevocation == [outbox |-> "none", claim |-> None, audit |-> "none", final |-> FALSE]

\* Connected, or the tombstone of a disconnect that wrote no revocation
\* records, as older releases did.
Init ==
    /\ \E c \in BOOLEAN :
          grant = [connected |-> c, gen |-> 1, epoch |-> 1, cred |-> IF c THEN 1 ELSE 0, quarantined |-> FALSE,
                   intent |-> NoIntent, attempt |-> NoIntent, bound |-> None, alias |-> None]
    /\ revocation = [g \in {} |-> NoRevocation]
    /\ states = [page \in Pages |-> [at |-> "none", read |-> NoRead]]
    /\ \E cast \in Casts :
          proc = [p \in Procs |-> [at |-> IF p \in cast THEN "idle" ELSE "done", read |-> NoRead, tried |-> FALSE, result |-> "none"]]
    /\ presented = {}
    /\ moved = [p \in Procs |-> "none"]
    /\ faults = 0

Step(p, from, to) == proc[p].at = from /\ proc' = [proc EXCEPT ![p].at = to]

Ledger == <<revocation, states, presented, moved, faults>>

-----------------------------------------------------------------------------
(* How the record is read.                                                 *)

Clear(g) == [g EXCEPT !.intent = NoIntent, !.bound = None, !.alias = None]

\* Seeded fault: the outcome is forgotten with the intent.
QuarantineForgot(g) == [Clear(g) EXCEPT !.attempt = NoIntent]

Quarantine(g) == [Clear(g) EXCEPT !.quarantined = TRUE, !.attempt = NoIntent]

Consistent(g) ==
    /\ g.bound # None => g.intent.kind = "business" /\ g.alias = None
    /\ g.alias # None => g.intent.kind = "refresh" /\ g.alias = g.intent.id

\* "absent", "valid", "quarantined", "quarantined_reauthorizing" or "malformed".
parse_provider_operation_intent(g) ==
    CASE g.quarantined -> IF g.attempt.id = None THEN "quarantined" ELSE "quarantined_reauthorizing"
      [] ~g.quarantined /\ g.intent.id = None -> "absent"
      [] ~g.quarantined /\ g.intent.id # None /\ Consistent(g) -> "valid"
      [] OTHER -> "malformed"

Status == parse_provider_operation_intent(grant)

\* Seeded fault: a clock decides about every intent.
HeldNever(g) == FALSE

\* A started or uncertain rescheduling is never given up by a clock.
HeldByOperation(g) == g.bound # None /\ g.intent.phase # "reserved"

load_durable_provider_snapshot == Status = "absent" /\ grant.connected

Now == [gen |-> grant.gen, epoch |-> grant.epoch, cred |-> grant.cred]

SameGrant(r) == r = Now

Mine(p, kind, phases) ==
    Status = "valid" /\ grant.intent.id = p /\ grant.intent.kind = kind /\ grant.intent.phase \in phases

Fits(i) == i.gen = grant.gen /\ i.epoch = grant.epoch /\ i.cred = grant.cred

IntentKind(p) ==
    CASE Kind[p] = "refresh" -> "refresh" [] Kind[p] = "connect" -> "connect" [] OTHER -> "business"

Reserved(p, kind) ==
    [id |-> p, kind |-> kind, phase |-> "reserved", aged |-> FALSE,
     gen |-> grant.gen, epoch |-> grant.epoch, cred |-> grant.cred]

-----------------------------------------------------------------------------
(* Before a request: the intent is reserved, then started.                 *)

Open(p) ==
    /\ Kind[p] \in {"refresh", "business", "patch"}
    /\ Step(p, "idle", IF Kind[p] = "refresh" THEN "preflight" ELSE "read")
    /\ UNCHANGED <<grant, Ledger>>

\* Removes what an operation left behind; a started one may have happened.
check_and_recover_expired_intent_preflight_cas(p) ==
    /\ proc[p].at = "preflight"
    /\ LET expired == Status = "valid" /\ grant.intent.aged /\ ~HeldByOperation(grant)
           reserved == grant.intent.phase = "reserved"
       IN \/ /\ Status = "absent" \/ (expired /\ reserved)
             /\ grant' = IF expired THEN Clear(grant) ELSE grant
             /\ Step(p, "preflight", "read")
          \/ /\ ~(Status = "absent" \/ (expired /\ reserved))
             /\ grant' = IF expired THEN Quarantine(grant) ELSE grant
             /\ Step(p, "preflight", "done")
    /\ UNCHANGED Ledger

\* A business call that finds no usable record refreshes first: the other
\* run of that kind does it here, and this one comes back or gives up.
ReadGrant(p) ==
    /\ proc[p].at = "read"
    /\ IF load_durable_provider_snapshot
       THEN proc' = [proc EXCEPT ![p].at = "acquire", ![p].read = Now]
       ELSE Step(p, "read", "done")
    /\ UNCHANGED <<grant, Ledger>>

acquire_provider_operation_intent_cas(p) ==
    LET held == Status = "valid" /\ (HeldByOperation(grant) \/ ~grant.intent.aged)
        takes == ~grant.quarantined /\ grant.connected /\ SameGrant(proc[p].read)
                 /\ Status \in {"absent", "valid"} /\ ~held
        unknown == Status = "valid" /\ grant.intent.phase = "provider_request_started"
        next == [grant EXCEPT !.intent = Reserved(p, IntentKind(p)),
                              !.bound = IF Kind[p] = "patch" THEN p ELSE @,
                              !.alias = IF Kind[p] = "refresh" THEN p ELSE @]
        \* The post-read: what was written must parse as what was meant.
        reads == parse_provider_operation_intent(next) = "valid" /\ (next.bound = p <=> Kind[p] = "patch")
                 /\ (next.bound # None => Kind[p] = "patch")
    IN /\ grant' = CASE ~takes -> grant
                     [] takes /\ unknown -> Quarantine(grant)
                     [] OTHER -> next
       /\ IF takes /\ ~unknown /\ reads THEN Step(p, "acquire", "start") ELSE Step(p, "acquire", "done")
       /\ UNCHANGED Ledger

Startable(p, kind) ==
    /\ Mine(p, kind, {"reserved"})
    /\ ~grant.intent.aged
    /\ Fits(grant.intent)
    /\ SameGrant(proc[p].read)

\* Seeded fault: the phase is misspelt.
StartedMisspelt(i) == [i EXCEPT !.phase = "started", !.aged = FALSE]

Started(i) == [i EXCEPT !.phase = "provider_request_started", !.aged = FALSE]

\* The record without a reservation that never started.
release_provider_operation_intent_cas(p) ==
    IF Mine(p, IntentKind(p), {"reserved"}) THEN Clear(grant) ELSE grant

\* A failed transition gives the reservation back: a refresh only while it
\* is reserved, a rescheduling in whatever phase it is; a plain call with
\* terminalize_intent_on_exception, or never.
transition_provider_operation_intent_to_started_cas(p) ==
    /\ IF Startable(p, IntentKind(p))
       THEN grant' = [grant EXCEPT !.intent = Started(@)] /\ Step(p, "start", "http")
       ELSE /\ Step(p, "start", "done")
            /\ grant' = release_provider_operation_intent_cas(p) \/ (Kind[p] = "business" /\ UNCHANGED grant)
    /\ UNCHANGED Ledger

-----------------------------------------------------------------------------
(* The request, and what becomes of its intent.                            *)

\* The request is on its way, with the credentials that were read.
Send(p) ==
    /\ Kind[p] # "connect"
    /\ Step(p, "http", "answer")
    /\ presented' = IF Kind[p] = "refresh" THEN presented \cup {proc[p].read.cred} ELSE presented
    /\ moved' = IF Kind[p] = "patch" THEN [moved EXCEPT ![p] = "flying"] ELSE moved
    /\ UNCHANGED <<grant, revocation, states, faults>>

\* It may arrive long after its run has given up.
Arrive(p) ==
    /\ moved[p] = "flying"
    /\ \E fate \in {"moved", "refused"} : moved' = [moved EXCEPT ![p] = fate]
    /\ UNCHANGED <<grant, revocation, states, proc, presented, faults>>

\* The answer of a refresh, or none.
RefreshAnswer(p) ==
    Kind[p] = "refresh" /\ (\E to \in {"persist", "quarantine"} : Step(p, "answer", to)) /\ UNCHANGED moved

\* The answer of a call, or an exception that leaves its intent behind.
CallAnswer(p) ==
    Kind[p] = "business" /\ (\E to \in {"terminalize", "done"} : Step(p, "answer", to)) /\ UNCHANGED moved

\* The answer of a rescheduling; anything but a definite one is a timeout.
PatchAnswer(p) ==
    /\ Kind[p] = "patch"
    /\ \/ Step(p, "answer", "uncertain") /\ UNCHANGED moved
       \/ /\ moved[p] \in {"moved", "refused"}
          /\ Step(p, "answer", "terminalize")
          /\ moved' = IF moved[p] = "moved" THEN [moved EXCEPT ![p] = "known"] ELSE moved

Answer(p) ==
    /\ RefreshAnswer(p) \/ CallAnswer(p) \/ PatchAnswer(p)
    /\ UNCHANGED <<grant, revocation, states, presented, faults>>

\* 401: the same authorization is read again, refreshed by force, and the
\* call is made a second time, if the lifecycle is still the same.
Retry(p) ==
    /\ Kind[p] \in {"business", "patch"}
    /\ ~proc[p].tried
    /\ moved[p] # "known"
    /\ proc[p].at = "terminalize"
    /\ Mine(p, "business", Phases)
    /\ grant' = Clear(grant)
    /\ proc' = [proc EXCEPT ![p].at = "read", ![p].tried = TRUE]
    /\ UNCHANGED Ledger

terminalize_provider_operation_intent_cas(p) ==
    /\ Step(p, "terminalize", "done")
    /\ grant' = IF Mine(p, IntentKind(p), Phases) THEN Clear(grant) ELSE grant
    /\ UNCHANGED Ledger

\* Seeded fault: the commit does not ask whose refresh it is.
persist_refreshed_tokens_any(p) ==
    /\ Step(p, "persist", "done")
    /\ grant' = [Clear(grant) EXCEPT !.cred = grant.gen + 1, !.gen = grant.gen + 1, !.quarantined = FALSE]
    /\ UNCHANGED Ledger

\* The commit asks again for everything the refresh was started with.
Persistable(p) ==
    /\ Mine(p, "refresh", {"provider_request_started"})
    /\ ~grant.intent.aged
    /\ Fits(grant.intent)
    /\ SameGrant(proc[p].read)

Refreshed(g) == [Clear(g) EXCEPT !.cred = g.gen + 1, !.gen = g.gen + 1]

persist_refreshed_tokens_cas(p) ==
    /\ IF Persistable(p)
       THEN grant' = Refreshed(grant) /\ Step(p, "persist", "done")
       ELSE UNCHANGED grant /\ Step(p, "persist", "quarantine")
    /\ UNCHANGED Ledger

quarantine_provider_reauth_cas(p) ==
    /\ Step(p, "quarantine", "done")
    /\ grant' = IF Mine(p, "refresh", {"provider_request_started"}) /\ SameGrant(proc[p].read)
                THEN Quarantine(grant) ELSE grant
    /\ UNCHANGED Ledger

transition_google_calendar_operation_intent_to_outcome_uncertain_cas(p) ==
    /\ Step(p, "uncertain", "done")
    /\ grant' = IF /\ Mine(p, "business", {"provider_request_started"})
                   /\ grant.bound = p
                   /\ Fits(grant.intent)
                   /\ SameGrant(proc[p].read)
                THEN [grant EXCEPT !.intent.phase = "provider_outcome_uncertain"] ELSE grant
    /\ UNCHANGED Ledger

-----------------------------------------------------------------------------
(* A rescheduling whose outcome is unknown: the calendar is asked.         *)

\* classify_google_calendar_reconciliation_record: the claim and the record fit.
MatchingClaim(op) ==
    /\ Mine(op, "business", {"provider_request_started", "provider_outcome_uncertain"})
    /\ grant.bound = op
    /\ grant.connected
    /\ Fits(grant.intent)

reconcile_reschedule_appointment(p) ==
    /\ Kind[p] = "reconcile"
    /\ Step(p, "idle", IF MatchingClaim(Target[p]) THEN "ask" ELSE "done")
    /\ UNCHANGED <<grant, Ledger>>

\* Only an event that has the desired times confirms.
AskCalendar(p) ==
    /\ Kind[p] = "reconcile"
    /\ LET confirmed == moved[Target[p]] \in {"moved", "known"}
       IN /\ Step(p, "ask", IF confirmed THEN "clear" ELSE "done")
          /\ moved' = IF confirmed THEN [moved EXCEPT ![Target[p]] = "known"] ELSE moved
    /\ UNCHANGED <<grant, revocation, states, presented, faults>>

clear_reconciled_google_calendar_operation_intent_cas(p) ==
    /\ Step(p, "clear", "done")
    /\ grant' = IF MatchingClaim(Target[p]) THEN Clear(grant) ELSE grant
    /\ UNCHANGED Ledger

-----------------------------------------------------------------------------
(* Consent.                                                                *)

create_oauth_state(page) ==
    /\ states[page].at = "none"
    /\ states' = [states EXCEPT ![page] = [at |-> "fresh", read |-> Now]]
    /\ UNCHANGED <<grant, revocation, proc, presented, moved, faults>>

\* Seeded fault: the lifecycle the state was created in is not compared.
consumable_any(page) == states[page].at = "fresh"

consumable(page) == states[page].at = "fresh" /\ SameGrant(states[page].read)

\* The state is deleted whatever it says. Under quarantine a reconnect
\* attempt is reserved instead of an intent; `tried` remembers which.
consume_oauth_state(p) ==
    /\ Kind[p] = "connect"
    /\ states[Page[p]].at # "none"
    /\ proc[p].at = "idle"
    /\ LET ok == consumable(Page[p])
           expired == Status = "valid" /\ ~HeldByOperation(grant) /\ grant.intent.aged
           started == grant.intent.phase = "provider_request_started"
           admits == \/ Status = "absent"
                     \/ (expired /\ ~started)
                     \/ Status = "quarantined"
                     \/ /\ Status = "quarantined_reauthorizing"
                        /\ grant.attempt.aged \/ grant.attempt.phase = "reserved"
       IN /\ grant' = CASE ok /\ admits /\ grant.quarantined -> [grant EXCEPT !.attempt = Reserved(p, "reconnect")]
                        [] ok /\ admits /\ ~grant.quarantined -> [grant EXCEPT !.intent = Reserved(p, "connect")]
                        [] ok /\ ~admits /\ expired -> Quarantine(grant)
                        [] OTHER -> grant
          /\ proc' = [proc EXCEPT ![p].at = IF ok /\ admits THEN "begin" ELSE "done",
                                  ![p].read = Now, ![p].tried = grant.quarantined]
    /\ states' = [states EXCEPT ![Page[p]].at = "gone"]
    /\ UNCHANGED <<revocation, presented, moved, faults>>

MyAttempt(p, phase) ==
    Status = "quarantined_reauthorizing" /\ grant.attempt.id = p /\ grant.attempt.phase = phase
    /\ ~grant.attempt.aged /\ Fits(grant.attempt)

\* Only a claim that has started is worth an authorization code.
transition_provider_reauthorization_attempt_to_started_cas(p) ==
    /\ IF IF proc[p].tried THEN MyAttempt(p, "reserved") /\ SameGrant(proc[p].read) ELSE Startable(p, "connect")
       THEN /\ Step(p, "begin", "exchange")
            /\ grant' = IF proc[p].tried THEN [grant EXCEPT !.attempt = Started(@)] ELSE [grant EXCEPT !.intent = Started(@)]
       ELSE Step(p, "begin", "done") /\ UNCHANGED grant
    /\ UNCHANGED Ledger

\* A refused code ends the claim; no answer, or an unusable one, leaves it.
google_calendar_callback(p) ==
    /\ \/ (\E to \in {"connect", "done"} : Step(p, "exchange", to)) /\ UNCHANGED grant
       \/ /\ Step(p, "exchange", "done")
          /\ grant' = CASE proc[p].tried /\ grant.quarantined /\ grant.attempt.id = p -> [grant EXCEPT !.attempt = NoIntent]
                        [] ~proc[p].tried /\ Mine(p, "connect", Phases) -> Clear(grant)
                        [] OTHER -> grant
    /\ UNCHANGED Ledger

\* The commit asks again for everything the code was exchanged with.
Connectable(p) ==
    /\ IF grant.quarantined
       THEN MyAttempt(p, "provider_request_started")
       ELSE Mine(p, "connect", {"provider_request_started"}) /\ ~grant.intent.aged /\ Fits(grant.intent)
    /\ SameGrant(proc[p].read)

Connected(g) ==
    [Clear(g) EXCEPT !.connected = TRUE, !.cred = g.gen + 1, !.gen = g.gen + 1, !.epoch = g.epoch + 1,
                     !.quarantined = FALSE, !.attempt = NoIntent]

connect_provider_cas(p) ==
    /\ Step(p, "connect", "done")
    /\ grant' = IF Connectable(p) THEN Connected(grant) ELSE grant
    /\ UNCHANGED Ledger

-----------------------------------------------------------------------------
(* Disconnecting, and telling Google.                                      *)

Tombstone == ~grant.connected /\ grant.cred = 0 /\ grant.intent.id = None /\ grant.bound = None /\ grant.alias = None

\* What is on record of generation g, and the record with r for it.
OnRecord(g) == IF g \in DOMAIN revocation THEN revocation[g] ELSE NoRevocation

Recorded(g, r) == [h \in DOMAIN revocation \cup {g} |-> IF h = g THEN r ELSE revocation[h]]

NewRevocation(outcome, owner) ==
    [outbox |-> outcome, claim |-> owner, audit |-> outcome, final |-> outcome \in TERMINAL_REVOCATION_STATUSES]

\* Seeded fault: a started request does not stop the disconnect.
Disconnectable_any == Status \in {"absent", "valid"}

\* Only an absent or a reserved intent may be overtaken.
Disconnectable == Status = "absent" \/ (Status = "valid" /\ grant.intent.phase = "reserved")

Disconnected ==
    [Clear(grant) EXCEPT !.connected = FALSE, !.cred = 0, !.gen = grant.gen + 1, !.epoch = grant.epoch + 1]

\* Only the run whose transaction removed the credentials owns the claim and
\* the token; a later one reads what is on record, and a tombstone without
\* records gets them. An outbox record alone rebuilds its audit if final.
disconnect_provider_envelope_cas(p) ==
    /\ Kind[p] = "disconnect"
    /\ proc[p].at = "idle"
    /\ LET r == OnRecord(grant.gen)
           to == CASE ~Disconnectable -> "done"
                   [] Disconnectable /\ Tombstone /\ r.outbox \in TERMINAL_REVOCATION_STATUSES /\ ~r.final -> "finalize"
                   [] Disconnectable /\ ~Tombstone /\ grant.cred # 0 -> "revoke"
                   [] OTHER -> "verify"
       IN /\ grant' = IF Disconnectable /\ ~Tombstone THEN Disconnected ELSE grant
          /\ revocation' =
                CASE Disconnectable /\ ~Tombstone ->
                       Recorded(grant.gen + 1, IF grant.cred # 0 THEN NewRevocation("provider_request_started", p)
                                               ELSE NewRevocation("not_attempted_unavailable", None))
                  [] Disconnectable /\ Tombstone /\ r.outbox = "none" ->
                       Recorded(grant.gen, NewRevocation("not_attempted_unavailable", None))
                  [] Disconnectable /\ Tombstone /\ r.outbox # "none" /\ r.audit = "none" /\ r.final ->
                       Recorded(grant.gen, [r EXCEPT !.audit = r.outbox])
                  [] OTHER -> revocation
          /\ proc' = [proc EXCEPT ![p].at = to, ![p].read = [gen |-> grant'.gen, epoch |-> grant'.epoch, cred |-> 0]]
    /\ UNCHANGED <<states, presented, moved, faults>>

\* The request to Google: two words of its own, and none.
RevokeAtGoogle(p) ==
    /\ proc[p].at = "revoke"
    /\ \E outcome \in {"provider_confirmed", "provider_rejected", "provider_transport_error"} :
          proc' = [proc EXCEPT ![p].at = "record", ![p].result = outcome]
    /\ UNCHANGED <<grant, Ledger>>

record_revocation_outcome_cas(p) ==
    /\ Step(p, "record", "finalize")
    /\ LET g == proc[p].read.gen
           r == OnRecord(g)
       IN revocation' = IF r.claim = p /\ r.outbox = "provider_request_started"
                        THEN Recorded(g, [r EXCEPT !.outbox = proc[p].result]) ELSE revocation
    /\ UNCHANGED <<grant, states, presented, moved, faults>>

\* Best effort: a failure is not looked at.
finalize_revocation_audit_cas(p) ==
    /\ Step(p, "finalize", "verify")
    /\ LET g == proc[p].read.gen
           r == OnRecord(g)
       IN \/ revocation' = Recorded(g, [r EXCEPT !.audit = r.outbox, !.final = TRUE]) /\ UNCHANGED faults
          \/ ~r.final /\ faults < MaxFaults /\ faults' = faults + 1 /\ UNCHANGED revocation
    /\ UNCHANGED <<grant, states, presented, moved>>

\* Seeded fault: the final proof looks at the contractor record only.
ProvenAny(p) == Tombstone /\ grant.gen = proc[p].read.gen

Proven(p) ==
    LET r == OnRecord(proc[p].read.gen)
    IN /\ Tombstone
       /\ grant.gen = proc[p].read.gen
       /\ r.outbox \in TERMINAL_REVOCATION_STATUSES
       /\ r.audit # "none"

\* The receipt names the outcome on record; without proof there is none.
disconnect_and_revoke_provider_orchestration(p) ==
    /\ proc[p].at = "verify"
    /\ proc' = [proc EXCEPT ![p].at = "done",
                            ![p].result = IF Proven(p) THEN OnRecord(proc[p].read.gen).outbox ELSE "none",
                            ![p].tried = Proven(p)]
    /\ UNCHANGED <<grant, Ledger>>

-----------------------------------------------------------------------------
(* Time, crashes and lost answers.                                         *)

\* A lease runs out after a minute, a consent page after ten.
Expire ==
    /\ \/ grant.intent.id # None /\ ~grant.intent.aged /\ grant' = [grant EXCEPT !.intent.aged = TRUE] /\ UNCHANGED states
       \/ grant.attempt.id # None /\ ~grant.attempt.aged /\ grant' = [grant EXCEPT !.attempt.aged = TRUE] /\ UNCHANGED states
       \/ \E page \in Pages : states[page].at = "fresh" /\ states' = [states EXCEPT ![page].at = "expired"] /\ UNCHANGED grant
    /\ UNCHANGED <<revocation, proc, presented, moved, faults>>

\* The instance dies, or a call fails or loses its answer where the code
\* gives up without another write.
Crash(p) ==
    /\ proc[p].at \notin {"idle", "done", "gone"}
    /\ faults < MaxFaults
    /\ faults' = faults + 1
    /\ proc' = [proc EXCEPT ![p].at = "gone"]
    /\ UNCHANGED <<grant, revocation, states, presented, moved>>

Next ==
    \/ Expire
    \/ \E page \in Pages : create_oauth_state(page)
    \/ \E p \in Procs :
          \/ Open(p) \/ check_and_recover_expired_intent_preflight_cas(p) \/ ReadGrant(p)
          \/ (proc[p].at = "acquire" /\ acquire_provider_operation_intent_cas(p))
          \/ (proc[p].at = "start" /\ transition_provider_operation_intent_to_started_cas(p))
          \/ Send(p) \/ Arrive(p) \/ Answer(p) \/ Retry(p)
          \/ terminalize_provider_operation_intent_cas(p)
          \/ persist_refreshed_tokens_cas(p) \/ quarantine_provider_reauth_cas(p)
          \/ transition_google_calendar_operation_intent_to_outcome_uncertain_cas(p)
          \/ reconcile_reschedule_appointment(p) \/ AskCalendar(p)
          \/ clear_reconciled_google_calendar_operation_intent_cas(p)
          \/ consume_oauth_state(p) \/ transition_provider_reauthorization_attempt_to_started_cas(p)
          \/ google_calendar_callback(p) \/ connect_provider_cas(p)
          \/ disconnect_provider_envelope_cas(p) \/ RevokeAtGoogle(p) \/ record_revocation_outcome_cas(p)
          \/ finalize_revocation_audit_cas(p) \/ disconnect_and_revoke_provider_orchestration(p)
          \/ Crash(p)

Spec == Init /\ [][Next]_vars

-----------------------------------------------------------------------------
(* Properties.                                                             *)

\* A token pair that was sent to Google for a refresh is fenced as long as it
\* is stored: by the intent of the refresh still under way, or by quarantine
\* (refresh_access_token, quarantine_provider_reauth_cas). No later refresh or
\* call can use a pair that Google may have replaced.
RefreshedPairIsFenced ==
    grant.cred \in presented =>
        \/ grant.quarantined
        \/ grant.intent.kind = "refresh" /\ grant.intent.phase = "provider_request_started"

\* Quarantine ends with the owner's new consent only: a new token pair and a
\* new lifecycle. A late answer of the refresh that caused it changes nothing
\* (persist_refreshed_tokens_cas, connect_provider_cas).
QuarantineEndsByConsent ==
    [][grant.quarantined /\ ~grant'.quarantined => grant'.epoch = grant.epoch + 1 /\ grant'.cred # grant.cred]_vars

\* A rescheduling whose outcome its run has not learnt keeps the grant bound
\* to its operation, whatever expires, crashes or is asked for meanwhile
\* (reschedule_appointment, the recovery in calendar.py).
UnlearntPatchIsHeld ==
    \A p \in Procs : moved[p] \in {"flying", "moved"} =>
        grant.bound = p /\ grant.intent.id = p /\ grant.intent.phase # "reserved"

\* Credentials are never removed or replaced by a disconnect while a request
\* that carries them is on its way (disconnect_provider_envelope_cas), but
\* for one whose effect the calendar has already shown.
DisconnectWaitsForRequests ==
    [][grant.connected /\ ~grant'.connected =>
          \A p \in Procs :
             proc[p].at \in {"http", "answer", "exchange"} /\ moved[p] # "known" => proc[p].read # Now]_vars

\* A connection is stored only if nothing happened to the grant since its
\* consent page was opened: no other connection, refresh or disconnect
\* (consume_oauth_state, connect_provider_cas).
ConsentIsForThisGrant ==
    [][\A p \in Procs : Kind[p] = "connect" /\ grant'.epoch # grant.epoch /\ grant'.connected /\ proc[p].at = "connect"
                         /\ proc'[p].at = "done" => states[Page[p]].read = Now]_vars

\* An owner is told that the calendar is disconnected only with an outcome
\* that stays on record, and a final audit tells the same
\* (disconnect_and_revoke_provider_orchestration).
ReceiptIsOnRecord ==
    \A p \in Procs : Kind[p] = "disconnect" /\ proc[p].tried =>
        LET r == OnRecord(proc[p].read.gen)
        IN r.outbox = proc[p].result /\ r.outbox \in TERMINAL_REVOCATION_STATUSES /\ (r.final => r.audit = r.outbox)

=============================================================================
