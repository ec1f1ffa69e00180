------------------------------ MODULE JobberGrant ------------------------------
(***************************************************************************)
(* The Jobber connection of a contractor and the fence the provider's own   *)
(* APP_DISCONNECT puts around it. A webhook receipt raises the barrier of   *)
(* one Jobber account; from that commit on no credential of the account may *)
(* be used, renewed or connected unless its owner consented again. A worker *)
(* suspends the contractors bound to the account afterwards, page by page.  *)
(*                                                                          *)
(* Every step below is one bounded transaction and what its caller makes of *)
(* the answer. A transaction may commit and still be reported as failed:    *)
(* its answer is lost, or the readback that follows finds a newer record.   *)
(* Credentials are numbers; a change of generation always changes the epoch *)
(* or the credentials, so the generation stands for all three.              *)
(***************************************************************************)
EXTENDS Integers, FiniteSets

CONSTANTS
    NumContractors, Accounts, None,
    Bound,          \* the account each contractor is connected to at the start
    Malformed,      \* contractors whose lifecycle fields the worker cannot read
    Uses,           \* calls of the Jobber API
    Flows,          \* authorisations: a pressed Connect and its callback
    Removals,       \* presses of Disconnect
    Workers,        \* passes of the recovery loop
    Casts,          \* which of them take part in a history together
    PageSize, MaxReceipts, MaxAttempts, MaxFaults

Contractors == 1..NumContractors

\* Who holds a binding, for which request, and under which reading of it.
ClaimRecord ==
    [id : {<<f>> : f \in Flows} \cup (Uses \X {"business", "refresh"} \X BOOLEAN), kind : {"business", "refresh", "connect"},
     started : BOOLEAN, live : BOOLEAN, gen : Nat, ctx : [acct : Accounts \cup {None}, at : Nat]]

JobberAssumption ==
    /\ NumContractors \in Nat /\ PageSize \in Nat \ {0} /\ MaxAttempts \in Nat \ {0}
    /\ MaxReceipts \in Nat /\ MaxFaults \in Nat
    /\ None \notin Accounts \cup Workers \cup ClaimRecord
    /\ Bound \in [Contractors -> Accounts \cup {None}]
    /\ Malformed \subseteq Contractors
    /\ Casts \subseteq SUBSET (Uses \cup Flows \cup Removals \cup Workers)

VARIABLES
    counter,        \* jobber_disconnect_control/current.receipt_counter
    barrier,        \* jobber_account_barriers, by account
    work,           \* jobber_disconnect_work, by account
    binding,        \* the jobber_* fields of contractors/{id}
    use, flow, removal, worker,
    outbox,         \* the revocation record of a removal
    pairs,          \* how many token pairs Jobber has issued
    renewals,       \* how often each pair was sent to the token endpoint
    revoked,        \* the removals that called appDisconnect
    consent,        \* the counter when the owner began the consent in force (history)
    captured,       \* the binding lead capture was switched on for (history)
    faults

callers == <<use, flow, removal, worker>>
provider == <<pairs, renewals, revoked>>
history == <<consent, captured>>
vars == <<counter, barrier, work, binding, callers, outbox, provider, history, faults>>

MaxPairs == NumContractors + Cardinality(Uses) * 2 + Cardinality(Flows)

NoBinding ==
    [acct |-> None, accepted |-> None, processed |-> 0, connected |-> FALSE, capture |-> FALSE,
     gen |-> 0, pair |-> 0, claim |-> None, quarantined |-> FALSE]

Init ==
    /\ counter = 0
    /\ barrier = [a \in Accounts |-> 0]
    /\ work = [a \in Accounts |-> [status |-> "none", lease |-> None, live |-> FALSE, tries |-> 0, cursor |-> 0]]
    /\ binding = [c \in Contractors |-> IF Bound[c] = None THEN NoBinding
            ELSE [NoBinding EXCEPT !.acct = Bound[c], !.accepted = 0, !.connected = TRUE, !.capture = TRUE, !.pair = c]]
    /\ \E cast \in Casts : LET Starts(S) == [x \in S |-> [at |-> IF x \in cast THEN "idle" ELSE "away"]] IN
          use = Starts(Uses) /\ flow = Starts(Flows) /\ removal = Starts(Removals) /\ worker = Starts(Workers)
    /\ outbox = [r \in Removals |-> "none"]
    /\ pairs = NumContractors
    /\ renewals = [p \in 1..MaxPairs |-> 0]
    /\ revoked = {}
    /\ consent = [c \in Contractors |-> 0]
    /\ captured = [c \in Contractors |-> [acct |-> Bound[c], at |-> 0]]
    /\ faults = 0

-----------------------------------------------------------------------------
(* What a transaction finds of a binding.                                   *)

Suspended(b) == b.processed # 0
Stale(b) == b.accepted # None /\ b.accepted < barrier[b.acct]
\* Bound, not suspended, and no receipt since the binding was accepted.
Admitted(b) == b.accepted # None /\ ~Suspended(b) /\ ~Stale(b)
HasPair(b) == b.connected /\ b.pair # 0 /\ ~b.quarantined
Ready(b) == Admitted(b) /\ HasPair(b) /\ b.claim = None
Context(b) == [acct |-> b.acct, at |-> b.accepted]
Tombstone(b) == ~b.connected /\ b.pair = 0 /\ b.accepted = None /\ b.claim = None /\ ~b.quarantined /\ ~b.capture

\* An authorisation stands while its source account had no receipt since it began.
OAuthStands(b, ctx) ==
    /\ ctx.acct = b.acct /\ ctx.at <= counter
    /\ ctx.acct # None => barrier[ctx.acct] <= ctx.at

\* Seeded fault: the account the owner chose only has to be known.
DestinationIsKnown(ctx, dest) == barrier[dest] <= counter

\* ... and the account the owner chose at Jobber had none either.
DestinationStands(ctx, dest) == barrier[dest] <= ctx.at

ClaimStands(b) ==
    /\ b.claim.gen = b.gen
    /\ IF b.claim.kind = "connect" THEN OAuthStands(b, b.claim.ctx)
       ELSE Admitted(b) /\ HasPair(b) /\ b.claim.ctx = Context(b)

Owns(b, id) == b.claim # None /\ b.claim.id = id /\ b.claim.gen = b.gen

NewClaim(b, id, kind, ctx) ==
    [b EXCEPT !.claim = [id |-> id, kind |-> kind, started |-> FALSE, live |-> TRUE, gen |-> b.gen, ctx |-> ctx]]
Begun(b) == [b EXCEPT !.claim.started = TRUE, !.claim.live = TRUE]
Unclaimed(b) == [b EXCEPT !.claim = None]
Quarantined(b) == [b EXCEPT !.claim = None, !.quarantined = TRUE]

\* Writing a new pair ends every claim and quarantine of the old one.
Renewed(b, p) == [b EXCEPT !.pair = p, !.connected = TRUE, !.gen = @ + 1, !.claim = None, !.quarantined = FALSE]

Suspend(b) ==
    [b EXCEPT !.processed = barrier[b.acct], !.connected = FALSE, !.capture = FALSE, !.gen = @ + 1,
              !.claim = None, !.quarantined = FALSE]

\* A consent that began after the receipt may only hold a binding that is already suspended.
UnauditedOwner(b) == b.claim # None /\ b.claim.kind = "connect" /\ b.claim.ctx.at >= barrier[b.acct]

\* The caller hears of a commit, or takes it for a failure.
Reported(heard, lost) == {heard} \cup IF faults < MaxFaults THEN {lost} ELSE {}
Charged(step, lost) == faults' = IF step = lost THEN faults + 1 ELSE faults

-----------------------------------------------------------------------------
(* The webhook and the clock.                                               *)

\* record_disconnect_admission_atomic: every delivery is a receipt of its own.
Receive(a) ==
    /\ counter < MaxReceipts
    /\ counter' = counter + 1
    /\ barrier' = [barrier EXCEPT ![a] = counter + 1]
    /\ work' = [work EXCEPT ![a] = [status |-> "pending", lease |-> None, live |-> FALSE, tries |-> 0, cursor |-> 0]]
    /\ UNCHANGED <<binding, callers, outbox, provider, history, faults>>

ClaimExpires(c) ==
    /\ binding[c].claim # None /\ binding[c].claim.live
    /\ binding' = [binding EXCEPT ![c].claim.live = FALSE]
    /\ UNCHANGED <<counter, barrier, work, callers, outbox, provider, history, faults>>

StateExpires(f) ==
    /\ flow[f].at = "asked" /\ flow[f].live
    /\ flow' = [flow EXCEPT ![f].live = FALSE]
    /\ UNCHANGED <<counter, barrier, work, binding, use, removal, worker, outbox, provider, history, faults>>

LeaseExpires(a) ==
    /\ work[a].live
    /\ work' = [work EXCEPT ![a].live = FALSE]
    /\ UNCHANGED <<counter, barrier, binding, callers, outbox, provider, history, faults>>

-----------------------------------------------------------------------------
(* A call of the Jobber API: a snapshot, a claim, the request, and a renewal *)
(* of the tokens when they are about to expire or were refused.             *)

Snapshot(b, u) == [u EXCEPT !.gen = b.gen, !.pair = b.pair, !.ctx = Context(b)]
UseGoes(u, at) == use' = [use EXCEPT ![u].at = at]
UseFrame == UNCHANGED <<counter, barrier, work, flow, removal, worker, outbox, revoked, history>>

\* A call renews once at most here; the code may also renew before it, for an
\* expiring pair, and each of these renewals is a call of this model.
CallBegins(u, c) ==
    /\ use[u].at = "idle"
    /\ use' = [use EXCEPT ![u] = [at |-> "load", c |-> c, gen |-> 0, pair |-> 0, got |-> 0, last |-> FALSE,
                                  ctx |-> [acct |-> None, at |-> 0]]]
    /\ UseFrame /\ UNCHANGED <<binding, pairs, renewals, faults>>

\* load_durable_provider_snapshot. Without one the call tries a renewal, once.
LoadSnapshot(u) ==
    /\ use[u].at = "load"
    /\ LET b == binding[use[u].c] IN
       IF Ready(b)
       THEN \E at \in {"acquire"} \cup IF use[u].last THEN {} ELSE {"preflight"} :
                use' = [use EXCEPT ![u] = [Snapshot(b, @) EXCEPT !.at = at]]
       ELSE UseGoes(u, IF use[u].last THEN "done" ELSE "preflight")
    /\ UseFrame /\ UNCHANGED <<binding, pairs, renewals, faults>>

\* check_and_recover_expired_intent_preflight_cas
Preflight(u) ==
    /\ use[u].at = "preflight"
    /\ LET b == binding[use[u].c]
           held == b.claim # None
           open == Admitted(b) /\ HasPair(b) /\ (held => ClaimStands(b) /\ ~b.claim.live)
       IN  IF ~open THEN UseGoes(u, "done") /\ UNCHANGED binding
           ELSE IF held /\ b.claim.started
           THEN UseGoes(u, "done") /\ binding' = [binding EXCEPT ![use[u].c] = Quarantined(b)]
           ELSE UseGoes(u, "reload") /\ binding' = [binding EXCEPT ![use[u].c] = Unclaimed(b)]
    /\ UseFrame /\ UNCHANGED <<pairs, renewals, faults>>

\* refresh_access_token reads again, and may find that another renewal was made.
Reload(u) ==
    /\ use[u].at = "reload"
    /\ LET b == binding[use[u].c] IN
       IF ~Ready(b) THEN UseGoes(u, "done")
       ELSE \E fresh \in {TRUE, FALSE} :
            use' = [use EXCEPT ![u] = IF fresh THEN [@ EXCEPT !.at = "load", !.last = TRUE]
                                                ELSE [Snapshot(b, @) EXCEPT !.at = "reserve"]]
    /\ UseFrame /\ UNCHANGED <<binding, pairs, renewals, faults>>

UseKind(u) == IF use[u].at \in {"acquire", "start", "send"} THEN "business" ELSE "refresh"
ClaimId(u) == <<u, UseKind(u), use[u].last>>

\* Seeded fault: an expired request that was started is taken for one that never ran.
MayTakeStarted(b) == ~b.claim.live

\* The claim of another caller may be taken over when it expired before its request.
MayTake(b) == ~b.claim.live /\ ~b.claim.started

\* acquire_provider_operation_intent_cas and acquire_refresh_claim_cas
Acquire(u) ==
    /\ use[u].at \in {"acquire", "reserve"}
    /\ LET c == use[u].c
           b == binding[c]
           held == b.claim # None
           open == /\ Admitted(b) /\ HasPair(b) /\ use[u].ctx = Context(b) /\ use[u].gen = b.gen
                   /\ held => ClaimStands(b) /\ ~b.claim.live
           next == IF use[u].at = "acquire" THEN "start" ELSE "begin"
       IN  IF ~open THEN UseGoes(u, "done") /\ UNCHANGED <<binding, faults>>
           ELSE IF held /\ ~MayTake(b)
           THEN /\ UseGoes(u, "done") /\ UNCHANGED faults
                /\ binding' = [binding EXCEPT ![c] = Quarantined(b)]
           ELSE /\ binding' = [binding EXCEPT ![c] = NewClaim(b, ClaimId(u), UseKind(u), Context(b))]
                /\ \E at \in Reported(next, "done") : UseGoes(u, at) /\ Charged(at, "done")
    /\ UseFrame /\ UNCHANGED <<pairs, renewals>>

\* transition_..._to_started_cas. After a lost answer a renewal gives its claim up,
\* which clear_claim refuses for a request that was started.
Start(u) ==
    /\ use[u].at \in {"start", "begin"}
    /\ LET c == use[u].c
           b == binding[c]
           mine == Owns(b, ClaimId(u)) /\ ~b.claim.started /\ b.claim.live /\ ClaimStands(b)
           next == IF use[u].at = "start" THEN "send" ELSE "renew"
           lost == IF use[u].at = "start" THEN "done" ELSE "release"
       IN  IF mine
           THEN /\ binding' = [binding EXCEPT ![c] = Begun(b)]
                /\ \E at \in Reported(next, lost) : UseGoes(u, at) /\ Charged(at, lost)
           ELSE UseGoes(u, lost) /\ UNCHANGED <<binding, faults>>
    /\ UseFrame /\ UNCHANGED <<pairs, renewals>>

\* release_refresh_claim_cas
Release(u) ==
    /\ use[u].at = "release"
    /\ LET b == binding[use[u].c] IN
       binding' = IF Owns(b, ClaimId(u)) /\ ~b.claim.started THEN [binding EXCEPT ![use[u].c] = Unclaimed(b)] ELSE binding
    /\ UseGoes(u, "done")
    /\ UseFrame /\ UNCHANGED <<pairs, renewals, faults>>

\* _graphql_request. A timeout or an error of the server leaves the claim started.
Call(u) ==
    /\ use[u].at = "send"
    /\ \E at \in {"answered", "refused", "done"} : UseGoes(u, at)
    /\ UseFrame /\ UNCHANGED <<binding, pairs, renewals, faults>>

\* terminalize_provider_operation_intent_cas; a refused token is renewed once.
Terminalize(u) ==
    /\ use[u].at \in {"answered", "refused"}
    /\ LET b == binding[use[u].c] IN
       \/ /\ binding' = IF Owns(b, <<u, "business", use[u].last>>) THEN [binding EXCEPT ![use[u].c] = Unclaimed(b)] ELSE binding
          /\ UNCHANGED faults
       \/ faults < MaxFaults /\ faults' = faults + 1 /\ UNCHANGED binding
    /\ UseGoes(u, IF use[u].at = "answered" \/ use[u].last THEN "done" ELSE "preflight")
    /\ UseFrame /\ UNCHANGED <<pairs, renewals>>

\* The token endpoint retires the pair it is given, whether or not the answer arrives.
Renew(u) ==
    /\ use[u].at = "renew"
    /\ renewals' = [renewals EXCEPT ![use[u].pair] = @ + 1]
    /\ \/ pairs' = pairs + 1 /\ use' = [use EXCEPT ![u].at = "persist", ![u].got = pairs + 1]
       \/ UNCHANGED pairs /\ UseGoes(u, "quarantine")
    /\ UseFrame /\ UNCHANGED <<binding, faults>>

\* persist_refreshed_tokens_cas
Persist(u) ==
    /\ use[u].at = "persist"
    /\ LET c == use[u].c
           b == binding[c]
           mine == /\ Owns(b, ClaimId(u)) /\ b.claim.started /\ b.claim.live /\ b.gen = use[u].gen
                   /\ ClaimStands(b)
       IN  \/ /\ mine
              /\ binding' = [binding EXCEPT ![c] = Renewed(b, use[u].got)]
              /\ \E at \in Reported("load", "quarantine") :
                    use' = [use EXCEPT ![u].at = at, ![u].last = TRUE] /\ Charged(at, "quarantine")
           \/ /\ ~mine \/ faults < MaxFaults
              /\ faults' = IF mine THEN faults + 1 ELSE faults
              /\ UseGoes(u, "quarantine") /\ UNCHANGED binding
    /\ UseFrame /\ UNCHANGED <<pairs, renewals>>

\* quarantine_provider_reauth_cas; when it fails the started claim stays.
Quarantine(u) ==
    /\ use[u].at = "quarantine"
    /\ LET b == binding[use[u].c]
           mine == Owns(b, ClaimId(u)) /\ b.claim.started /\ b.gen = use[u].gen /\ ClaimStands(b)
       IN  \/ /\ binding' = IF mine THEN [binding EXCEPT ![use[u].c] = Quarantined(b)] ELSE binding
              /\ UNCHANGED faults
           \/ mine /\ faults < MaxFaults /\ faults' = faults + 1 /\ UNCHANGED binding
    /\ UseGoes(u, "done")
    /\ UseFrame /\ UNCHANGED <<pairs, renewals>>

UseNext == \E u \in Uses :
    \/ \E c \in Contractors \ Malformed : CallBegins(u, c)
    \/ LoadSnapshot(u) \/ Preflight(u) \/ Reload(u) \/ Acquire(u) \/ Start(u) \/ Release(u)
    \/ Call(u) \/ Terminalize(u) \/ Renew(u) \/ Persist(u) \/ Quarantine(u)

-----------------------------------------------------------------------------
(* Connecting: a state record, the owner's consent at Jobber, and a claim    *)
(* under which the code is exchanged and the new binding is written.         *)

FlowGoes(f, at) == flow' = [flow EXCEPT ![f].at = at]
FlowFrame == UNCHANGED <<counter, barrier, work, use, removal, worker, outbox, renewals, revoked, captured>>

ConnectClaimed(b) == b.claim # None /\ b.claim.kind = "connect"

\* create_state suspends in the same transaction a binding the worker has not reached.
CreateState(f, c) ==
    /\ flow[f].at = "idle"
    /\ LET b == binding[c]
           behind == Stale(b) /\ b.processed # barrier[b.acct]
           open == IF behind THEN ~UnauditedOwner(b)
                   ELSE Stale(b) => ~(ConnectClaimed(b) /\ b.claim.live)
           next == IF behind THEN Suspend(b) ELSE b
       IN  /\ open
           /\ binding' = [binding EXCEPT ![c] = next]
           /\ flow' = [flow EXCEPT ![f] = [at |-> "asked", c |-> c, gen |-> next.gen, live |-> TRUE,
                            ctx |-> [acct |-> b.acct, at |-> counter], got |-> 0, dest |-> None]]
    /\ FlowFrame /\ UNCHANGED <<pairs, consent, faults>>

\* What the callback's state record must still agree with.
Consumable(f, b) == flow[f].live /\ flow[f].gen = b.gen /\ OAuthStands(b, flow[f].ctx)

\* consume_jobber_oauth_state deletes the record, whatever it finds.
Consume(f) ==
    /\ flow[f].at = "asked"
    /\ LET c == flow[f].c
           b == binding[c]
           held == b.claim # None
           open == Consumable(f, b) /\ (held => ClaimStands(b) /\ ~b.claim.live)
       IN  IF ~open THEN FlowGoes(f, "done") /\ UNCHANGED <<binding, faults>>
           ELSE IF held /\ b.claim.started /\ ~b.quarantined
           THEN /\ FlowGoes(f, "done") /\ UNCHANGED faults
                /\ binding' = [binding EXCEPT ![c] = Quarantined(b)]
           ELSE /\ binding' = [binding EXCEPT ![c] = NewClaim(b, <<f>>, "connect", flow[f].ctx)]
                /\ \E at \in Reported("consumed", "done") : FlowGoes(f, at) /\ Charged(at, "done")
    /\ FlowFrame /\ UNCHANGED <<pairs, consent>>

\* The claim is marked before the code is sent to Jobber.
StartExchange(f) ==
    /\ flow[f].at = "consumed"
    /\ LET b == binding[flow[f].c]
           mine == Owns(b, <<f>>) /\ ~b.claim.started /\ b.claim.live /\ ClaimStands(b)
       IN  IF mine
           THEN /\ binding' = [binding EXCEPT ![flow[f].c] = Begun(b)]
                /\ \E at \in Reported("exchange", "done") : FlowGoes(f, at) /\ Charged(at, "done")
           ELSE FlowGoes(f, "done") /\ UNCHANGED <<binding, faults>>
    /\ FlowFrame /\ UNCHANGED <<pairs, consent>>

\* The owner may have chosen any account; a refusal is certain, a timeout is not.
Exchange(f) ==
    /\ flow[f].at = "exchange"
    /\ \/ \E a \in Accounts :
             /\ pairs' = pairs + 1
             /\ flow' = [flow EXCEPT ![f].at = "connect", ![f].got = pairs + 1, ![f].dest = a]
       \/ \E at \in {"rejected", "done"} : FlowGoes(f, at) /\ UNCHANGED pairs
    /\ FlowFrame /\ UNCHANGED <<binding, consent, faults>>

\* A refused code gives the claim back: Jobber said that nothing was issued.
Rejected(f) ==
    /\ flow[f].at = "rejected"
    /\ FlowGoes(f, "done")
    /\ LET b == binding[flow[f].c] IN
       binding' = IF Owns(b, <<f>>) THEN [binding EXCEPT ![flow[f].c] = Unclaimed(b)] ELSE binding
    /\ FlowFrame /\ UNCHANGED <<pairs, consent, faults>>

\* Seeded fault: capture is carried over to whichever account the owner chose.
KeepsCaptureAnywhere(b, dest) == ~Suspended(b) /\ b.accepted # None /\ ~Stale(b) /\ b.capture

\* Capture survives a new authorisation of the same account only.
KeepsCapture(b, dest) == ~Suspended(b) /\ b.accepted # None /\ ~Stale(b) /\ b.capture /\ b.acct = dest

Connect(f) ==
    /\ flow[f].at = "connect"
    /\ FlowGoes(f, "done")
    /\ LET c == flow[f].c
           b == binding[c]
           dest == flow[f].dest
           mine == /\ Owns(b, <<f>>) /\ b.claim.started /\ b.claim.live /\ b.gen = flow[f].gen
                   /\ OAuthStands(b, flow[f].ctx) /\ DestinationStands(flow[f].ctx, dest)
       IN  IF mine
           THEN /\ binding' = [binding EXCEPT ![c] =
                        [Renewed(b, flow[f].got) EXCEPT !.acct = dest, !.accepted = barrier[dest],
                                !.processed = 0, !.capture = KeepsCapture(b, dest)]]
                /\ consent' = [consent EXCEPT ![c] = flow[f].ctx.at]
           ELSE UNCHANGED <<binding, consent>>
    /\ FlowFrame /\ UNCHANGED <<pairs, faults>>

FlowNext == \E f \in Flows :
    \/ \E c \in Contractors \ Malformed : CreateState(f, c)
    \/ Consume(f) \/ StartExchange(f) \/ Exchange(f) \/ Rejected(f) \/ Connect(f)

\* update_capture
SetCapture(c, on) ==
    /\ binding[c].capture # on
    /\ on => Ready(binding[c])
    /\ binding' = [binding EXCEPT ![c].capture = on]
    /\ captured' = IF on THEN [captured EXCEPT ![c] = Context(binding[c])] ELSE captured
    /\ UNCHANGED <<counter, barrier, work, callers, outbox, provider, consent, faults>>

-----------------------------------------------------------------------------
(* Disconnecting: a suspended binding is deleted here, another one is turned *)
(* into a tombstone and the grant is given back at Jobber.                   *)

RemovalGoes(r, at) == removal' = [removal EXCEPT ![r].at = at]
RemovalFrame == UNCHANGED <<counter, barrier, work, use, flow, worker, pairs, renewals, history>>

\* provider_binding_blocked
Blocked(b) == ~Tombstone(b) /\ (Suspended(b) \/ b.accepted = None \/ b.accepted # barrier[b.acct])

Deleted(b) == [NoBinding EXCEPT !.gen = b.gen + 1]
\* The tombstone keeps the account's name, and nothing else.
Disconnected(b) == [Deleted(b) EXCEPT !.acct = b.acct]

\* remove_if_blocked: retained credentials are deleted without being used.
RemoveLocal(r, c) ==
    /\ removal[r].at = "idle"
    /\ LET b == binding[c] IN
       /\ binding' = IF Blocked(b) THEN [binding EXCEPT ![c] = Deleted(b)] ELSE binding
       /\ removal' = [removal EXCEPT ![r] =
              [at |-> IF Blocked(b) THEN "done" ELSE "normal", c |-> c, gen |-> 0, ctx |-> Context(b)]]
    /\ RemovalFrame /\ UNCHANGED <<outbox, revoked, faults>>

MayDisconnect(b) == Admitted(b) /\ ~b.quarantined /\ (b.claim = None \/ ~b.claim.started)

\* A repeated disconnect gets the record of the first one, and no token.
Repeated(b) == Tombstone(b)

\* disconnect_provider_envelope_cas: the tombstone and the outbox record are one commit.
Disconnect(r) ==
    /\ removal[r].at = "normal"
    /\ LET c == removal[r].c
           b == binding[c]
       IN  IF Repeated(b) \/ ~MayDisconnect(b)
           THEN RemovalGoes(r, "done") /\ UNCHANGED <<binding, outbox, faults>>
           ELSE /\ binding' = [binding EXCEPT ![c] = Disconnected(b)]
                /\ outbox' = [outbox EXCEPT ![r] = "started"]
                /\ \E at \in Reported("admit", "done") :
                     /\ removal' = [removal EXCEPT ![r] = [@ EXCEPT !.at = at, !.gen = b.gen + 1, !.ctx = Context(b)]]
                     /\ Charged(at, "done")
    /\ RemovalFrame /\ UNCHANGED revoked

RevocationStands(b, ctx, gen) == Tombstone(b) /\ b.gen = gen /\ barrier[ctx.acct] = ctx.at

\* admit_revocation; what it cannot read is a denial.
Admit(r) ==
    /\ removal[r].at = "admit"
    /\ IF RevocationStands(binding[removal[r].c], removal[r].ctx, removal[r].gen)
       THEN \E at \in Reported("dispatch", "denied") : RemovalGoes(r, at) /\ Charged(at, "denied")
       ELSE RemovalGoes(r, "denied") /\ UNCHANGED faults
    /\ RemovalFrame /\ UNCHANGED <<binding, outbox, revoked>>

\* appDisconnect at Jobber; its answer is an outcome or none.
Dispatch(r) ==
    /\ removal[r].at = "dispatch"
    /\ revoked' = revoked \cup {r}
    /\ \E at \in {"succeeded", "failed", "unknown"} : RemovalGoes(r, at)
    /\ RemovalFrame /\ UNCHANGED <<binding, outbox, faults>>

\* record_revocation_outcome_cas and finalize_revocation_audit_cas
Record(r) ==
    /\ removal[r].at \in {"succeeded", "failed", "unknown"}
    /\ outbox[r] = "started"
    /\ \E at \in Reported("finalize", "done") :
         /\ RemovalGoes(r, at) /\ Charged(at, "done")
         /\ outbox' = IF at = "done" THEN outbox ELSE [outbox EXCEPT ![r] = removal[r].at]
    /\ RemovalFrame /\ UNCHANGED <<binding, revoked>>

\* Seeded fault: a denial that could not be explained counts as a proof.
DenialIsProvenAnyway(b, ctx, gen) == Tombstone(b) /\ b.gen = gen

DenialIsProven(b, ctx, gen) == Tombstone(b) /\ b.gen = gen /\ b.acct = ctx.acct /\ barrier[ctx.acct] > ctx.at

\* cancel_denied_revocation certifies that nothing was sent, on the evidence of a receipt.
CancelDenied(r) ==
    /\ removal[r].at = "denied"
    /\ RemovalGoes(r, "done")
    /\ outbox' = IF DenialIsProven(binding[removal[r].c], removal[r].ctx, removal[r].gen) /\ outbox[r] = "started"
                 THEN [outbox EXCEPT ![r] = "not_attempted"] ELSE outbox
    /\ RemovalFrame /\ UNCHANGED <<binding, revoked, faults>>

Finalize(r) ==
    /\ removal[r].at = "finalize"
    /\ RemovalGoes(r, "done")
    /\ RemovalFrame /\ UNCHANGED <<binding, outbox, revoked, faults>>

RemovalNext == \E r \in Removals :
    \/ \E c \in Contractors \ Malformed : RemoveLocal(r, c)
    \/ Disconnect(r) \/ Admit(r) \/ Dispatch(r) \/ Record(r) \/ CancelDenied(r) \/ Finalize(r)

-----------------------------------------------------------------------------
(* The recovery worker: a lease on one account's work and one page of its   *)
(* contractors, each suspended in a transaction that checks the lease again. *)

WorkerGoes(w, at) == worker' = [worker EXCEPT ![w].at = at]
WorkerFrame == UNCHANGED <<counter, barrier, use, flow, removal, outbox, provider, history>>

Lowest(S) == CHOOSE x \in S : \A y \in S : x <= y

\* Seeded fault: work given up keeps the name of its lease.
GivenWithLease(row, tries) ==
    [row EXCEPT !.status = IF tries >= MaxAttempts THEN "needs_review" ELSE "pending",
                !.tries = IF tries >= MaxAttempts THEN MaxAttempts ELSE tries]

Given(row, tries) ==
    [row EXCEPT !.status = IF tries >= MaxAttempts THEN "needs_review" ELSE "pending",
                !.tries = IF tries >= MaxAttempts THEN MaxAttempts ELSE tries, !.lease = None, !.live = FALSE]

\* acquire_work_lease_atomic; an expired lease counts as a failed attempt.
AcquireWork(w, a) ==
    /\ worker[w].at = "idle"
    /\ \/ work[a].status = "pending"
       \/ work[a].status = "processing" /\ ~work[a].live
    /\ LET tries == work[a].tries + IF work[a].status = "processing" THEN 1 ELSE 0 IN
       IF tries >= MaxAttempts
       THEN work' = [work EXCEPT ![a] = Given(@, tries)] /\ UNCHANGED <<worker, faults>>
       ELSE /\ work' = [work EXCEPT ![a] = [@ EXCEPT !.status = "processing", !.lease = w, !.live = TRUE, !.tries = tries]]
            /\ \E at \in Reported("query", "idle") :
                 /\ Charged(at, "idle")
                 /\ worker' = [worker EXCEPT ![w] = IF at = "idle" THEN [at |-> "idle"]
                       ELSE [at |-> "query", a |-> a, level |-> barrier[a], left |-> {}, last |-> work[a].cursor, more |-> FALSE]]
    /\ WorkerFrame /\ UNCHANGED binding

\* Seeded fault: the next page starts one contractor late.
PageFromSkipping(a, after) == {c \in Contractors : binding[c].acct = a /\ c > after + 1}

\* The contractors still to be seen, in the order of their names.
PageFrom(a, after) == {c \in Contractors : binding[c].acct = a /\ c > after}

\* The first of them: PageSize, or all there are.
IsPage(page, rest) ==
    /\ \A c \in page : \A d \in rest : d < c => d \in page
    /\ Cardinality(page) = PageSize \/ (page = rest /\ Cardinality(page) < PageSize)

QueryPage(w) ==
    /\ worker[w].at = "query"
    /\ LET rest == PageFrom(worker[w].a, worker[w].last)
       IN  \E page \in SUBSET rest, last \in rest \cup {0} :
              /\ IsPage(page, rest)
              /\ IF page = {} THEN last = 0 ELSE last \in page /\ \A c \in page : c <= last
              /\ worker' = [worker EXCEPT ![w] = [@ EXCEPT !.at = "page", !.left = page, !.more = Cardinality(page) = PageSize,
                                                         !.last = last]]
    /\ WorkerFrame /\ UNCHANGED <<work, binding, faults>>

\* _leased_context: a newer receipt reopens the work and takes the lease away.
Leased(w) ==
    LET row == work[worker[w].a] IN
    row.status = "processing" /\ row.lease = w /\ row.live /\ barrier[worker[w].a] = worker[w].level

\* advance_contractor_disconnect_in_txn
Advance(w) ==
    /\ worker[w].at = "page" /\ worker[w].left # {}
    /\ LET a == worker[w].a
           c == Lowest(worker[w].left)
           b == binding[c]
           moved == b.acct # a \/ b.accepted = None
           behind == b.accepted < barrier[a] /\ b.processed # barrier[a]
           broken == ~Leased(w) \/ (~moved /\ (c \in Malformed \/ (behind /\ UnauditedOwner(b))))
       IN  IF broken THEN WorkerGoes(w, "failed") /\ UNCHANGED binding
           ELSE /\ worker' = [worker EXCEPT ![w].left = @ \ {c}]
                /\ binding' = IF ~moved /\ behind THEN [binding EXCEPT ![c] = Suspend(b)] ELSE binding
    /\ WorkerFrame /\ UNCHANGED <<work, faults>>

\* finalize_work_lease_atomic
FinalizeWork(w) ==
    /\ worker[w].at = "page" /\ worker[w].left = {}
    /\ IF Leased(w)
       THEN /\ WorkerGoes(w, "idle")
            /\ work' = [work EXCEPT ![worker[w].a] =
                  [status |-> IF worker[w].more THEN "pending" ELSE "completed", lease |-> None, live |-> FALSE,
                   tries |-> 0, cursor |-> IF worker[w].more THEN worker[w].last ELSE 0]]
       ELSE WorkerGoes(w, "failed") /\ UNCHANGED work
    /\ WorkerFrame /\ UNCHANGED <<binding, faults>>

\* release_work_lease_on_failure_atomic
ReleaseWork(w) ==
    /\ worker[w].at = "failed"
    /\ WorkerGoes(w, "idle")
    /\ work' = IF Leased(w) THEN [work EXCEPT ![worker[w].a] = Given(@, @.tries + 1)] ELSE work
    /\ WorkerFrame /\ UNCHANGED <<binding, faults>>

\* The pass ran into its deadline, or its instance ended.
WorkerStops(w) ==
    /\ worker[w].at \notin {"idle", "away"} /\ faults < MaxFaults /\ faults' = faults + 1
    /\ \E at \in {"idle", "failed"} : worker' = [worker EXCEPT ![w] = IF at = "idle" THEN [at |-> at] ELSE [@ EXCEPT !.at = at]]
    /\ WorkerFrame /\ UNCHANGED <<work, binding>>

WorkerNext == \E w \in Workers :
    \/ \E a \in Accounts : AcquireWork(w, a)
    \/ QueryPage(w) \/ Advance(w) \/ FinalizeWork(w) \/ ReleaseWork(w) \/ WorkerStops(w)

Next ==
    \/ \E a \in Accounts : Receive(a) \/ LeaseExpires(a)
    \/ \E c \in Contractors : ClaimExpires(c) \/ \E on \in BOOLEAN : SetCapture(c, on)
    \/ \E f \in Flows : StateExpires(f)
    \/ UseNext \/ FlowNext \/ RemovalNext \/ WorkerNext

Spec == Init /\ [][Next]_vars

-----------------------------------------------------------------------------
(* Properties.                                                              *)

Claims == {b.claim : b \in {binding[c] : c \in Contractors}} \ {None}

\* Every record keeps its shape: receipts, work rows, bindings and revocations.
TypeOK ==
    /\ counter \in 0..MaxReceipts /\ barrier \in [Accounts -> 0..counter]
    /\ \A a \in Accounts : /\ work[a].status \in {"none", "pending", "processing", "completed", "needs_review"}
                           /\ work[a].lease # None <=> work[a].status = "processing"
                           /\ work[a].tries \in 0..MaxAttempts
    /\ \A c \in Contractors : /\ binding[c].acct \in Accounts \cup {None}
                              /\ binding[c].accepted # None => binding[c].acct # None /\ binding[c].accepted <= counter
    /\ \A k \in Claims : k.kind \in {"business", "refresh", "connect"}
    /\ \A r \in Removals : outbox[r] \in {"none", "started", "succeeded", "failed", "unknown", "not_attempted"}
    /\ faults \in 0..MaxFaults

\* A credential that may be used was consented to after the last APP_DISCONNECT
\* of its account: a webhook of Jobber is never undone by a claim, a renewal, or
\* an authorisation begun before it (jobber_admissions.py, the barrier).
ConsentFollowsReceipt ==
    \A c \in Contractors : LET b == binding[c] IN Admitted(b) /\ HasPair(b) => consent[c] >= barrier[b.acct]

\* A token pair is handed to the token endpoint once: a renewal whose outcome is
\* unknown is never tried again with the same refresh token, which Jobber rotates.
RenewedOnce == \A p \in DOMAIN renewals : renewals[p] <= 1

\* Work reported as completed has reached every contractor bound to the account,
\* those bound or reconnected while it was paging included.
CompletedIsSuspended ==
    \A a \in Accounts : work[a].status = "completed" =>
        \A c \in Contractors : LET b == binding[c] IN
            b.acct = a /\ b.accepted # None => b.accepted = barrier[a] \/ b.processed = barrier[a]

\* Lead capture runs for the account it was switched on for: reconnecting to
\* another account, or through a suspension, never carries it over.
CaptureIsForThisAccount ==
    \A c \in Contractors : LET b == binding[c] IN b.capture /\ Admitted(b) => captured[c].acct = b.acct

\* An outbox record that says that nothing was attempted is true, and rests on a
\* receipt of the account: it is never the reading of a failed request.
RevocationIsHonest ==
    \A r \in Removals : outbox[r] = "not_attempted" => r \notin revoked /\ barrier[removal[r].ctx.acct] > removal[r].ctx.at

=============================================================================
